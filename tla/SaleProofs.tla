----------------------------- MODULE SaleProofs -----------------------------
(* Theorems about the sale composed with its vault, for any investors,     *)
(* caps, fees, phases and vesting terms.                                   *)
EXTENDS Sale, CiretaVaultProofs, SequenceTheorems

-----------------------------------------------------------------------------
(* The inductive invariant.  EscrowCoversRefunds alone is not inductive: a *)
(* refund flag set before finalization would hide money still to come, and *)
(* the proceeds add up only because an open sale holds what it has raised. *)

RefundedOnlyFailed ==
    \A i \in Investors :
        contributions[i].refunded => status = "FinalizedFailed"

OpenHoldsRaised ==
    ~Final => /\ escrow = totalRaised
              /\ platformFeeCollected = 0
              /\ issuerUsdc = 0

DraftIsEmpty == status = "Draft" => totalRaised = 0

BooksAgree ==
    \A i \in Investors : contributions[i].amount = totalContributed[i]

MoneyInv ==
    /\ EscrowCoversRefunds
    /\ ProceedsSplit
    /\ CapsDecide
    /\ RefundedOnlyFailed
    /\ OpenHoldsRaised
    /\ DraftIsEmpty
    /\ BooksAgree

SaleInv == SaleTypeOK /\ VaultInv /\ MoneyInv /\ VestingIffSuccess

moneyVars == <<status, totalRaised, totalContributed, platformFeeCollected,
               escrow, issuerUsdc>>

-----------------------------------------------------------------------------
(* Lemmas on the parts of a step.                                          *)

(* The sale's other calls leave all but the investors' tokens alone.       *)
LEMMA VaultFrame ==
    ASSUME VaultInv, investorTokens' \in [Investors -> Nat],
           UNCHANGED <<ledgerVars, vestingVars, excessPolicy,
                       investorVesting, fractionVars, vaultTokens, verified,
                       now>>
    PROVE  VaultInv'
  BY DEF VaultInv, VaultTypeOK, VestingClock, ClaimedVested, Vested,
         SupplyIsSum, ledgerVars, vestingVars, fractionVars

(* Fractions minted and recorded, with or without the start of vesting.    *)
LEMMA VaultAllocates ==
    ASSUME VaultInv, NEW i \in Investors, NEW n \in Nat,
           MintFractions(i, n), RecordAllocation(i, n),
           StartVesting \/ UNCHANGED vestingVars,
           UNCHANGED <<ledgerVars, excessPolicy, tokenVars, verified, now>>
    PROVE  VaultInv'
<1> USE DEF VaultInv, VestingClock
<1>1. /\ fractionBalance' \in [Investors -> Nat]
      /\ fractionSupply' \in Nat
      /\ SupplyIsSum'
  BY MintKeepsSum
<1>2. /\ investorVesting' \in [Investors -> Vesting]
      /\ \A j \in Investors :
            /\ investorVesting'[j].claimedAmount
                   = investorVesting[j].claimedAmount
            /\ investorVesting'[j].totalFractions
                   = investorVesting[j].totalFractions
                         + (IF j = i THEN n ELSE 0)
  BY RecordRaises DEF VaultTypeOK
<1>3. VaultTypeOK'
  BY <1>1, <1>2 DEF VaultTypeOK, ledgerVars, vestingVars, tokenVars,
                    StartVesting
<1>4. CASE StartVesting
  <2>1. ClaimedVested'
    BY <1>2, <1>3, <1>4, VestingStarts DEF StartVesting, VaultTypeOK
  <2> QED
    BY <1>1, <1>3, <1>4, <2>1 DEF StartVesting, VaultTypeOK
<1>5. CASE UNCHANGED vestingVars
  <2>1. \A j \in Investors : investorVesting[j].totalFractions
                                 <= investorVesting'[j].totalFractions
    BY <1>2 DEF VaultTypeOK, Vesting
  <2>2. ClaimedVested'
    BY <1>2, <1>3, <1>5, <2>1, VestingGrows DEF vestingVars, VaultTypeOK
  <2> QED
    BY <1>1, <1>3, <1>5, <2>2 DEF vestingVars
<1> QED
  BY <1>4, <1>5

(* A refund burns fractions.                                               *)
LEMMA VaultBurns ==
    ASSUME VaultInv, NEW i \in Investors, NEW n \in Nat, BurnFractions(i, n),
           UNCHANGED <<ledgerVars, vestingVars, excessPolicy,
                       investorVesting, tokenVars, verified, now>>
    PROVE  VaultInv'
<1>1. /\ fractionBalance' \in [Investors -> Nat]
      /\ fractionSupply' \in Nat
      /\ SupplyIsSum'
  BY BurnKeepsSum DEF VaultInv
<1> QED
  BY <1>1 DEF VaultInv, VaultTypeOK, VestingClock, ClaimedVested, Vested,
              ledgerVars, vestingVars, tokenVars

LEMMA VaultStarts ==
    ASSUME VaultInv, StartVesting,
           UNCHANGED <<ledgerVars, excessPolicy, investorVesting,
                       fractionVars, tokenVars, verified, now>>
    PROVE  VaultInv'
<1>1. SaleStartsVesting
  BY DEF SaleStartsVesting
<1> QED
  BY <1>1, VaultNextInv DEF VaultNext

(* A step that moves no money keeps the money invariant, whatever it does  *)
(* to allocations and claim flags.                                         *)
LEMMA MoneyQuiet ==
    ASSUME MoneyInv, UNCHANGED moneyVars,
           \A i \in Investors :
               /\ contributions'[i].amount = contributions[i].amount
               /\ contributions'[i].refunded = contributions[i].refunded
    PROVE  MoneyInv'
<1>1. \A i \in Investors : Refundable(i)' = Refundable(i)
  BY DEF Refundable
<1>2. EscrowCoversRefunds'
  BY <1>1 DEF MoneyInv, EscrowCoversRefunds, moneyVars
<1> QED
  BY <1>2 DEF MoneyInv, ProceedsSplit, CapsDecide, RefundedOnlyFailed,
              OpenHoldsRaised, DraftIsEmpty, BooksAgree, Final, moneyVars

LEMMA FeeBounds ==
    ASSUME NEW raised \in Nat
    PROVE  /\ CalculateFee(raised) \in Nat
           /\ feeCapUsdc > 0 => CalculateFee(raised) <= feeCapUsdc
<1>1. raised * feeBasisPoints \in Nat /\ feeCapUsdc \in Nat
  BY SaleAssumption, MulMonotone
<1>2. (raised * feeBasisPoints) \div 10000 \in Nat
  BY <1>1, DivFacts
<1> QED
  BY <1>1, <1>2 DEF CalculateFee

LEMMA TokensForType ==
    ASSUME NEW c \in PhaseConfigs, NEW amount \in Nat, c.pricePerToken > 0
    PROVE  TokensFor(c, amount) \in Nat
<1>1. c.pricePerToken \in Nat \ {0}
  BY SaleAssumption DEF PhaseConfig
<1>2. amount * Scale \in Nat
  BY SaleAssumption, MulMonotone
<1> QED
  BY <1>1, <1>2, DivFacts DEF TokensFor

(* Settling an open sale that holds exactly what it has raised.            *)
LEMMA SettleMoney ==
    ASSUME MoneyInv, ~Final, NEW raised \in Nat, raised <= hardCap,
           Finalize(raised, raised), totalRaised' = raised,
           Sum([i \in Investors |-> Refundable(i)])' = raised,
           BooksAgree', \A i \in Investors : ~contributions'[i].refunded
    PROVE  MoneyInv'
<1>1. platformFeeCollected = 0 /\ issuerUsdc = 0
  BY DEF MoneyInv, OpenHoldsRaised
<1>2. CASE FinalizeSuccess(raised, raised)
  <2>1. /\ CalculateFee(raised) \in Nat
        /\ feeCapUsdc > 0 => CalculateFee(raised) <= feeCapUsdc
    BY FeeBounds
  <2>2. /\ raised >= softCap
        /\ status' = "FinalizedSuccess"
        /\ platformFeeCollected' = CalculateFee(raised)
        /\ escrow' = 0
        /\ issuerUsdc' = raised - CalculateFee(raised)
    BY <1>1, <1>2, <2>1 DEF FinalizeSuccess
  <2>3. ProceedsSplit'
    BY <2>1, <2>2 DEF ProceedsSplit
  <2>4. EscrowCoversRefunds' /\ CapsDecide'
    BY <2>2 DEF EscrowCoversRefunds, CapsDecide
  <2> QED
    BY <2>2, <2>3, <2>4
       DEF MoneyInv, RefundedOnlyFailed, OpenHoldsRaised, DraftIsEmpty, Final
<1>3. CASE FinalizeFailed(raised, raised)
  <2>1. /\ raised < softCap
        /\ status' = "FinalizedFailed"
        /\ platformFeeCollected' = 0
        /\ escrow' = raised
        /\ issuerUsdc' = 0
    BY <1>1, <1>3 DEF FinalizeFailed
  <2>2. ProceedsSplit'
    BY <2>1, SaleAssumption DEF ProceedsSplit
  <2>3. EscrowCoversRefunds' /\ CapsDecide'
    BY <2>1 DEF EscrowCoversRefunds, CapsDecide
  <2> QED
    BY <2>1, <2>2, <2>3
       DEF MoneyInv, RefundedOnlyFailed, OpenHoldsRaised, DraftIsEmpty, Final
<1> QED
  BY <1>2, <1>3 DEF Finalize

(* A booked contribution adds to one investor's record only.               *)
LEMMA BookingFacts ==
    ASSUME contributions \in [Investors -> Contribution], NEW i \in Investors,
           NEW amount \in Nat, NEW tokens \in Nat,
           BookContribution(i, amount, tokens)
    PROVE  /\ contributions' \in [Investors -> Contribution]
           /\ \A j \in Investors :
                 /\ contributions'[j].refunded = contributions[j].refunded
                 /\ contributions'[j].amount = contributions[j].amount
                        + (IF j = i THEN amount ELSE 0)
                 /\ contributions'[j].tokensAllocated
                        = contributions[j].tokensAllocated
                              + (IF j = i THEN tokens ELSE 0)
<1> DEFINE c1 == [contributions EXCEPT ![i].amount = @ + amount]
           c2 == [c1 EXCEPT ![i].tokensAllocated = @ + tokens]
           b == contributions[i].claimed \/ saleMode = "Direct"
           c3 == [c2 EXCEPT ![i].claimed = b]
<1>a. c1 \in [Investors -> Contribution]
  BY DEF Contribution
<1>b. c2 \in [Investors -> Contribution]
  <2> HIDE DEF c1
  <2> QED BY <1>a DEF Contribution
<1>c. c3 \in [Investors -> Contribution]
  <2>1. b \in BOOLEAN
    OBVIOUS
  <2> HIDE DEF c2, b
  <2> QED BY <1>b, <2>1 DEF Contribution
<1>1. contributions' \in [Investors -> Contribution]
  <2>1. contributions' = c3
    BY <1>a, <1>b DEF BookContribution, Contribution
  <2> QED BY <1>c, <2>1
<1>2. \A j \in Investors :
         /\ contributions'[j].refunded = contributions[j].refunded
         /\ contributions'[j].amount = contributions[j].amount
                + (IF j = i THEN amount ELSE 0)
  BY DEF BookContribution, Contribution
<1>3. \A j \in Investors :
         contributions'[j].tokensAllocated
             = contributions[j].tokensAllocated
                   + (IF j = i THEN tokens ELSE 0)
  BY DEF BookContribution, Contribution
<1> QED
  BY <1>1, <1>2, <1>3

-----------------------------------------------------------------------------
(* One lemma per action that moves money.                                  *)

LEMMA ContributeKeeps ==
    ASSUME SaleInv, NEW i \in Investors, NEW p \in 1..MaxPhases,
           NEW amount \in Payments, Contribute(i, p, amount)
    PROVE  SaleInv'
<1> DEFINE tokens == TokensFor(phases[p].config, amount)
           raised == totalRaised + amount
           PhaseRec == [config : PhaseConfigs, sold : Nat]
<1>1. amount \in Nat /\ hardCap \in Nat
  BY SaleAssumption
<1>2. /\ MayContribute(i, p, amount)
      /\ status = "Active"
      /\ p \in 1..Len(phases)
      /\ raised <= hardCap
      /\ phases[p].config.pricePerToken > 0
  BY DEF Contribute, MayContribute
<1>3. /\ totalRaised \in Nat /\ escrow \in Nat /\ raised \in Nat
      /\ totalContributed \in [Investors -> Nat]
      /\ contributions \in [Investors -> Contribution]
      /\ phases \in Seq(PhaseRec)
      /\ saleTokens \in Nat
      /\ investorTokens \in [Investors -> Nat]
  BY <1>1 DEF SaleInv, SaleTypeOK, VaultTypeOK
<1>4. phases[p] \in PhaseRec
  <2> HIDE DEF PhaseRec
  <2> QED BY <1>2, <1>3, ElementOfSeq
<1>5. tokens \in Nat
  BY <1>1, <1>2, <1>4, TokensForType
<1> HIDE DEF tokens, raised
<1>6. /\ contributions' \in [Investors -> Contribution]
      /\ \A j \in Investors :
            /\ contributions'[j].refunded = contributions[j].refunded
            /\ contributions'[j].amount = contributions[j].amount
                   + (IF j = i THEN amount ELSE 0)
  BY <1>1, <1>3, <1>5, BookingFacts, SMTT(40) DEF Contribute, tokens
<1>7. phases' \in Seq(PhaseRec)
  <2>1. [phases[p] EXCEPT !.sold = @ + tokens] \in PhaseRec
    BY <1>4, <1>5
  <2>2. phases' = [phases EXCEPT ![p] = [phases[p] EXCEPT !.sold = @ + tokens]]
    BY <1>2, <1>3 DEF Contribute, tokens
  <2> QED
    BY <1>2, <1>3, <2>1, <2>2, ExceptSeq
<1>8. VaultInv'
  <2>1. VaultInv
    BY DEF SaleInv
  <2>2. StartVesting \/ UNCHANGED vestingVars
    BY DEF Contribute, Finalize, FinalizeSuccess, FinalizeFailed
  <2>3. CASE DeliverDirect(i, tokens)
    <3>1. UNCHANGED vestingVars
      BY <2>3 DEF Contribute, Finalize, FinalizeSuccess, FinalizeFailed,
                  DeliverDirect
    <3>2. investorTokens' \in [Investors -> Nat]
      BY <1>3, <1>5, <2>3 DEF DeliverDirect
    <3>3. UNCHANGED <<ledgerVars, excessPolicy, investorVesting, fractionVars,
                      vaultTokens, verified, now>>
      BY <2>3 DEF DeliverDirect, Contribute
    <3> QED
      BY <2>1, <3>1, <3>2, <3>3, VaultFrame
  <2>4. CASE DeliverVested(i, tokens)
    <3>1. UNCHANGED <<ledgerVars, excessPolicy, tokenVars, verified, now>>
      BY <2>4 DEF DeliverVested, Contribute, tokenVars
    <3> QED
      BY <1>5, <2>1, <2>2, <2>4, <3>1, VaultAllocates DEF DeliverVested
  <2> QED
    BY <2>3, <2>4 DEF Contribute, tokens
<1>9. MoneyInv'
  <2> DEFINE f == [j \in Investors |-> Refundable(j)]
             g == [j \in Investors |-> Refundable(j)']
  <2>1. \A j \in Investors : ~contributions[j].refunded
    BY <1>2 DEF SaleInv, MoneyInv, RefundedOnlyFailed
  <2>2. /\ f \in [Investors -> Nat]
        /\ g \in [Investors -> Nat]
        /\ g[i] = f[i] + amount
        /\ \A j \in Investors \ {i} : g[j] = f[j]
    BY <1>1, <1>3, <1>6, <2>1 DEF Refundable, Contribution
  <2>3. Sum(g) = Sum(f) + (g[i] - f[i])
    <3> HIDE DEF f, g
    <3> QED BY <2>2, SumChange, VaultAssumption
  <2>4. /\ escrow = totalRaised
        /\ platformFeeCollected = 0
        /\ issuerUsdc = 0
        /\ Sum(f) = escrow
        /\ ~Final
    BY <1>2 DEF SaleInv, MoneyInv, OpenHoldsRaised, EscrowCoversRefunds, Final
  <2>5. Sum([j \in Investors |-> Refundable(j)])' = raised
    <3>1. f[i] \in Nat /\ g[i] = f[i] + amount
      BY <2>2
    <3>2. Sum(g) = totalRaised + amount
      <4> HIDE DEF f, g
      <4> QED BY <1>1, <1>3, <2>3, <2>4, <3>1
    <3> QED BY <3>2 DEF raised
  <2>6. totalRaised' = raised
    BY DEF Contribute, raised
  <2>7. BooksAgree'
    BY <1>1, <1>3, <1>6, SMTT(40)
       DEF Contribute, BooksAgree, SaleInv, MoneyInv
  <2>8. CASE raised >= hardCap /\ Finalize(raised, escrow + amount)
    <3>1. Finalize(raised, raised)
      BY <2>4, <2>8 DEF raised
    <3>2. MoneyInv
      BY DEF SaleInv
    <3> QED
      BY <1>2, <1>3, <1>6, <2>1, <2>4, <2>5, <2>6, <2>7, <3>1, <3>2,
         SettleMoney
  <2>9. CASE /\ raised < hardCap
             /\ escrow' = escrow + amount
             /\ UNCHANGED <<status, platformFeeCollected, issuerUsdc>>
    <3>1. escrow' = raised /\ status' = "Active"
      BY <1>2, <2>4, <2>9 DEF raised
    <3>2. EscrowCoversRefunds' /\ CapsDecide'
      BY <1>1, <1>3, <2>5, <2>6, <2>9, <3>1
         DEF EscrowCoversRefunds, CapsDecide
    <3>3. ProceedsSplit'
      BY <2>4, <2>9, <3>1, SaleAssumption DEF ProceedsSplit
    <3> QED
      BY <1>6, <2>1, <2>4, <2>6, <2>7, <2>9, <3>1, <3>2, <3>3
         DEF MoneyInv, RefundedOnlyFailed, OpenHoldsRaised, DraftIsEmpty,
             Final
  <2> QED
    BY <2>8, <2>9 DEF Contribute, raised
<1>10. VestingIffSuccess'
  <2>1. ~finalized /\ saleMode' = saleMode
    BY <1>2 DEF SaleInv, VestingIffSuccess, Contribute, configVars
  <2>2. CASE FinalizeSuccess(raised, escrow + amount)
    BY <2>1, <2>2 DEF VestingIffSuccess, FinalizeSuccess, StartVesting,
                      vestingVars
  <2>3. CASE FinalizeFailed(raised, escrow + amount)
    BY <2>1, <2>3 DEF VestingIffSuccess, FinalizeFailed, vestingVars
  <2>4. CASE UNCHANGED <<status, vestingVars>>
    BY <1>2, <2>1, <2>4 DEF VestingIffSuccess, vestingVars
  <2> QED
    BY <2>2, <2>3, <2>4 DEF Contribute, Finalize, raised
<1>11. SaleTypeOK'
  <2>1. /\ status' \in Statuses
        /\ platformFeeCollected' \in Nat
        /\ escrow' \in Nat
        /\ issuerUsdc' \in Nat
    <3>1. /\ CalculateFee(raised) \in Nat
          /\ platformFeeCollected \in Nat /\ issuerUsdc \in Nat
      BY <1>3, FeeBounds DEF SaleInv, SaleTypeOK
    <3>2. CASE FinalizeSuccess(raised, escrow + amount)
      BY <1>1, <1>3, <3>1, <3>2 DEF FinalizeSuccess, Statuses
    <3>3. CASE FinalizeFailed(raised, escrow + amount)
      BY <1>1, <1>3, <3>1, <3>3 DEF FinalizeFailed, Statuses
    <3>4. CASE /\ escrow' = escrow + amount
               /\ UNCHANGED <<status, platformFeeCollected, issuerUsdc>>
      BY <1>1, <1>2, <1>3, <3>1, <3>4 DEF Statuses
    <3> QED
      BY <3>2, <3>3, <3>4 DEF Contribute, Finalize, raised
  <2>2. saleTokens' \in Nat
    BY <1>3, <1>5 DEF Contribute, DeliverDirect, DeliverVested, tokens
  <2>3. investorUsdc' \in [Investors -> Nat]
    <3>1. investorUsdc \in [Investors -> Nat]
      BY DEF SaleInv, SaleTypeOK
    <3>2. /\ amount <= investorUsdc[i]
          /\ investorUsdc' = [investorUsdc EXCEPT ![i] = @ - amount]
      BY DEF Contribute
    <3> QED
      BY <1>1, <3>1, <3>2
  <2>4. /\ totalRaised' \in Nat
        /\ totalContributed' \in [Investors -> Nat]
        /\ blockContributions' \in Nat
    <3>1. blockContributions \in Nat
      BY DEF SaleInv, SaleTypeOK
    <3>2. /\ totalRaised' = totalRaised + amount
          /\ totalContributed' = [totalContributed EXCEPT ![i] = @ + amount]
          /\ blockContributions' = blockContributions + amount
      BY DEF Contribute
    <3> QED
      BY <1>1, <1>3, <3>1, <3>2
  <2>5. UNCHANGED <<saleMode, whitelisted, maxPerBlock, otcAllocations,
                    totalOtcAllocated>>
    BY DEF Contribute, configVars, otcVars
  <2>6. VaultTypeOK'
    BY <1>8 DEF VaultInv
  <2> QED
    BY <1>6, <1>7, <2>1, <2>2, <2>3, <2>4, <2>5, <2>6
       DEF SaleInv, SaleTypeOK
<1> QED
  BY <1>8, <1>9, <1>10, <1>11 DEF SaleInv

LEMMA RefundKeeps ==
    ASSUME SaleInv, NEW i \in Investors, ClaimRefund(i)
    PROVE  SaleInv'
<1> DEFINE n == contributions[i].amount
<1>1. /\ contributions \in [Investors -> Contribution]
      /\ n \in Nat /\ escrow \in Nat
      /\ investorUsdc \in [Investors -> Nat]
      /\ fractionBalance \in [Investors -> Nat]
  BY DEF SaleInv, SaleTypeOK, VaultTypeOK, Contribution
<1>2. /\ status = "FinalizedFailed"
      /\ ~contributions[i].refunded
      /\ n <= escrow
      /\ escrow' = escrow - n
      /\ contributions' = [contributions EXCEPT ![i].refunded = TRUE]
      /\ investorUsdc' = [investorUsdc EXCEPT ![i] = @ + n]
      /\ UNCHANGED <<status, platformFeeCollected, issuerUsdc, configVars,
                     otcVars, raiseVars, saleTokens, vestingVars>>
  BY DEF ClaimRefund, MayRefund
<1> HIDE DEF n
<1>3. /\ contributions' \in [Investors -> Contribution]
      /\ \A j \in Investors :
            /\ contributions'[j].amount = contributions[j].amount
            /\ j # i => contributions'[j] = contributions[j]
      /\ contributions'[i].refunded
  BY <1>1, <1>2 DEF Contribution
<1>4. VaultInv'
  <2>1. VaultInv
    BY DEF SaleInv
  <2>2. fractionBalance[i] \in Nat
    BY <1>1
  <2>3. CASE BurnFractions(i, fractionBalance[i])
    <3>1. UNCHANGED <<ledgerVars, vestingVars, excessPolicy,
                      investorVesting, tokenVars, verified, now>>
      BY DEF ClaimRefund
    <3> QED
      BY <2>1, <2>2, <2>3, <3>1, VaultBurns
  <2>4. CASE UNCHANGED fractionVars
    <3>1. UNCHANGED vaultVars
      BY <2>4 DEF ClaimRefund, vaultVars, ledgerVars, vestingVars,
                  fractionVars, tokenVars
    <3> QED
      BY <2>1, <3>1, VaultNextInv
  <2> QED
    BY <2>3, <2>4 DEF ClaimRefund
<1>5. MoneyInv'
  <2> DEFINE f == [j \in Investors |-> Refundable(j)]
             g == [j \in Investors |-> Refundable(j)']
  <2>1. /\ f \in [Investors -> Nat]
        /\ g \in [Investors -> Nat]
        /\ f[i] = n
        /\ g[i] = 0
        /\ \A j \in Investors \ {i} : g[j] = f[j]
    BY <1>1, <1>2, <1>3 DEF Refundable, Contribution, n
  <2>2. escrow = Sum(f)
    BY <1>2 DEF SaleInv, MoneyInv, EscrowCoversRefunds
  <2>3. Sum(g) = escrow - n
    <3> HIDE DEF f, g
    <3>1. Sum(g) = Sum(f) + (g[i] - f[i])
      BY <2>1, SumChange, VaultAssumption
    <3> QED
      BY <1>1, <2>1, <2>2, <3>1
  <2>4. EscrowCoversRefunds'
    BY <1>2, <2>3 DEF EscrowCoversRefunds
  <2>5. ProceedsSplit' /\ CapsDecide'
    BY <1>2 DEF SaleInv, MoneyInv, ProceedsSplit, CapsDecide, raiseVars
  <2>6. BooksAgree'
    BY <1>2, <1>3 DEF SaleInv, MoneyInv, BooksAgree, raiseVars
  <2> QED
    BY <1>2, <2>4, <2>5, <2>6
       DEF MoneyInv, RefundedOnlyFailed, OpenHoldsRaised, DraftIsEmpty, Final
<1>6. VestingIffSuccess'
  BY <1>2 DEF SaleInv, VestingIffSuccess, configVars, vestingVars
<1>7. SaleTypeOK'
  <2>1. escrow' \in Nat /\ investorUsdc' \in [Investors -> Nat]
    BY <1>1, <1>2
  <2>2. VaultTypeOK'
    BY <1>4 DEF VaultInv
  <2> QED
    BY <1>2, <1>3, <2>1, <2>2
       DEF SaleInv, SaleTypeOK, configVars, otcVars, raiseVars
<1> QED
  BY <1>4, <1>5, <1>6, <1>7 DEF SaleInv

LEMMA FinalizeSaleKeeps ==
    ASSUME SaleInv, FinalizeSale
    PROVE  SaleInv'
<1>1. /\ totalRaised \in Nat /\ escrow \in Nat
      /\ platformFeeCollected \in Nat /\ issuerUsdc \in Nat
      /\ totalRaised <= hardCap
      /\ ~Final
      /\ escrow = totalRaised
      /\ ~finalized
      /\ \A i \in Investors : ~contributions[i].refunded
  BY DEF SaleInv, SaleTypeOK, MoneyInv, CapsDecide, OpenHoldsRaised,
         RefundedOnlyFailed, VestingIffSuccess, FinalizeSale, Final
<1>2. /\ Finalize(totalRaised, totalRaised)
      /\ UNCHANGED <<configVars, otcVars, raiseVars, walletVars,
                     contributions, ledgerVars, excessPolicy,
                     investorVesting, fractionVars, tokenVars, verified, now>>
  BY <1>1 DEF FinalizeSale
<1>3. VaultInv'
  <2>1. VaultInv
    BY DEF SaleInv
  <2>2. CASE StartVesting
    BY <1>2, <2>1, <2>2, VaultStarts
  <2>3. CASE UNCHANGED vestingVars
    <3>1. UNCHANGED vaultVars
      BY <1>2, <2>3 DEF vaultVars, ledgerVars, vestingVars, fractionVars,
                        tokenVars
    <3> QED
      BY <2>1, <3>1, VaultNextInv
  <2> QED
    BY <1>2, <2>2, <2>3 DEF Finalize, FinalizeSuccess, FinalizeFailed
<1>4. MoneyInv'
  <2>1. MoneyInv /\ BooksAgree
    BY DEF SaleInv, MoneyInv
  <2>2. totalRaised' = totalRaised /\ contributions' = contributions
    BY <1>2 DEF raiseVars
  <2>3. BooksAgree'
    BY <1>2, <2>1 DEF BooksAgree, raiseVars
  <2>4. Sum([i \in Investors |-> Refundable(i)]) = totalRaised
    BY <1>1, <2>1 DEF MoneyInv, EscrowCoversRefunds, Final
  <2>5. Sum([i \in Investors |-> Refundable(i)])' = totalRaised
    <3>1. \A i \in Investors : Refundable(i)' = Refundable(i)
      BY <2>2 DEF Refundable
    <3> QED
      BY <2>4, <3>1
  <2> QED
    BY <1>1, <1>2, <2>1, <2>2, <2>3, <2>5, SettleMoney
<1>5. VestingIffSuccess'
  BY <1>1, <1>2 DEF VestingIffSuccess, Finalize, FinalizeSuccess,
                    FinalizeFailed, StartVesting, vestingVars, configVars
<1>6. SaleTypeOK'
  <2>1. CalculateFee(totalRaised) \in Nat
    BY <1>1, FeeBounds
  <2>2. /\ status' \in Statuses
        /\ platformFeeCollected' \in Nat
        /\ escrow' \in Nat
        /\ issuerUsdc' \in Nat
    BY <1>1, <1>2, <2>1
       DEF Finalize, FinalizeSuccess, FinalizeFailed, Statuses
  <2>3. VaultTypeOK'
    BY <1>3 DEF VaultInv
  <2> QED
    BY <1>2, <2>2, <2>3
       DEF SaleInv, SaleTypeOK, configVars, otcVars, raiseVars, walletVars
<1> QED
  BY <1>3, <1>4, <1>5, <1>6 DEF SaleInv

-----------------------------------------------------------------------------
(* The actions that move no USDC.                                          *)

(* A step of the sale that leaves money, modes and vault alone.            *)
LEMMA QuietKeeps ==
    ASSUME SaleInv, VaultInv', SaleTypeOK', UNCHANGED moneyVars,
           UNCHANGED <<saleMode, finalized>>,
           \A i \in Investors :
               /\ contributions'[i].amount = contributions[i].amount
               /\ contributions'[i].refunded = contributions[i].refunded
    PROVE  SaleInv'
<1>1. MoneyInv'
  BY MoneyQuiet DEF SaleInv
<1> QED
  BY <1>1 DEF SaleInv, VestingIffSuccess, moneyVars

LEMMA StatusKeeps ==
    ASSUME SaleInv, Activate \/ Pause \/ Unpause
    PROVE  SaleInv'
<1>1. /\ status \in {"Draft", "Active", "Paused"}
      /\ status' \in {"Active", "Paused"}
      /\ UNCHANGED <<platformFeeCollected, escrow, issuerUsdc, configVars,
                     otcVars, raiseVars, walletVars, contributions, vaultVars>>
  BY DEF Activate, Pause, Unpause, SetStatus
<1>2. VaultInv' /\ VaultTypeOK'
  BY <1>1, VaultNextInv DEF SaleInv, VaultInv
<1>3. SaleTypeOK'
  BY <1>1, <1>2 DEF SaleInv, SaleTypeOK, configVars, otcVars, raiseVars,
                    walletVars, Statuses
<1>4. MoneyInv'
  <2>1. \A i \in Investors : Refundable(i)' = Refundable(i)
    BY <1>1 DEF Refundable
  <2>2. EscrowCoversRefunds'
    BY <1>1, <2>1 DEF SaleInv, MoneyInv, EscrowCoversRefunds
  <2>3. ProceedsSplit' /\ CapsDecide'
    BY <1>1, SaleAssumption
       DEF SaleInv, MoneyInv, ProceedsSplit, CapsDecide, DraftIsEmpty,
           raiseVars
  <2> QED
    BY <1>1, <2>2, <2>3
       DEF SaleInv, MoneyInv, RefundedOnlyFailed, OpenHoldsRaised,
           DraftIsEmpty, BooksAgree, Final, raiseVars
<1>5. VestingIffSuccess'
  BY <1>1 DEF SaleInv, VestingIffSuccess, vaultVars, configVars
<1> QED
  BY <1>2, <1>3, <1>4, <1>5 DEF SaleInv

LEMMA SetupKeeps ==
    ASSUME SaleInv,
           \/ SetVestedMode
           \/ \E c \in PhaseConfigs : AddPhase(c)
           \/ \E p \in 1..MaxPhases, S \in SUBSET Investors,
                 allow \in BOOLEAN : SetWhitelist(p, S, allow)
           \/ \E m \in BlockLimits : SetMaxPerBlock(m)
           \/ \E n \in Amounts : FundSale(n)
    PROVE  SaleInv'
<1>1. /\ UNCHANGED <<lifecycleVars, otcVars, totalRaised, totalContributed,
                     blockContributions, contributions, vaultVars,
                     investorUsdc>>
      /\ UNCHANGED moneyVars
  BY DEF SetVestedMode, AddPhase, SetWhitelist, SetMaxPerBlock, FundSale,
         lifecycleVars, raiseVars, walletVars, moneyVars
<1>2. VaultInv' /\ VaultTypeOK'
  BY <1>1, VaultNextInv DEF SaleInv, VaultInv
<1>3. MoneyInv'
  BY <1>1, MoneyQuiet DEF SaleInv
<1>4. SaleTypeOK'
  <2>1. phases' \in Seq([config : PhaseConfigs, sold : Nat])
    <3> DEFINE R == [config : PhaseConfigs, sold : Nat]
    <3>1. phases \in Seq(R)
      BY DEF SaleInv, SaleTypeOK
    <3>2. ASSUME NEW c \in PhaseConfigs, AddPhase(c)
          PROVE  phases' \in Seq(R)
      <4>1. [config |-> c, sold |-> 0] \in R
        OBVIOUS
      <4>2. phases' = Append(phases, [config |-> c, sold |-> 0])
        BY <3>2 DEF AddPhase
      <4> HIDE DEF R
      <4> QED BY <3>1, <4>1, <4>2, AppendProperties
    <3> QED
      BY <3>1, <3>2 DEF SetVestedMode, SetWhitelist, SetMaxPerBlock,
                        FundSale, raiseVars
  <2>2. whitelisted' \subseteq (1..MaxPhases) \X Investors
    <3>1. ASSUME NEW p \in 1..MaxPhases, NEW S \in SUBSET Investors,
                 NEW allow \in BOOLEAN, SetWhitelist(p, S, allow)
          PROVE  whitelisted' \subseteq (1..MaxPhases) \X Investors
      <4>1. whitelisted' \subseteq whitelisted \cup ({p} \X S)
        BY <3>1 DEF SetWhitelist
      <4>2. whitelisted \subseteq (1..MaxPhases) \X Investors
        BY DEF SaleInv, SaleTypeOK
      <4>3. {p} \X S \subseteq (1..MaxPhases) \X Investors
        BY <3>1
      <4> QED BY <4>1, <4>2, <4>3
    <3>2. \/ \E p \in 1..MaxPhases, S \in SUBSET Investors,
                allow \in BOOLEAN : SetWhitelist(p, S, allow)
          \/ whitelisted' = whitelisted
      BY DEF SetVestedMode, AddPhase, SetMaxPerBlock, FundSale, configVars
    <3>3. whitelisted \subseteq (1..MaxPhases) \X Investors
      BY DEF SaleInv, SaleTypeOK
    <3>4. CASE whitelisted' = whitelisted
      BY <3>3, <3>4
    <3> QED
      BY <3>1, <3>2, <3>4
  <2>3. saleMode' \in SaleModes /\ maxPerBlock' \in Nat
    BY SaleAssumption
       DEF SetVestedMode, AddPhase, SetWhitelist, SetMaxPerBlock, FundSale,
           configVars, SaleModes, SaleInv, SaleTypeOK
  <2>4. saleTokens' \in Nat
    <3>1. saleTokens \in Nat
      BY DEF SaleInv, SaleTypeOK
    <3>2. ASSUME NEW n \in Amounts, FundSale(n)
          PROVE  saleTokens' \in Nat
      BY <3>1, <3>2, VaultAssumption DEF FundSale
    <3> QED
      BY <3>1, <3>2 DEF SetVestedMode, AddPhase, SetWhitelist,
                        SetMaxPerBlock, walletVars
  <2> QED
    BY <1>1, <1>2, <2>1, <2>2, <2>3, <2>4
       DEF SaleInv, SaleTypeOK, lifecycleVars, otcVars
<1>5. VestingIffSuccess'
  BY <1>1 DEF SaleInv, VestingIffSuccess, SetVestedMode, AddPhase,
              SetWhitelist, SetMaxPerBlock, FundSale, configVars, vaultVars,
              lifecycleVars
<1> QED
  BY <1>2, <1>3, <1>4, <1>5 DEF SaleInv

LEMMA AllocationKeeps ==
    ASSUME SaleInv, NEW i \in Investors,
           \/ \E n \in Amounts : IssuerAllocate(i, n)
           \/ ClaimTokens(i)
    PROVE  SaleInv'
<1>1. /\ contributions \in [Investors -> Contribution]
      /\ otcAllocations \in [Investors -> Nat]
      /\ totalOtcAllocated \in Nat /\ saleTokens \in Nat
      /\ investorTokens \in [Investors -> Nat]
      /\ contributions[i].tokensAllocated \in Nat
  BY DEF SaleInv, SaleTypeOK, VaultTypeOK, Contribution
<1>2. CASE \E n \in Amounts : IssuerAllocate(i, n)
  <2>1. PICK n \in Amounts : IssuerAllocate(i, n)
    BY <1>2
  <2>2. n \in Nat
    BY VaultAssumption
  <2>3. /\ contributions' \in [Investors -> Contribution]
        /\ \A j \in Investors :
              /\ contributions'[j].amount = contributions[j].amount
              /\ contributions'[j].refunded = contributions[j].refunded
    BY <1>1, <2>1, <2>2 DEF IssuerAllocate, Contribution
  <2>4. /\ UNCHANGED <<lifecycleVars, configVars, raiseVars, walletVars,
                       vaultVars>>
        /\ UNCHANGED <<saleMode, finalized>>
        /\ UNCHANGED moneyVars
    BY <2>1 DEF IssuerAllocate, lifecycleVars, configVars, raiseVars,
                vaultVars, moneyVars
  <2>5. VaultInv' /\ VaultTypeOK'
    BY <2>4, VaultNextInv DEF SaleInv, VaultInv
  <2>6. /\ otcAllocations' \in [Investors -> Nat]
        /\ totalOtcAllocated' \in Nat
    BY <1>1, <2>1, <2>2 DEF IssuerAllocate
  <2>7. SaleTypeOK'
    BY <2>3, <2>4, <2>5, <2>6
       DEF SaleInv, SaleTypeOK, lifecycleVars, configVars, raiseVars,
           walletVars
  <2> QED
    BY <2>3, <2>4, <2>5, <2>7, QuietKeeps
<1>3. CASE ClaimTokens(i)
  <2>1. /\ contributions' \in [Investors -> Contribution]
        /\ \A j \in Investors :
              /\ contributions'[j].amount = contributions[j].amount
              /\ contributions'[j].refunded = contributions[j].refunded
    <3> DEFINE r == [contributions[i] EXCEPT !.claimed = TRUE]
    <3>1. contributions' = [contributions EXCEPT ![i] = r]
      BY <1>3 DEF ClaimTokens
    <3>2. /\ r \in Contribution
          /\ r.amount = contributions[i].amount
          /\ r.refunded = contributions[i].refunded
      BY <1>1 DEF Contribution
    <3> HIDE DEF r
    <3> QED BY <1>1, <3>1, <3>2
  <2>2. /\ UNCHANGED <<lifecycleVars, configVars, otcVars, raiseVars,
                       investorUsdc>>
        /\ UNCHANGED <<saleMode, finalized>>
        /\ UNCHANGED moneyVars
    BY <1>3 DEF ClaimTokens, lifecycleVars, configVars, raiseVars,
                vestingVars, moneyVars
  <2>3. investorTokens' \in [Investors -> Nat] /\ saleTokens' \in Nat
    BY <1>1, <1>3 DEF ClaimTokens
  <2>4. VaultInv' /\ VaultTypeOK'
    BY <1>3, <2>3, VaultFrame DEF ClaimTokens, SaleInv, VaultInv
  <2>5. SaleTypeOK'
    BY <2>1, <2>2, <2>3, <2>4
       DEF SaleInv, SaleTypeOK, lifecycleVars, configVars, otcVars, raiseVars
  <2> QED
    BY <2>1, <2>2, <2>4, <2>5, QuietKeeps
<1> QED
  BY <1>2, <1>3

(* The vault's own transactions, identity changes and the clock.           *)
LEMMA OutsideKeeps ==
    ASSUME SaleInv,
           VaultStep \/ NextBlock \/ \E i \in Investors : Identity(i)
    PROVE  SaleInv'
<1>1. VaultInv' /\ VaultTypeOK'
  BY VaultPublicStep, VaultEnvStep
     DEF VaultStep, NextBlock, Identity, SaleInv, VaultInv
<1>2. /\ UNCHANGED <<lifecycleVars, configVars, otcVars, phases, totalRaised,
                     totalContributed, walletVars, contributions>>
      /\ blockContributions' \in {0, blockContributions}
  BY DEF VaultStep, NextBlock, Identity, saleVars, raiseVars
<1>3. SaleTypeOK'
  BY <1>1, <1>2 DEF SaleInv, SaleTypeOK, lifecycleVars, configVars, otcVars,
                    walletVars
<1>4. UNCHANGED finalized
  BY DEF VaultStep, NextBlock, Identity, VaultPublicNext, SetExcessPolicy,
         WithdrawExcess, Claim, TransferFraction, BurnOwnFractions, FundVault,
         SetVerified, VaultTick, vestingVars
<1>5. UNCHANGED moneyVars /\ UNCHANGED saleMode
  BY <1>2 DEF lifecycleVars, configVars, moneyVars
<1> QED
  BY <1>1, <1>2, <1>3, <1>4, <1>5, QuietKeeps

-----------------------------------------------------------------------------
(* The invariant, and what follows from it.                                *)

LEMMA SaleInitInv == SaleInit => SaleInv
<1> SUFFICES ASSUME SaleInit PROVE SaleInv
  OBVIOUS
<1>1. VaultInv /\ VaultTypeOK
  BY VaultInitInv DEF SaleInit, VaultInv
<1>2. SaleTypeOK
  <2>1. phases \in Seq([config : PhaseConfigs, sold : Nat])
    BY DEF SaleInit
  <2> QED
    BY <1>1, <2>1, SaleAssumption
       DEF SaleInit, SaleTypeOK, Statuses, SaleModes, Contribution
<1>3. EscrowCoversRefunds
  <2> DEFINE f == [i \in Investors |-> Refundable(i)]
  <2>1. f \in [Investors -> Nat] /\ \A i \in Investors : f[i] = 0
    BY DEF SaleInit, Refundable
  <2>2. Sum(f) = 0
    <3> HIDE DEF f
    <3> QED BY <2>1, SumZero
  <2> QED
    BY <2>2 DEF SaleInit, EscrowCoversRefunds
<1>4. MoneyInv
  BY <1>3, SaleAssumption
     DEF SaleInit, MoneyInv, ProceedsSplit, CapsDecide, RefundedOnlyFailed,
         OpenHoldsRaised, DraftIsEmpty, BooksAgree
<1>5. VestingIffSuccess
  BY DEF SaleInit, VaultInit, VestingIffSuccess
<1> QED
  BY <1>1, <1>2, <1>4, <1>5 DEF SaleInv

LEMMA SaleNextInv == SaleInv /\ [SaleNext]_vars => SaleInv'
<1> SUFFICES ASSUME SaleInv, [SaleNext]_vars PROVE SaleInv'
  OBVIOUS
<1>1. CASE Activate \/ Pause \/ Unpause
  BY <1>1, StatusKeeps
<1>2. CASE FinalizeSale
  BY <1>2, FinalizeSaleKeeps
<1>3. CASE \/ SetVestedMode
           \/ \E c \in PhaseConfigs : AddPhase(c)
           \/ \E p \in 1..MaxPhases, S \in SUBSET Investors,
                 allow \in BOOLEAN : SetWhitelist(p, S, allow)
           \/ \E m \in BlockLimits : SetMaxPerBlock(m)
           \/ \E n \in Amounts : FundSale(n)
  BY <1>3, SetupKeeps
<1>4. CASE \E i \in Investors, n \in Amounts : IssuerAllocate(i, n)
  BY <1>4, AllocationKeeps
<1>5. CASE \E i \in Investors, p \in 1..MaxPhases, amount \in Payments :
               Contribute(i, p, amount)
  BY <1>5, ContributeKeeps
<1>6. CASE \E i \in Investors : ClaimTokens(i)
  BY <1>6, AllocationKeeps
<1>7. CASE \E i \in Investors : ClaimRefund(i)
  BY <1>7, RefundKeeps
<1>8. CASE VaultStep \/ NextBlock \/ \E i \in Investors : Identity(i)
  BY <1>8, OutsideKeeps
<1>9. CASE UNCHANGED vars
  <2>1. UNCHANGED <<saleVars, vaultVars>>
    BY <1>9 DEF vars
  <2>2. VaultInv' /\ VaultTypeOK'
    BY <2>1, VaultNextInv DEF SaleInv, VaultInv
  <2>3. SaleTypeOK'
    BY <2>1, <2>2 DEF SaleInv, SaleTypeOK, saleVars, lifecycleVars,
                      configVars, otcVars, raiseVars, walletVars
  <2>4. UNCHANGED moneyVars /\ UNCHANGED <<saleMode, finalized, contributions>>
    BY <2>1 DEF saleVars, vaultVars, lifecycleVars, configVars, raiseVars,
                moneyVars
  <2> QED
    BY <2>2, <2>3, <2>4, QuietKeeps
<1> QED
  BY <1>1, <1>2, <1>3, <1>4, <1>5, <1>6, <1>7, <1>8, <1>9
     DEF SaleNext, AdminNext, InvestorNext

LEMMA SaleInvariant == SaleSpec => []SaleInv
  BY SaleInitInv, SaleNextInv, PTL DEF SaleSpec

(* Sale.sol's amounts keep their types: no checked subtraction of a        *)
(* successful transaction goes below zero, for any caps, prices, phases,   *)
(* block limits and number of investors.                                   *)
THEOREM SaleTypeCorrect == SaleSpec => []SaleTypeOK
<1>1. SaleInv => SaleTypeOK
  BY DEF SaleInv
<1> QED
  BY <1>1, SaleInvariant, PTL

(* The contract always holds exactly the USDC it may have to refund.       *)
THEOREM SaleEscrowSound == SaleSpec => []EscrowCoversRefunds
<1>1. SaleInv => EscrowCoversRefunds
  BY DEF SaleInv, MoneyInv
<1> QED
  BY <1>1, SaleInvariant, PTL

(* _finalize pays out the total raised exactly once, within the fee cap.   *)
THEOREM SaleProceedsSound == SaleSpec => []ProceedsSplit
<1>1. SaleInv => ProceedsSplit
  BY DEF SaleInv, MoneyInv
<1> QED
  BY <1>1, SaleInvariant, PTL

(* The soft and the hard cap decide the outcome whichever of contribute()  *)
(* and finalizeSale() ends the sale.                                       *)
THEOREM SaleCapsDecide == SaleSpec => []CapsDecide
<1>1. SaleInv => CapsDecide
  BY DEF SaleInv, MoneyInv
<1> QED
  BY <1>1, SaleInvariant, PTL

(* startVesting() has run exactly when a vested sale has succeeded.        *)
THEOREM SaleVestingStarts == SaleSpec => []VestingIffSuccess
<1>1. SaleInv => VestingIffSuccess
  BY DEF SaleInv
<1> QED
  BY <1>1, SaleInvariant, PTL

(* claimRefund() never fails for lack of USDC: whoever may still be        *)
(* refunded is owed no more than the contract holds.                       *)
THEOREM RefundAffordable ==
    SaleSpec => [](\A i \in Investors :
                       MayRefund(i) => contributions[i].amount <= escrow)
<1>1. ASSUME SaleInv, NEW i \in Investors, MayRefund(i)
      PROVE  contributions[i].amount <= escrow
  <2> DEFINE f == [j \in Investors |-> Refundable(j)]
  <2>1. /\ f \in [Investors -> Nat]
        /\ f[i] = contributions[i].amount
    BY <1>1 DEF SaleInv, SaleTypeOK, Contribution, Refundable, MayRefund
  <2>2. escrow = Sum(f)
    BY <1>1 DEF SaleInv, MoneyInv, EscrowCoversRefunds, MayRefund
  <2>3. f[i] <= Sum(f)
    <3> HIDE DEF f
    <3> QED BY <2>1, SumBound, VaultAssumption
  <2> QED
    BY <2>1, <2>2, <2>3
<1>2. SaleInv => \A i \in Investors :
                     MayRefund(i) => contributions[i].amount <= escrow
  BY <1>1
<1> QED
  BY <1>2, SaleInvariant, PTL

(* What a step may do to a settled sale: a refund and nothing else.        *)
LEMMA FinalStep ==
    ASSUME SaleInv, [SaleNext]_vars, Final
    PROVE  /\ UNCHANGED <<status, totalRaised, platformFeeCollected>>
           /\ \A i \in Investors : UNCHANGED Settlement(i)
<1> USE DEF Final
<1>1. contributions \in [Investors -> Contribution]
  BY DEF SaleInv, SaleTypeOK
<1>2. CASE AdminNext
  BY <1>2 DEF AdminNext, Activate, Pause, Unpause, SetVestedMode,
              FinalizeSale, AddPhase, SetWhitelist, SetMaxPerBlock,
              IssuerAllocate, FundSale, lifecycleVars, raiseVars, Settlement
<1>3. ASSUME NEW i \in Investors, NEW p \in 1..MaxPhases,
             NEW amount \in Payments, Contribute(i, p, amount)
      PROVE  FALSE
  BY <1>3 DEF Contribute, MayContribute
<1>4. ASSUME NEW i \in Investors, ClaimTokens(i) \/ ClaimRefund(i)
      PROVE  /\ UNCHANGED <<status, totalRaised, platformFeeCollected>>
             /\ \A j \in Investors : UNCHANGED Settlement(j)
  <2>1. UNCHANGED <<status, totalRaised, platformFeeCollected>>
    BY <1>4 DEF ClaimTokens, ClaimRefund, lifecycleVars, raiseVars
  <2>2. \A j \in Investors :
           /\ contributions'[j].amount = contributions[j].amount
           /\ contributions'[j].tokensAllocated
                  = contributions[j].tokensAllocated
    BY <1>1, <1>4 DEF ClaimTokens, ClaimRefund, Contribution
  <2> QED
    BY <2>1, <2>2 DEF Settlement
<1>5. CASE VaultStep \/ NextBlock \/ UNCHANGED vars
           \/ \E i \in Investors : Identity(i)
  BY <1>5 DEF VaultStep, NextBlock, Identity, vars, saleVars, lifecycleVars,
              raiseVars, Settlement
<1> QED
  BY <1>2, <1>3, <1>4, <1>5 DEF SaleNext, InvestorNext

(* Finalization is irreversible.                                           *)
THEOREM SaleFinalIsFinal == SaleSpec => FinalIsFinal
<1> DEFINE Frozen == Final =>
               /\ UNCHANGED <<status, totalRaised, platformFeeCollected>>
               /\ \A i \in Investors : UNCHANGED Settlement(i)
<1>1. SaleInv /\ [SaleNext]_vars => [Frozen]_vars
  BY FinalStep
<1> QED
  BY <1>1, SaleInvariant, PTL DEF SaleSpec, FinalIsFinal

-----------------------------------------------------------------------------
(* Refinement.                                                             *)

(* A step that changes nothing a backer sees.                              *)
LEMMA CrowdfundStutters ==
    ASSUME UNCHANGED <<totalRaised, totalContributed, escrow>>,
           Outcome' = Outcome,
           \A i \in Investors :
               contributions'[i].refunded = contributions[i].refunded
    PROVE  UNCHANGED CF!cfVars
  BY DEF CF!cfVars

LEMMA ContributePledges ==
    ASSUME SaleInv, NEW i \in Investors, NEW p \in 1..MaxPhases,
           NEW amount \in Payments, Contribute(i, p, amount)
    PROVE  CF!Pledge(i, amount)
<1> DEFINE total == totalRaised + amount
<1>1. /\ status = "Active"
      /\ total <= hardCap
      /\ totalRaised' = total
      /\ totalContributed' = [totalContributed EXCEPT ![i] = @ + amount]
      /\ \/ total >= hardCap /\ Finalize(total, escrow + amount)
         \/ /\ total < hardCap
            /\ escrow' = escrow + amount
            /\ status' = status
  BY DEF Contribute, MayContribute
<1>2. total \in Nat /\ softCap \in Nat /\ hardCap \in Nat
  BY SaleAssumption DEF SaleInv, SaleTypeOK
<1> HIDE DEF total
<1>3. Outcome = "open"
  BY <1>1 DEF Outcome
<1>4. /\ Outcome' = IF total >= hardCap THEN CF!Result(total) ELSE "open"
      /\ escrow' = IF Outcome' = "funded" THEN 0 ELSE escrow + amount
  <2>1. CASE total >= hardCap /\ Finalize(total, escrow + amount)
    BY <1>2, <2>1 DEF Finalize, FinalizeSuccess, FinalizeFailed, Outcome,
                      CF!Result
  <2>2. CASE /\ total < hardCap
             /\ escrow' = escrow + amount
             /\ status' = status
    BY <1>1, <1>2, <2>2 DEF Outcome
  <2> QED
    BY <1>1, <2>1, <2>2
<1>5. \A j \in Investors :
         contributions'[j].refunded = contributions[j].refunded
  <2>1. contributions \in [Investors -> Contribution]
    BY DEF SaleInv, SaleTypeOK
  <2> QED
    BY <2>1 DEF Contribute, BookContribution, Contribution
<1> QED
  BY <1>1, <1>3, <1>4, <1>5 DEF CF!Pledge, total

LEMMA RefundRefunds ==
    ASSUME SaleInv, NEW i \in Investors, ClaimRefund(i)
    PROVE  CF!Refund(i)
<1>1. contributions \in [Investors -> Contribution]
  BY DEF SaleInv, SaleTypeOK
<1>2. contributions[i].amount = totalContributed[i]
  BY DEF SaleInv, MoneyInv, BooksAgree
<1>3. /\ status = "FinalizedFailed"
      /\ contributions[i].amount > 0
      /\ ~contributions[i].refunded
      /\ contributions' = [contributions EXCEPT ![i].refunded = TRUE]
      /\ escrow' = escrow - contributions[i].amount
      /\ UNCHANGED <<status, totalRaised, totalContributed>>
  BY DEF ClaimRefund, MayRefund, raiseVars
<1>4. [j \in Investors |-> contributions'[j].refunded]
          = [[j \in Investors |-> contributions[j].refunded]
                 EXCEPT ![i] = TRUE]
  BY <1>1, <1>3 DEF Contribution
<1>5. Outcome = "failed" /\ Outcome' = Outcome
  BY <1>3 DEF Outcome
<1> QED
  BY <1>2, <1>3, <1>4, <1>5 DEF CF!Refund

LEMMA FinalizeSettles ==
    ASSUME SaleInv, FinalizeSale
    PROVE  CF!Settle
<1>1. totalRaised \in Nat /\ softCap \in Nat
  BY SaleAssumption DEF SaleInv, SaleTypeOK
<1>2. /\ status \in {"Active", "Paused"}
      /\ Finalize(totalRaised, escrow)
      /\ UNCHANGED <<totalRaised, totalContributed, contributions>>
  BY DEF FinalizeSale, raiseVars
<1>3. /\ Outcome = "open"
      /\ Outcome' = CF!Result(totalRaised)
      /\ escrow' = IF Outcome' = "funded" THEN 0 ELSE escrow
  BY <1>1, <1>2 DEF Finalize, FinalizeSuccess, FinalizeFailed, Outcome,
                    CF!Result
<1> QED
  BY <1>2, <1>3 DEF CF!Settle

LEMMA SaleStepIsCrowdfundStep ==
    ASSUME SaleInv, [SaleNext]_vars
    PROVE  [CF!CFNext]_(CF!cfVars)
<1>1. contributions \in [Investors -> Contribution]
  BY DEF SaleInv, SaleTypeOK
<1>2. CASE Activate \/ Pause \/ Unpause
  BY <1>2, CrowdfundStutters DEF Activate, Pause, Unpause, SetStatus,
                                 Outcome, raiseVars
<1>3. CASE FinalizeSale
  BY <1>3, FinalizeSettles DEF CF!CFNext
<1>4. CASE \/ SetVestedMode
           \/ \E c \in PhaseConfigs : AddPhase(c)
           \/ \E p \in 1..MaxPhases, S \in SUBSET Investors,
                 allow \in BOOLEAN : SetWhitelist(p, S, allow)
           \/ \E m \in BlockLimits : SetMaxPerBlock(m)
           \/ \E n \in Amounts : FundSale(n)
           \/ VaultStep \/ NextBlock \/ UNCHANGED vars
           \/ \E i \in Investors : Identity(i)
  <2>1. UNCHANGED <<status, escrow, totalRaised, totalContributed,
                    contributions>>
    BY <1>4 DEF SetVestedMode, AddPhase, SetWhitelist, SetMaxPerBlock,
                FundSale, VaultStep, NextBlock, Identity, vars, saleVars,
                lifecycleVars, raiseVars
  <2> QED
    BY <2>1, CrowdfundStutters DEF Outcome
<1>5. ASSUME NEW i \in Investors,
             ClaimTokens(i) \/ \E n \in Amounts : IssuerAllocate(i, n)
      PROVE  UNCHANGED CF!cfVars
  <2>1. UNCHANGED <<status, escrow, totalRaised, totalContributed>>
    BY <1>5 DEF ClaimTokens, IssuerAllocate, lifecycleVars, raiseVars
  <2>2. \A j \in Investors :
           contributions'[j].refunded = contributions[j].refunded
    BY <1>1, <1>5 DEF ClaimTokens, IssuerAllocate, Contribution
  <2> QED
    BY <2>1, <2>2, CrowdfundStutters DEF Outcome
<1>6. ASSUME NEW i \in Investors, NEW p \in 1..MaxPhases,
             NEW amount \in Payments, Contribute(i, p, amount)
      PROVE  CF!CFNext
  BY <1>6, ContributePledges DEF CF!CFNext
<1>7. ASSUME NEW i \in Investors, ClaimRefund(i)
      PROVE  CF!CFNext
  BY <1>7, RefundRefunds DEF CF!CFNext
<1> QED
  BY <1>2, <1>3, <1>4, <1>5, <1>6, <1>7 DEF SaleNext, AdminNext, InvestorNext

(* Sale.sol keeps the promise of a crowdfund, for every choice of caps,    *)
(* fees, phases, modes and vesting terms.                                  *)
THEOREM SaleImplementsCrowdfund == SaleSpec => ImplementsCrowdfund
<1>1. SaleInit => CF!CFInit
  BY DEF SaleInit, CF!CFInit, Outcome
<1>2. SaleInv /\ [SaleNext]_vars => [CF!CFNext]_(CF!cfVars)
  BY SaleStepIsCrowdfundStep
<1> QED
  BY <1>1, <1>2, SaleInvariant, PTL DEF SaleSpec, ImplementsCrowdfund, CF!CFSpec

-----------------------------------------------------------------------------
(* Project tokens and fractions.                                           *)

(* NeverOverpaid and VaultMirrorsSale are inductive only together with     *)
(* what each mode pays through: a draft has paid nobody and allocated only *)
(* over the counter, a direct sale knows no fractions and has not paid who *)
(* may still claim, and a vested one has paid what the vault has released. *)
PaidAsBooked ==
    \A i \in Investors :
        /\ status = "Draft" =>
               /\ investorTokens[i] = 0
               /\ contributions[i].tokensAllocated = otcAllocations[i]
        /\ saleMode = "Direct" =>
               /\ investorVesting[i].totalFractions = 0
               /\ investorVesting[i].claimedAmount = 0
               /\ ~contributions[i].claimed => investorTokens[i] = 0
        /\ saleMode = "Vested" =>
               investorTokens[i] = investorVesting[i].claimedAmount

TokenInv == PaidAsBooked /\ NeverOverpaid /\ VaultMirrorsSale

(* The types of what the tokens of one investor depend on.                 *)
LEMMA TokenTypes ==
    ASSUME SaleInv, NEW i \in Investors
    PROVE  /\ investorTokens[i] \in Nat
           /\ contributions[i] \in Contribution
           /\ contributions[i].tokensAllocated \in Nat
           /\ contributions[i].claimed \in BOOLEAN
           /\ otcAllocations[i] \in Nat
           /\ investorVesting[i].totalFractions \in Nat
           /\ investorVesting[i].claimedAmount \in Nat
           /\ saleMode \in SaleModes
  BY DEF SaleInv, SaleTypeOK, VaultTypeOK, Contribution, Vesting

(* A step that neither pays nor allocates, whatever else it does.          *)
LEMMA TokenQuiet ==
    ASSUME TokenInv, status' = "Draft" => status = "Draft",
           UNCHANGED <<saleMode, investorTokens, otcAllocations>>,
           \A i \in Investors :
               /\ contributions'[i].tokensAllocated
                      = contributions[i].tokensAllocated
               /\ contributions'[i].claimed = contributions[i].claimed
               /\ investorVesting'[i].totalFractions
                      = investorVesting[i].totalFractions
               /\ investorVesting'[i].claimedAmount
                      = investorVesting[i].claimedAmount
    PROVE  TokenInv'
  BY DEF TokenInv, PaidAsBooked, NeverOverpaid, VaultMirrorsSale

(* The number of tokens a contribution buys is a natural number.           *)
LEMMA TokensBought ==
    ASSUME SaleInv, NEW i, NEW p, NEW amount \in Payments,
           MayContribute(i, p, amount)
    PROVE  TokensFor(phases[p].config, amount) \in Nat
<1> DEFINE PhaseRec == [config : PhaseConfigs, sold : Nat]
<1>1. p \in 1..Len(phases) /\ phases[p].config.pricePerToken > 0
  BY DEF MayContribute
<1>2. phases \in Seq(PhaseRec) /\ amount \in Nat
  BY SaleAssumption DEF SaleInv, SaleTypeOK
<1>3. phases[p] \in PhaseRec
  <2> HIDE DEF PhaseRec
  <2> QED BY <1>1, <1>2, ElementOfSeq
<1> QED
  BY <1>1, <1>2, <1>3, TokensForType

LEMMA TokenContribute ==
    ASSUME SaleInv, TokenInv, NEW i \in Investors, NEW p \in 1..MaxPhases,
           NEW amount \in Payments, Contribute(i, p, amount)
    PROVE  TokenInv'
<1> DEFINE tokens == TokensFor(phases[p].config, amount)
<1>1. /\ status = "Active" /\ p \in 1..Len(phases)
      /\ phases[p].config.pricePerToken > 0
      /\ BookContribution(i, amount, tokens)
      /\ DeliverDirect(i, tokens) \/ DeliverVested(i, tokens)
      /\ UNCHANGED <<saleMode, otcAllocations>>
  BY DEF Contribute, MayContribute, configVars, otcVars
<1>2. status' # "Draft"
  BY <1>1 DEF Contribute, Finalize, FinalizeSuccess, FinalizeFailed
<1>3. tokens \in Nat
  BY TokensBought DEF Contribute
<1>4. /\ contributions \in [Investors -> Contribution]
      /\ investorTokens \in [Investors -> Nat]
      /\ investorVesting \in [Investors -> Vesting]
  BY DEF SaleInv, SaleTypeOK, VaultTypeOK
<1> HIDE DEF tokens
<1>5. \A j \in Investors :
         contributions'[j].tokensAllocated
             = contributions[j].tokensAllocated + (IF j = i THEN tokens ELSE 0)
  BY <1>1, <1>3, <1>4, SaleAssumption, BookingFacts
<1>6. \A j \in Investors :
         ~contributions'[j].claimed =>
             ~contributions[j].claimed /\ ~(j = i /\ saleMode = "Direct")
  BY <1>1, <1>4 DEF BookContribution, Contribution
<1>7. CASE DeliverDirect(i, tokens)
  <2>1. /\ saleMode = "Direct" /\ UNCHANGED investorVesting
        /\ \A j \in Investors : investorTokens'[j]
               = investorTokens[j] + (IF j = i THEN tokens ELSE 0)
    BY <1>3, <1>4, <1>7 DEF DeliverDirect
  <2>2. \A j \in Investors :
           /\ investorTokens[j] \in Nat
           /\ contributions[j].tokensAllocated \in Nat
           /\ contributions[j].claimed \in BOOLEAN
    BY TokenTypes
  <2>3. NeverOverpaid'
    BY <1>3, <1>5, <2>1, <2>2 DEF TokenInv, NeverOverpaid
  <2>4. PaidAsBooked'
    BY <1>1, <1>2, <1>6, <2>1, <2>2 DEF TokenInv, PaidAsBooked
  <2> QED
    BY <1>1, <2>1, <2>3, <2>4 DEF TokenInv, VaultMirrorsSale
<1>8. CASE DeliverVested(i, tokens)
  <2>1. /\ saleMode = "Vested" /\ UNCHANGED investorTokens
        /\ RecordAllocation(i, tokens)
    BY <1>8 DEF DeliverVested
  <2>2. \A j \in Investors :
            /\ investorVesting'[j].claimedAmount
                   = investorVesting[j].claimedAmount
            /\ investorVesting'[j].totalFractions
                   = investorVesting[j].totalFractions
                         + (IF j = i THEN tokens ELSE 0)
    BY <1>3, <1>4, <2>1, RecordRaises
  <2>3. \A j \in Investors :
           /\ investorTokens[j] \in Nat
           /\ contributions[j].tokensAllocated \in Nat
           /\ investorVesting[j].totalFractions \in Nat
           /\ otcAllocations[j] \in Nat
    BY TokenTypes
  <2>4. NeverOverpaid'
    BY <1>3, <1>5, <2>1, <2>3 DEF TokenInv, NeverOverpaid
  <2>5. VaultMirrorsSale'
    BY <1>1, <1>3, <1>5, <2>1, <2>2, <2>3 DEF TokenInv, VaultMirrorsSale
  <2>6. PaidAsBooked'
    BY <1>1, <1>2, <2>1, <2>2 DEF TokenInv, PaidAsBooked
  <2> QED
    BY <2>4, <2>5, <2>6 DEF TokenInv
<1> QED
  BY <1>1, <1>7, <1>8

LEMMA TokenOtc ==
    ASSUME SaleInv, TokenInv, NEW i \in Investors, NEW n \in Amounts,
           IssuerAllocate(i, n)
    PROVE  TokenInv'
<1>1. n \in Nat
  BY VaultAssumption
<1>2. /\ UNCHANGED <<status, saleMode, investorTokens, investorVesting>>
      /\ otcAllocations' = [otcAllocations EXCEPT ![i] = @ + n]
      /\ contributions' = [contributions EXCEPT ![i].tokensAllocated = @ + n]
  BY DEF IssuerAllocate, lifecycleVars, configVars, vaultVars
<1>3. /\ contributions \in [Investors -> Contribution]
      /\ otcAllocations \in [Investors -> Nat]
  BY DEF SaleInv, SaleTypeOK
<1>4. \A j \in Investors :
         /\ contributions'[j].tokensAllocated
                = contributions[j].tokensAllocated + (IF j = i THEN n ELSE 0)
         /\ contributions'[j].claimed = contributions[j].claimed
         /\ otcAllocations'[j] = otcAllocations[j] + (IF j = i THEN n ELSE 0)
  BY <1>1, <1>2, <1>3 DEF Contribution
<1>5. \A j \in Investors :
         /\ investorTokens[j] \in Nat
         /\ contributions[j].tokensAllocated \in Nat
         /\ investorVesting[j].totalFractions \in Nat
         /\ otcAllocations[j] \in Nat
  BY TokenTypes
<1>6. NeverOverpaid'
  BY <1>1, <1>2, <1>4, <1>5 DEF TokenInv, NeverOverpaid
<1>7. VaultMirrorsSale'
  BY <1>1, <1>2, <1>4, <1>5 DEF TokenInv, VaultMirrorsSale
<1>8. PaidAsBooked'
  BY <1>1, <1>2, <1>4, <1>5 DEF TokenInv, PaidAsBooked
<1> QED
  BY <1>6, <1>7, <1>8 DEF TokenInv

LEMMA TokenClaim ==
    ASSUME SaleInv, TokenInv, NEW i \in Investors, ClaimTokens(i)
    PROVE  TokenInv'
<1>1. /\ status = "FinalizedSuccess" /\ saleMode = "Direct"
      /\ ~contributions[i].claimed
      /\ UNCHANGED <<status, saleMode, otcAllocations, investorVesting>>
      /\ contributions' = [contributions EXCEPT ![i].claimed = TRUE]
      /\ investorTokens' = [investorTokens EXCEPT
             ![i] = @ + contributions[i].tokensAllocated]
  BY DEF ClaimTokens, lifecycleVars, configVars, otcVars
<1>2. /\ contributions \in [Investors -> Contribution]
      /\ investorTokens \in [Investors -> Nat]
  BY DEF SaleInv, SaleTypeOK, VaultTypeOK
<1>3. \A j \in Investors :
         /\ contributions'[j].tokensAllocated = contributions[j].tokensAllocated
         /\ j # i => /\ contributions'[j].claimed = contributions[j].claimed
                     /\ investorTokens'[j] = investorTokens[j]
  BY <1>1, <1>2 DEF Contribution
<1>4. /\ contributions'[i].claimed
      /\ investorTokens'[i] = investorTokens[i] + contributions[i].tokensAllocated
      /\ investorTokens[i] = 0
      /\ contributions[i].tokensAllocated \in Nat
  BY <1>1, <1>2, TokenTypes DEF Contribution, TokenInv, PaidAsBooked
<1>5. NeverOverpaid'
  BY <1>3, <1>4 DEF TokenInv, NeverOverpaid
<1> QED
  BY <1>1, <1>3, <1>4, <1>5 DEF TokenInv, PaidAsBooked, VaultMirrorsSale

(* A claim of the vault: only a vested sale has started its clock.         *)
LEMMA TokenVaultClaim ==
    ASSUME SaleInv, TokenInv, NEW i \in Investors, Claim(i), UNCHANGED saleVars
    PROVE  TokenInv'
<1> DEFINE n == GetClaimable(i)
<1>1. saleMode = "Vested" /\ status = "FinalizedSuccess"
  BY DEF Claim, SaleInv, VestingIffSuccess
<1>2. UNCHANGED <<status, saleMode, otcAllocations, contributions>>
  BY DEF saleVars, lifecycleVars, configVars, otcVars
<1>3. /\ investorTokens \in [Investors -> Nat]
      /\ investorVesting \in [Investors -> Vesting]
  BY DEF SaleInv, SaleTypeOK, VaultTypeOK
<1>4. /\ n \in Nat /\ Vested(i) \in Nat
      /\ Vested(i) <= investorVesting[i].totalFractions
      /\ investorVesting[i].claimedAmount + n <= Vested(i)
  BY ClaimableBounds DEF SaleInv
<1>5. /\ investorVesting' =
             [investorVesting EXCEPT ![i].claimedAmount = @ + n]
      /\ investorTokens' = [investorTokens EXCEPT ![i] = @ + n]
  BY DEF Claim
<1> HIDE DEF n
<1>6. \A j \in Investors :
         /\ investorVesting'[j].totalFractions = investorVesting[j].totalFractions
         /\ investorVesting'[j].claimedAmount
                = investorVesting[j].claimedAmount + (IF j = i THEN n ELSE 0)
         /\ investorTokens'[j] = investorTokens[j] + (IF j = i THEN n ELSE 0)
  BY <1>3, <1>4, <1>5 DEF Vesting
<1>7. VaultMirrorsSale'
  BY <1>2, <1>6 DEF TokenInv, VaultMirrorsSale
<1>8. PaidAsBooked'
  BY <1>1, <1>2, <1>6 DEF TokenInv, PaidAsBooked
<1>9. NeverOverpaid'
  <2> SUFFICES ASSUME NEW j \in Investors
               PROVE  investorTokens'[j] <= contributions'[j].tokensAllocated
    BY DEF NeverOverpaid
  <2>1. CASE j # i
    BY <1>2, <1>6, <2>1, TokenTypes DEF TokenInv, NeverOverpaid
  <2>2. CASE j = i
    <3>1. /\ investorTokens[i] = investorVesting[i].claimedAmount
          /\ investorVesting[i].totalFractions + otcAllocations[i]
                 = contributions[i].tokensAllocated
      BY <1>1 DEF TokenInv, PaidAsBooked, VaultMirrorsSale
    <3> QED
      BY <1>2, <1>4, <1>6, <2>2, <3>1, TokenTypes
  <2> QED
    BY <2>1, <2>2
<1> QED
  BY <1>7, <1>8, <1>9 DEF TokenInv

LEMMA TokenVaultStep ==
    ASSUME SaleInv, TokenInv, VaultStep
    PROVE  TokenInv'
<1>1. VaultPublicNext /\ UNCHANGED saleVars
  BY DEF VaultStep
<1>2. CASE \E i \in Investors : Claim(i)
  BY <1>1, <1>2, TokenVaultClaim
<1>3. CASE ~\E i \in Investors : Claim(i)
  <2>1. UNCHANGED <<investorTokens, investorVesting>>
    BY <1>1, <1>3 DEF VaultPublicNext, SetExcessPolicy, WithdrawExcess,
                      TransferFraction, BurnOwnFractions, FundVault, tokenVars
  <2>2. UNCHANGED <<status, saleMode, otcAllocations, contributions>>
    BY <1>1 DEF saleVars, lifecycleVars, configVars, otcVars
  <2> QED
    BY <2>1, <2>2, TokenQuiet
<1> QED
  BY <1>2, <1>3

LEMMA TokenAdmin ==
    ASSUME SaleInv, TokenInv, AdminNext,
           ~\E i \in Investors, n \in Amounts : IssuerAllocate(i, n)
    PROVE  TokenInv'
<1>1. CASE SetVestedMode
  <2>1. /\ status = "Draft" /\ saleMode' = "Vested"
        /\ UNCHANGED <<status, investorTokens, investorVesting, otcAllocations,
                       contributions>>
    BY <1>1 DEF SetVestedMode, lifecycleVars, otcVars, vaultVars
  <2>2. \A i \in Investors :
           /\ investorTokens[i] = investorVesting[i].claimedAmount
           /\ investorVesting[i].totalFractions + otcAllocations[i]
                  = contributions[i].tokensAllocated
    <3>1. CASE saleMode = "Direct"
      BY <2>1, <3>1, TokenTypes DEF TokenInv, PaidAsBooked
    <3>2. CASE saleMode = "Vested"
      BY <2>1, <3>2 DEF TokenInv, PaidAsBooked, VaultMirrorsSale
    <3> QED
      BY <3>1, <3>2 DEF SaleInv, SaleTypeOK, SaleModes
  <2> QED
    BY <2>1, <2>2 DEF TokenInv, PaidAsBooked, NeverOverpaid, VaultMirrorsSale
<1>2. CASE ~SetVestedMode
  <2>1. UNCHANGED <<saleMode, investorTokens, investorVesting, otcAllocations,
                    contributions>>
    BY <1>2 DEF AdminNext, Activate, Pause, Unpause, SetStatus, FinalizeSale,
                AddPhase, SetWhitelist, SetMaxPerBlock, FundSale, configVars,
                otcVars, vaultVars, tokenVars
  <2>2. status' = "Draft" => status = "Draft"
    BY <1>2 DEF AdminNext, Activate, Pause, Unpause, SetStatus, FinalizeSale,
                Finalize, FinalizeSuccess, FinalizeFailed, AddPhase,
                SetWhitelist, SetMaxPerBlock, FundSale, lifecycleVars
  <2> QED
    BY <2>1, <2>2, TokenQuiet
<1> QED
  BY <1>1, <1>2

LEMMA TokenNextInv == SaleInv /\ TokenInv /\ [SaleNext]_vars => TokenInv'
<1> SUFFICES ASSUME SaleInv, TokenInv, [SaleNext]_vars PROVE TokenInv'
  OBVIOUS
<1>1. CASE AdminNext
  BY <1>1, TokenAdmin, TokenOtc
<1>2. ASSUME NEW i \in Investors, ClaimRefund(i) PROVE TokenInv'
  <2>1. /\ UNCHANGED <<status, saleMode, investorTokens, investorVesting,
                       otcAllocations>>
        /\ contributions' = [contributions EXCEPT ![i].refunded = TRUE]
    BY <1>2 DEF ClaimRefund, configVars, otcVars, tokenVars
  <2>2. \A j \in Investors :
           /\ contributions'[j].tokensAllocated
                  = contributions[j].tokensAllocated
           /\ contributions'[j].claimed = contributions[j].claimed
    BY <2>1 DEF SaleInv, SaleTypeOK, Contribution
  <2> QED
    BY <2>1, <2>2, TokenQuiet
<1>3. CASE NextBlock \/ (\E i \in Investors : Identity(i)) \/ UNCHANGED vars
  <2>1. UNCHANGED <<status, saleMode, investorTokens, investorVesting,
                    otcAllocations, contributions>>
    BY <1>3 DEF NextBlock, VaultTick, Identity, SetVerified, vars, vaultVars,
                saleVars, lifecycleVars, configVars, otcVars, tokenVars
  <2> QED
    BY <2>1, TokenQuiet
<1> QED
  BY <1>1, <1>2, <1>3, TokenContribute, TokenClaim, TokenVaultStep
     DEF SaleNext, InvestorNext

LEMMA TokenInvariant == SaleSpec => [](SaleInv /\ TokenInv)
<1>1. SaleInit => TokenInv
  BY DEF SaleInit, VaultInit, TokenInv, PaidAsBooked, NeverOverpaid,
         VaultMirrorsSale
<1> QED
  BY <1>1, SaleInitInv, SaleNextInv, TokenNextInv, PTL DEF SaleSpec

(* Whatever mix of contribute(), claimTokens() and the vault's claim()     *)
(* pays an investor, it pays no more than the sale allocated.              *)
THEOREM SaleNeverOverpays == SaleSpec => []NeverOverpaid
<1>1. TokenInv => NeverOverpaid
  BY DEF TokenInv
<1> QED
  BY <1>1, TokenInvariant, PTL

(* The vault's record of a vested sale is the sale's own, less what was    *)
(* allocated over the counter, also before the mode was chosen.            *)
THEOREM SaleVaultMirrors == SaleSpec => []VaultMirrorsSale
<1>1. TokenInv => VaultMirrorsSale
  BY DEF TokenInv
<1> QED
  BY <1>1, TokenInvariant, PTL

(* An investor of a vested sale has the money back or project tokens, not  *)
(* both: only a failed sale refunds, and in it the vesting clock, without  *)
(* which the vault releases nothing, has never started.                    *)
THEOREM SaleRefundXorTokens == SaleSpec => []RefundXorTokens
<1>1. SaleInv /\ TokenInv => RefundXorTokens
  <2> SUFFICES ASSUME SaleInv, TokenInv, NEW i \in Investors,
                      saleMode = "Vested", contributions[i].refunded
               PROVE  investorTokens[i] = 0
    BY TokenTypes DEF RefundXorTokens
  <2>1. ~finalized
    BY DEF SaleInv, MoneyInv, RefundedOnlyFailed, VestingIffSuccess
  <2>2. Vested(i) = 0
    BY <2>1 DEF SaleInv, VaultInv, VestingClock, Vested, CalculateVested
  <2>3. investorVesting[i].claimedAmount <= 0
    BY <2>2 DEF SaleInv, VaultInv, ClaimedVested
  <2> QED
    BY <2>3, TokenTypes DEF TokenInv, PaidAsBooked
<1> QED
  BY <1>1, TokenInvariant, PTL

-----------------------------------------------------------------------------
(* Fractions.                                                              *)

RecordedFractions == [i \in Investors |-> investorVesting[i].totalFractions]

(* A step that changes no recorded fractions and, burning or exchanging,   *)
(* creates none.                                                           *)
LEMMA FractionsQuiet ==
    ASSUME SaleInv, SaleInv', FractionsAccounted,
           fractionSupply' + totalReleased' <= fractionSupply + totalReleased,
           \A i \in Investors : investorVesting'[i].totalFractions
                                    = investorVesting[i].totalFractions
    PROVE  FractionsAccounted'
<1>1. RecordedFractions' = RecordedFractions
  BY DEF RecordedFractions
<1>2. RecordedFractions \in [Investors -> Nat]
  BY DEF RecordedFractions, SaleInv, SaleTypeOK, VaultTypeOK, Vesting
<1>3. Sum(RecordedFractions) \in Nat
  BY <1>2, SumType, VaultAssumption
<1>4. fractionSupply \in Nat /\ totalReleased \in Nat
  BY DEF SaleInv, SaleTypeOK, VaultTypeOK
<1>5. fractionSupply + totalReleased <= Sum(RecordedFractions)
  BY DEF FractionsAccounted, RecordedFractions
<1>6. Sum(RecordedFractions') = Sum(RecordedFractions)
  BY <1>1
<1>7. fractionSupply' + totalReleased' <= Sum(RecordedFractions)
  <2>1. \A m, n \in Nat : m + n \in Nat
    OBVIOUS
  <2>2. fractionSupply' \in Nat /\ totalReleased' \in Nat
    BY DEF SaleInv, SaleTypeOK, VaultTypeOK
  <2>3. fractionSupply' + totalReleased' \in Nat
    BY <2>1, <2>2, Zenon
  <2> QED
    BY <1>3, <1>4, <1>5, <2>3
<1>8. fractionSupply' + totalReleased' <= Sum(RecordedFractions')
  BY <1>6, <1>7
<1> QED
  BY <1>8 DEF FractionsAccounted, RecordedFractions

LEMMA FractionsContribute ==
    ASSUME SaleInv, SaleInv', FractionsAccounted, NEW i \in Investors,
           NEW p \in 1..MaxPhases, NEW amount \in Payments,
           Contribute(i, p, amount)
    PROVE  FractionsAccounted'
<1> DEFINE tokens == TokensFor(phases[p].config, amount)
<1>1. /\ p \in 1..Len(phases) /\ phases[p].config.pricePerToken > 0
      /\ DeliverDirect(i, tokens) \/ DeliverVested(i, tokens)
      /\ UNCHANGED totalReleased
  BY DEF Contribute, MayContribute, ledgerVars
<1>2. tokens \in Nat
  BY TokensBought DEF Contribute
<1> HIDE DEF tokens
<1>3. /\ fractionSupply \in Nat /\ totalReleased \in Nat
      /\ investorVesting \in [Investors -> Vesting]
  BY DEF SaleInv, SaleTypeOK, VaultTypeOK
<1>4. CASE DeliverDirect(i, tokens)
  <2>1. UNCHANGED <<fractionSupply, investorVesting, totalReleased>>
    BY <1>1, <1>4 DEF DeliverDirect, fractionVars
  <2> QED
    BY <1>3, <2>1, FractionsQuiet
<1>5. CASE DeliverVested(i, tokens)
  <2>1. /\ fractionSupply' = fractionSupply + tokens
        /\ RecordAllocation(i, tokens)
    BY <1>5 DEF DeliverVested, MintFractions
  <2>2. \A j \in Investors :
            investorVesting'[j].totalFractions
                = investorVesting[j].totalFractions
                      + (IF j = i THEN tokens ELSE 0)
    BY <1>2, <1>3, <2>1, RecordRaises
  <2>3. RecordedFractions \in [Investors -> Nat]
    BY <1>3 DEF RecordedFractions, Vesting
  <2>4. RecordedFractions' \in [Investors -> Nat]
    BY DEF RecordedFractions, SaleInv, SaleTypeOK, VaultTypeOK, Vesting
  <2>5. /\ RecordedFractions'[i] = RecordedFractions[i] + tokens
        /\ \A j \in Investors \ {i} :
               RecordedFractions'[j] = RecordedFractions[j]
    BY <1>2, <1>3, <2>2 DEF RecordedFractions, Vesting
  <2>6. Sum(RecordedFractions') = Sum(RecordedFractions)
            + (RecordedFractions'[i] - RecordedFractions[i])
    BY <2>3, <2>4, <2>5, SumChange, VaultAssumption
  <2>7. Sum(RecordedFractions) \in Nat /\ RecordedFractions[i] \in Nat
    BY <2>3, SumType, VaultAssumption
  <2>8. fractionSupply + totalReleased <= Sum(RecordedFractions)
    BY DEF FractionsAccounted, RecordedFractions
  <2>9. fractionSupply' + totalReleased' <= Sum(RecordedFractions')
    BY <1>1, <1>2, <1>3, <2>1, <2>5, <2>6, <2>7, <2>8
  <2> QED
    BY <2>9 DEF FractionsAccounted, RecordedFractions
<1> QED
  BY <1>1, <1>4, <1>5

LEMMA FractionsVaultStep ==
    ASSUME SaleInv, SaleInv', FractionsAccounted, VaultStep
    PROVE  FractionsAccounted'
<1>1. VaultPublicNext
  BY DEF VaultStep
<1>2. /\ fractionSupply \in Nat /\ totalReleased \in Nat
      /\ fractionSupply' \in Nat
      /\ investorVesting \in [Investors -> Vesting]
  BY DEF SaleInv, SaleTypeOK, VaultTypeOK
<1>3. ASSUME NEW i \in Investors, Claim(i) PROVE FractionsAccounted'
  <2> DEFINE n == GetClaimable(i)
  <2>1. /\ totalReleased' = totalReleased + n
        /\ fractionSupply' = fractionSupply - n
        /\ investorVesting' =
               [investorVesting EXCEPT ![i].claimedAmount = @ + n]
    BY <1>3 DEF Claim, BurnFractions
  <2>2. n \in Nat
    BY ClaimableBounds DEF SaleInv
  <2> HIDE DEF n
  <2>3. \A j \in Investors : investorVesting'[j].totalFractions
                                 = investorVesting[j].totalFractions
    BY <1>2, <2>1 DEF Vesting
  <2>4. fractionSupply' + totalReleased' <= fractionSupply + totalReleased
    BY <1>2, <2>1, <2>2
  <2> QED
    BY <2>3, <2>4, FractionsQuiet
<1>4. ASSUME NEW i \in Investors, NEW n \in Amounts, BurnOwnFractions(i, n)
      PROVE  FractionsAccounted'
  <2>1. /\ fractionSupply' = fractionSupply - n /\ n \in Nat
        /\ UNCHANGED <<totalReleased, investorVesting>>
    BY <1>4, VaultAssumption DEF BurnOwnFractions, BurnFractions, ledgerVars
  <2>2. fractionSupply' + totalReleased' <= fractionSupply + totalReleased
    BY <1>2, <2>1
  <2> QED
    BY <2>1, <2>2, FractionsQuiet
<1>5. CASE /\ ~\E i \in Investors : Claim(i)
           /\ ~\E i \in Investors, n \in Amounts : BurnOwnFractions(i, n)
  <2>1. UNCHANGED <<fractionSupply, totalReleased, investorVesting>>
    BY <1>1, <1>5 DEF VaultPublicNext, SetExcessPolicy, WithdrawExcess,
                      TransferFraction, FundVault, ledgerVars, fractionVars
  <2> QED
    BY <1>2, <2>1, FractionsQuiet
<1> QED
  BY <1>3, <1>4, <1>5

(* Fractions come from recorded contributions only: however they are       *)
(* traded, burnt or exchanged, those that exist and those exchanged are    *)
(* within what recordAllocation() was told.                                *)
THEOREM SaleFractionsAccounted == SaleSpec => []FractionsAccounted
<1>1. SaleInit => FractionsAccounted
  <2> SUFFICES ASSUME SaleInit PROVE FractionsAccounted
    OBVIOUS
  <2>1. RecordedFractions \in [Investors -> Nat]
    BY DEF SaleInit, VaultInit, RecordedFractions
  <2>2. \A i \in Investors : RecordedFractions[i] = 0
    BY DEF SaleInit, VaultInit, RecordedFractions
  <2>3. Sum(RecordedFractions) = 0
    BY <2>1, <2>2, SumZero
  <2> QED
    BY <2>3 DEF SaleInit, VaultInit, FractionsAccounted, RecordedFractions
<1>2. SaleInv /\ SaleInv' /\ FractionsAccounted /\ [SaleNext]_vars
          => FractionsAccounted'
  <2> SUFFICES ASSUME SaleInv, SaleInv', FractionsAccounted, [SaleNext]_vars
               PROVE  FractionsAccounted'
    OBVIOUS
  <2>1. /\ fractionSupply \in Nat /\ totalReleased \in Nat
        /\ fractionSupply' \in Nat
    BY DEF SaleInv, SaleTypeOK, VaultTypeOK
  <2>2. ASSUME NEW i \in Investors, ClaimRefund(i) PROVE FractionsAccounted'
    <3>1. /\ totalReleased' = totalReleased
          /\ investorVesting' = investorVesting
          /\ \/ fractionSupply' = fractionSupply - fractionBalance[i]
             \/ fractionSupply' = fractionSupply
      BY <2>2 DEF ClaimRefund, BurnFractions, ledgerVars, fractionVars
    <3>2. fractionBalance[i] \in Nat
      BY <2>2 DEF SaleInv, SaleTypeOK, VaultTypeOK
    <3>3. CASE fractionSupply' = fractionSupply - fractionBalance[i]
      BY <2>1, <3>1, <3>2, <3>3, FractionsQuiet
    <3>4. CASE fractionSupply' = fractionSupply
      BY <2>1, <3>1, <3>4, FractionsQuiet
    <3> QED
      BY <3>1, <3>3, <3>4
  <2>3. ASSUME \/ AdminNext \/ NextBlock \/ UNCHANGED vars
               \/ \E i \in Investors : Identity(i) \/ ClaimTokens(i)
        PROVE  FractionsAccounted'
    <3>1. UNCHANGED <<fractionSupply, totalReleased, investorVesting>>
      BY <2>3 DEF AdminNext, Activate, Pause, Unpause, SetStatus,
                  SetVestedMode, FinalizeSale, AddPhase, SetWhitelist,
                  SetMaxPerBlock, IssuerAllocate, FundSale, ClaimTokens,
                  Identity, SetVerified, NextBlock, VaultTick, vars,
                  vaultVars, ledgerVars, fractionVars
    <3> QED
      BY <2>1, <3>1, FractionsQuiet
  <2> QED
    BY <2>2, <2>3, FractionsContribute, FractionsVaultStep
       DEF SaleNext, InvestorNext
<1> QED
  BY <1>1, <1>2, SaleInvariant, PTL DEF SaleSpec

=============================================================================
