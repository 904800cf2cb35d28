------------------------- MODULE CiretaVaultProofs -------------------------
(* Theorems about the vault, for any investors, amounts, durations and     *)
(* clock bound.                                                            *)
EXTENDS CiretaVault, SumTheorems

-----------------------------------------------------------------------------
(* Arithmetic of linear vesting.                                           *)

(* What is vested is a natural number within the allocation, and more of   *)
(* it is vested for a larger allocation and at a later time.               *)
LEMMA VestedBounds ==
    ASSUME NEW m \in Nat, NEW start \in Nat, NEW t \in Nat, start <= t
    PROVE  /\ CalculateVested(m, start, t) \in Nat
           /\ CalculateVested(m, start, t) <= m
<1> DEFINE e == t - start
<1>1. e \in Nat
  OBVIOUS
<1>2. CASE start = 0 \/ e < cliffDuration
  BY <1>2 DEF CalculateVested
<1>3. CASE ~(start = 0 \/ e < cliffDuration) /\ e >= vestingDuration
  BY <1>3 DEF CalculateVested
<1>4. CASE ~(start = 0 \/ e < cliffDuration) /\ e < vestingDuration
  <2>1. vestingDuration \in Nat \ {0}
    BY <1>1, <1>4, VaultAssumption
  <2>2. m * e \in Nat
    BY <1>1, MulMonotone
  <2>3. (m * e) \div vestingDuration \in Nat
    BY <2>1, <2>2, DivFacts
  <2>4. (m * e) \div vestingDuration <= m
    BY <1>1, <1>4, <2>1, DivAtMost
  <2>5. CalculateVested(m, start, t) = (m * e) \div vestingDuration
    BY <1>1, <1>4, VaultAssumption DEF CalculateVested
  <2> QED
    BY <2>3, <2>4, <2>5
<1> QED
  BY <1>1, <1>2, <1>3, <1>4, VaultAssumption

LEMMA VestedMonotone ==
    ASSUME NEW m \in Nat, NEW n \in Nat, m <= n,
           NEW start \in Nat, NEW t \in Nat, NEW u \in Nat,
           start <= t, t <= u
    PROVE  CalculateVested(m, start, t) <= CalculateVested(n, start, u)
<1> DEFINE e == t - start
           f == u - start
<1>1. e \in Nat /\ f \in Nat /\ e <= f
  OBVIOUS
<1>2. CalculateVested(m, start, t) \in Nat /\ CalculateVested(m, start, t) <= m
  BY VestedBounds
<1>3. CalculateVested(n, start, u) \in Nat
  BY VestedBounds
<1>4. CASE start = 0 \/ e < cliffDuration
  BY <1>3, <1>4 DEF CalculateVested
<1>5. CASE ~(start = 0 \/ e < cliffDuration) /\ f >= vestingDuration
  <2>1. CalculateVested(n, start, u) = n
    BY <1>1, <1>5, VaultAssumption DEF CalculateVested
  <2> QED
    BY <1>2, <2>1
<1>6. CASE ~(start = 0 \/ e < cliffDuration) /\ f < vestingDuration
  <2>1. vestingDuration \in Nat \ {0}
    BY <1>1, <1>6, VaultAssumption
  <2>2. m * e \in Nat /\ n * f \in Nat /\ m * e <= n * f
    BY <1>1, MulMonotone
  <2>3. (m * e) \div vestingDuration <= (n * f) \div vestingDuration
    BY <2>1, <2>2, DivMonotone
  <2>4. /\ CalculateVested(m, start, t) = (m * e) \div vestingDuration
        /\ CalculateVested(n, start, u) = (n * f) \div vestingDuration
    BY <1>1, <1>6, VaultAssumption DEF CalculateVested
  <2> QED
    BY <2>3, <2>4
<1> QED
  BY <1>1, <1>4, <1>5, <1>6, VaultAssumption

-----------------------------------------------------------------------------
(* The inductive invariant.  ClaimedWithinVested is not inductive alone: a *)
(* claim recorded before startVesting() would exceed what vests at once,   *)
(* vesting is only monotone from its start on, and the supply stays a      *)
(* natural number only because it is the sum of the balances.              *)

VestingClock ==
    /\ vestingStartTime <= now
    /\ ~finalized => vestingStartTime = 0

ClaimedVested ==
    \A i \in Investors : investorVesting[i].claimedAmount <= Vested(i)

SupplyIsSum == fractionSupply = Sum(fractionBalance)

VaultInv == VaultTypeOK /\ VestingClock /\ ClaimedVested /\ SupplyIsSum

(* Under the invariant getClaimable() is an amount the holder can burn and *)
(* that has vested.                                                        *)
LEMMA ClaimableBounds ==
    ASSUME VaultInv, NEW i \in Investors
    PROVE  /\ Vested(i) \in Nat
           /\ Vested(i) <= investorVesting[i].totalFractions
           /\ GetClaimable(i) \in Nat
           /\ GetClaimable(i) <= fractionBalance[i]
           /\ investorVesting[i].claimedAmount + GetClaimable(i) <= Vested(i)
<1>1. /\ investorVesting[i].totalFractions \in Nat
      /\ investorVesting[i].claimedAmount \in Nat
      /\ fractionBalance[i] \in Nat
  BY DEF VaultInv, VaultTypeOK, Vesting
<1>2. Vested(i) \in Nat /\ Vested(i) <= investorVesting[i].totalFractions
  BY <1>1, VestedBounds DEF VaultInv, VaultTypeOK, VestingClock, Vested
<1>3. investorVesting[i].claimedAmount <= Vested(i)
  BY DEF VaultInv, ClaimedVested
<1> QED
  BY <1>1, <1>2, <1>3 DEF GetClaimable

(* A later time and a larger allocation keep ClaimedVested.                *)
LEMMA VestingGrows ==
    ASSUME VaultInv, VaultTypeOK', vestingStartTime' = vestingStartTime,
           now <= now',
           \A i \in Investors :
               /\ investorVesting'[i].claimedAmount
                      = investorVesting[i].claimedAmount
               /\ investorVesting[i].totalFractions
                      <= investorVesting'[i].totalFractions
    PROVE  ClaimedVested'
<1> SUFFICES ASSUME NEW i \in Investors
             PROVE  investorVesting'[i].claimedAmount <= Vested(i)'
  BY DEF ClaimedVested
<1>1. /\ investorVesting[i].totalFractions \in Nat
      /\ investorVesting'[i].totalFractions \in Nat
      /\ investorVesting[i].claimedAmount \in Nat
      /\ now \in Nat /\ now' \in Nat /\ vestingStartTime \in Nat
      /\ vestingStartTime <= now
  BY DEF VaultInv, VaultTypeOK, Vesting, VestingClock
<1>2. Vested(i) <= Vested(i)'
  BY <1>1, VestedMonotone DEF Vested
<1>3. investorVesting[i].claimedAmount <= Vested(i)
  BY DEF VaultInv, ClaimedVested
<1>4. Vested(i) \in Nat
  BY <1>1, VestedBounds DEF Vested
<1>5. Vested(i)' \in Nat
  <2>1. vestingStartTime <= now'
    BY <1>1
  <2> QED
    BY <1>1, <2>1, VestedBounds DEF Vested
<1> QED
  BY <1>1, <1>2, <1>3, <1>4, <1>5

(* Before vesting starts nothing has been claimed, so any start will do.   *)
LEMMA VestingStarts ==
    ASSUME VaultInv, ~finalized, VaultTypeOK', vestingStartTime' <= now',
           \A i \in Investors : investorVesting'[i].claimedAmount
                                   = investorVesting[i].claimedAmount
    PROVE  ClaimedVested'
<1> SUFFICES ASSUME NEW i \in Investors
             PROVE  investorVesting'[i].claimedAmount <= Vested(i)'
  BY DEF ClaimedVested
<1>1. /\ investorVesting[i].claimedAmount \in Nat
      /\ investorVesting'[i].totalFractions \in Nat
      /\ now' \in Nat /\ vestingStartTime' \in Nat
  BY DEF VaultInv, VaultTypeOK, Vesting
<1>2. Vested(i) = 0
  BY DEF VaultInv, VestingClock, Vested, CalculateVested
<1>3. investorVesting[i].claimedAmount <= Vested(i)
  BY DEF VaultInv, ClaimedVested
<1>4. Vested(i)' \in Nat
  BY <1>1, VestedBounds DEF Vested
<1> QED
  BY <1>1, <1>2, <1>3, <1>4

(* Minting, burning and transferring keep the supply the sum of balances.  *)
LEMMA MintKeepsSum ==
    ASSUME VaultTypeOK, SupplyIsSum, NEW i \in Investors, NEW n \in Nat,
           MintFractions(i, n)
    PROVE  /\ fractionBalance' \in [Investors -> Nat]
           /\ fractionSupply' \in Nat
           /\ SupplyIsSum'
<1>1. fractionBalance \in [Investors -> Nat] /\ fractionSupply \in Nat
  BY DEF VaultTypeOK
<1>2. fractionBalance' \in [Investors -> Nat] /\ fractionSupply' \in Nat
  BY <1>1 DEF MintFractions
<1>3. Sum(fractionBalance') = Sum(fractionBalance) + n
  BY <1>1, SumAdd, VaultAssumption, ZenonT(40) DEF MintFractions
<1> QED
  BY <1>2, <1>3 DEF MintFractions, SupplyIsSum

LEMMA BurnKeepsSum ==
    ASSUME VaultTypeOK, SupplyIsSum, NEW i \in Investors, NEW n \in Nat,
           BurnFractions(i, n)
    PROVE  /\ fractionBalance' \in [Investors -> Nat]
           /\ fractionSupply' \in Nat
           /\ SupplyIsSum'
<1>1. fractionBalance \in [Investors -> Nat] /\ fractionSupply \in Nat
  BY DEF VaultTypeOK
<1>2. /\ fractionBalance' \in [Investors -> Nat]
      /\ fractionBalance'[i] = fractionBalance[i] - n
      /\ \A j \in Investors \ {i} : fractionBalance'[j] = fractionBalance[j]
  BY <1>1 DEF BurnFractions
<1>3. Sum(fractionBalance') = Sum(fractionBalance)
                                 + (fractionBalance'[i] - fractionBalance[i])
  BY <1>1, <1>2, SumChange, VaultAssumption
<1>4. Sum(fractionBalance') \in Nat
  BY <1>2, SumType, VaultAssumption
<1>5. fractionBalance[i] \in Nat
  BY <1>1
<1>6. fractionSupply' = Sum(fractionBalance')
  BY <1>1, <1>2, <1>3, <1>5 DEF BurnFractions, SupplyIsSum
<1> QED
  BY <1>2, <1>4, <1>6 DEF SupplyIsSum

LEMMA TransferKeepsSum ==
    ASSUME VaultTypeOK, SupplyIsSum, NEW from \in Investors,
           NEW to \in Investors, NEW n \in Nat, TransferFraction(from, to, n)
    PROVE  fractionBalance' \in [Investors -> Nat] /\ SupplyIsSum'
<1> DEFINE mid == [fractionBalance EXCEPT ![from] = fractionBalance[from] - n]
<1>1. /\ fractionBalance \in [Investors -> Nat]
      /\ fractionBalance[from] \in Nat /\ fractionBalance[to] \in Nat
      /\ n <= fractionBalance[from] /\ from # to
      /\ fractionSupply' = fractionSupply
  BY DEF VaultTypeOK, TransferFraction
<1>2. /\ mid \in [Investors -> Nat]
      /\ mid[from] = fractionBalance[from] - n
      /\ \A j \in Investors \ {from} : mid[j] = fractionBalance[j]
  BY <1>1
<1>3. /\ fractionBalance' \in [Investors -> Nat]
      /\ fractionBalance'[to] = mid[to] + n
      /\ \A j \in Investors \ {to} : fractionBalance'[j] = mid[j]
  BY <1>1 DEF TransferFraction
<1> HIDE DEF mid
<1>4. Sum(mid) = Sum(fractionBalance) + (mid[from] - fractionBalance[from])
  BY <1>1, <1>2, SumChange, VaultAssumption
<1>5. Sum(fractionBalance') = Sum(mid) + (fractionBalance'[to] - mid[to])
  BY <1>2, <1>3, SumChange, VaultAssumption, ZenonT(40)
<1>6. /\ Sum(fractionBalance) \in Nat /\ Sum(mid) \in Nat
      /\ mid[to] \in Nat
  BY <1>1, <1>2, SumType, VaultAssumption
<1>7. Sum(fractionBalance') = Sum(fractionBalance)
  BY <1>1, <1>2, <1>3, <1>4, <1>5, <1>6
<1> QED
  BY <1>1, <1>3, <1>7 DEF SupplyIsSum

LEMMA VaultInitInv == VaultInit => VaultInv
<1> SUFFICES ASSUME VaultInit PROVE VaultInv
  OBVIOUS
<1>1. VaultTypeOK
  BY DEF VaultInit, VaultTypeOK, Vesting, ExcessPolicies
<1>2. VestingClock
  BY DEF VaultInit, VestingClock
<1>3. ClaimedVested
  BY DEF VaultInit, ClaimedVested, Vested, CalculateVested
<1>4. SupplyIsSum
  BY SumZero DEF VaultInit, SupplyIsSum
<1> QED
  BY <1>1, <1>2, <1>3, <1>4 DEF VaultInv

(* The steps of anyone but the sale.                                       *)
LEMMA VaultPublicStep == VaultInv /\ VaultPublicNext => VaultInv'
<1> SUFFICES ASSUME VaultInv, VaultPublicNext PROVE VaultInv'
  OBVIOUS
<1> USE VaultAssumption DEF VaultInv, VestingClock
<1>1. ASSUME NEW p \in ExcessPolicies, SetExcessPolicy(p) PROVE VaultInv'
  <2>1. VaultTypeOK'
    BY <1>1 DEF SetExcessPolicy, VaultTypeOK, ledgerVars, vestingVars,
                fractionVars, tokenVars
  <2>2. ClaimedVested'
    BY <1>1, <2>1, VestingGrows
       DEF SetExcessPolicy, VaultTypeOK, Vesting, vestingVars
  <2> QED
    BY <1>1, <2>1, <2>2
       DEF SetExcessPolicy, vestingVars, fractionVars, SupplyIsSum
<1>2. CASE WithdrawExcess
  <2>1. VaultTypeOK'
    BY <1>2 DEF WithdrawExcess, ReturnToIssuer, Excess, VaultTypeOK,
                vestingVars, fractionVars
  <2>2. ClaimedVested'
    BY <1>2, <2>1, VestingGrows
       DEF WithdrawExcess, VaultTypeOK, Vesting, vestingVars
  <2> QED
    BY <1>2, <2>1, <2>2
       DEF WithdrawExcess, vestingVars, fractionVars, SupplyIsSum
<1>3. ASSUME NEW i \in Investors, Claim(i) PROVE VaultInv'
  <2> DEFINE n == GetClaimable(i)
  <2>1. /\ n \in Nat
        /\ investorVesting[i].claimedAmount + n <= Vested(i)
    BY ClaimableBounds
  <2> HIDE DEF n
  <2>b. /\ fractionBalance' \in [Investors -> Nat]
        /\ fractionSupply' \in Nat
        /\ SupplyIsSum'
    BY <1>3, <2>1, BurnKeepsSum DEF Claim, n
  <2>v. investorVesting' \in [Investors -> Vesting]
    BY <1>3, <2>1 DEF Claim, VaultTypeOK, Vesting, n
  <2>t. /\ totalReleased' \in Nat
        /\ vaultTokens' \in Nat
        /\ investorTokens' \in [Investors -> Nat]
    BY <1>3, <2>1 DEF Claim, VaultTypeOK, n
  <2>2. VaultTypeOK'
    BY <1>3, <2>b, <2>v, <2>t DEF Claim, VaultTypeOK, vestingVars
  <2>3. ClaimedVested'
    <3> SUFFICES ASSUME NEW j \in Investors
                 PROVE  investorVesting'[j].claimedAmount <= Vested(j)'
      BY DEF ClaimedVested
    <3>1. /\ investorVesting'[j].totalFractions
                 = investorVesting[j].totalFractions
          /\ vestingStartTime' = vestingStartTime
          /\ now' = now
      BY <1>3 DEF Claim, VaultTypeOK, Vesting, vestingVars
    <3>2. Vested(j)' = Vested(j)
      BY <3>1 DEF Vested
    <3>3. CASE j = i
      BY <1>3, <2>1, <3>2, <3>3 DEF Claim, VaultTypeOK, Vesting, n
    <3>4. CASE j # i
      BY <1>3, <3>2, <3>4 DEF Claim, VaultTypeOK, Vesting, ClaimedVested
    <3> QED
      BY <3>3, <3>4
  <2> QED
    BY <1>3, <2>2, <2>3, <2>b DEF Claim, vestingVars
<1>4. ASSUME NEW from \in Investors, NEW to \in Investors, NEW n \in Amounts,
             TransferFraction(from, to, n)
      PROVE  VaultInv'
  <2>s. fractionBalance' \in [Investors -> Nat] /\ SupplyIsSum'
    BY <1>4, TransferKeepsSum
  <2>1. VaultTypeOK'
    BY <1>4, <2>s DEF TransferFraction, VaultTypeOK, ledgerVars, vestingVars,
                      tokenVars
  <2>2. ClaimedVested'
    BY <1>4, <2>1, VestingGrows
       DEF TransferFraction, VaultTypeOK, Vesting, vestingVars
  <2> QED
    BY <1>4, <2>1, <2>2, <2>s DEF TransferFraction, vestingVars
<1>5. ASSUME NEW i \in Investors, NEW n \in Amounts, BurnOwnFractions(i, n)
      PROVE  VaultInv'
  <2>b. /\ fractionBalance' \in [Investors -> Nat]
        /\ fractionSupply' \in Nat
        /\ SupplyIsSum'
    BY <1>5, BurnKeepsSum DEF BurnOwnFractions
  <2>1. VaultTypeOK'
    BY <1>5, <2>b DEF BurnOwnFractions, VaultTypeOK, ledgerVars, vestingVars,
                      tokenVars
  <2>2. ClaimedVested'
    BY <1>5, <2>1, VestingGrows
       DEF BurnOwnFractions, VaultTypeOK, Vesting, vestingVars
  <2> QED
    BY <1>5, <2>1, <2>2, <2>b DEF BurnOwnFractions, vestingVars
<1>6. ASSUME NEW n \in Amounts, FundVault(n) PROVE VaultInv'
  <2>1. VaultTypeOK'
    BY <1>6 DEF FundVault, VaultTypeOK, ledgerVars, vestingVars, fractionVars
  <2>2. ClaimedVested'
    BY <1>6, <2>1, VestingGrows
       DEF FundVault, VaultTypeOK, Vesting, vestingVars
  <2> QED
    BY <1>6, <2>1, <2>2 DEF FundVault, vestingVars, fractionVars, SupplyIsSum
<1> QED
  BY <1>1, <1>2, <1>3, <1>4, <1>5, <1>6 DEF VaultPublicNext

(* The registry and the clock.                                             *)
LEMMA VaultEnvStep ==
    VaultInv /\ ((\E i \in Investors : SetVerified(i)) \/ VaultTick) => VaultInv'
<1> USE DEF VaultInv, VestingClock
<1>1. ASSUME VaultInv, NEW i \in Investors, SetVerified(i) PROVE VaultInv'
  <2>1. VaultTypeOK'
    BY <1>1 DEF SetVerified, VaultTypeOK, ledgerVars, vestingVars,
                fractionVars, tokenVars
  <2>2. ClaimedVested'
    BY <1>1, <2>1, VestingGrows
       DEF SetVerified, VaultTypeOK, Vesting, vestingVars
  <2> QED
    BY <1>1, <2>1, <2>2
       DEF SetVerified, vestingVars, fractionVars, SupplyIsSum
<1>2. ASSUME VaultInv, VaultTick PROVE VaultInv'
  <2>1. VaultTypeOK'
    BY <1>2 DEF VaultTick, VaultTypeOK, ledgerVars, vestingVars,
                fractionVars, tokenVars
  <2>2. ClaimedVested'
    BY <1>2, <2>1, VestingGrows
       DEF VaultTick, VaultTypeOK, Vesting, vestingVars
  <2> QED
    BY <1>2, <2>1, <2>2
       DEF VaultTick, VaultTypeOK, vestingVars, fractionVars, SupplyIsSum
<1> QED
  BY <1>1, <1>2

(* A recorded allocation only raises totalFractions.                       *)
LEMMA RecordRaises ==
    ASSUME investorVesting \in [Investors -> Vesting], NEW i \in Investors,
           NEW n \in Nat, RecordAllocation(i, n)
    PROVE  /\ investorVesting' \in [Investors -> Vesting]
           /\ \A j \in Investors :
                 /\ investorVesting'[j].claimedAmount
                        = investorVesting[j].claimedAmount
                 /\ investorVesting'[j].totalFractions
                        = investorVesting[j].totalFractions
                              + (IF j = i THEN n ELSE 0)
  BY DEF RecordAllocation, Vesting

LEMMA VaultNextInv == VaultInv /\ [VaultNext]_vaultVars => VaultInv'
<1> SUFFICES ASSUME VaultInv, [VaultNext]_vaultVars PROVE VaultInv'
  OBVIOUS
<1> USE VaultAssumption DEF VaultInv, VestingClock
<1>1. ASSUME NEW i \in Investors, NEW n \in Amounts, Allocate(i, n)
      PROVE  VaultInv'
  <2>1. /\ fractionBalance' \in [Investors -> Nat]
        /\ fractionSupply' \in Nat
        /\ SupplyIsSum'
    BY <1>1, MintKeepsSum DEF Allocate
  <2>2. /\ investorVesting' \in [Investors -> Vesting]
        /\ \A j \in Investors :
              /\ investorVesting'[j].claimedAmount
                     = investorVesting[j].claimedAmount
              /\ investorVesting'[j].totalFractions
                     = investorVesting[j].totalFractions
                           + (IF j = i THEN n ELSE 0)
    BY <1>1, RecordRaises DEF Allocate, VaultTypeOK
  <2>3. VaultTypeOK'
    BY <1>1, <2>1, <2>2
       DEF Allocate, VaultTypeOK, ledgerVars, vestingVars, tokenVars
  <2>4. \A j \in Investors : investorVesting[j].totalFractions
                                 <= investorVesting'[j].totalFractions
    BY <2>2 DEF VaultTypeOK, Vesting
  <2>5. ClaimedVested'
    BY <1>1, <2>2, <2>3, <2>4, VestingGrows
       DEF Allocate, VaultTypeOK, vestingVars
  <2> QED
    BY <1>1, <2>1, <2>3, <2>5 DEF Allocate, vestingVars
<1>2. CASE SaleStartsVesting
  <2>1. VaultTypeOK'
    BY <1>2 DEF SaleStartsVesting, StartVesting, VaultTypeOK, ledgerVars,
                fractionVars, tokenVars
  <2>2. ClaimedVested'
    BY <1>2, <2>1, VestingStarts
       DEF SaleStartsVesting, StartVesting, VaultTypeOK
  <2> QED
    BY <1>2, <2>1, <2>2
       DEF SaleStartsVesting, StartVesting, VaultTypeOK, fractionVars,
           SupplyIsSum
<1>3. ASSUME NEW n \in Amounts, DepositTokens(n) PROVE VaultInv'
  <2>1. VaultTypeOK'
    BY <1>3 DEF DepositTokens, VaultTypeOK, vestingVars, fractionVars
  <2>2. ClaimedVested'
    BY <1>3, <2>1, VestingGrows
       DEF DepositTokens, VaultTypeOK, Vesting, vestingVars
  <2> QED
    BY <1>3, <2>1, <2>2
       DEF DepositTokens, vestingVars, fractionVars, SupplyIsSum
<1>4. ASSUME NEW n \in Amounts, HandlePhaseExcess(n) PROVE VaultInv'
  <2>1. VaultTypeOK'
    BY <1>4 DEF HandlePhaseExcess, ReturnToIssuer, VaultTypeOK, vestingVars,
                fractionVars
  <2>2. ClaimedVested'
    BY <1>4, <2>1, VestingGrows
       DEF HandlePhaseExcess, VaultTypeOK, Vesting, vestingVars
  <2> QED
    BY <1>4, <2>1, <2>2
       DEF HandlePhaseExcess, vestingVars, fractionVars, SupplyIsSum
<1>5. CASE VaultPublicNext
  BY <1>5, VaultPublicStep
<1>6. CASE (\E i \in Investors : SetVerified(i)) \/ VaultTick
  BY <1>6, VaultEnvStep
<1>7. CASE UNCHANGED vaultVars
  BY <1>7 DEF vaultVars, VaultTypeOK, ClaimedVested, Vested, SupplyIsSum
<1> QED
  BY <1>1, <1>2, <1>3, <1>4, <1>5, <1>6, <1>7 DEF VaultNext

LEMMA VaultInvariant == VaultSpec => []VaultInv
  BY VaultInitInv, VaultNextInv, PTL DEF VaultSpec

(* The vault's amounts never leave their types: no uint256 subtraction of  *)
(* a successful transaction goes below zero.                               *)
THEOREM VaultTypeCorrect == VaultSpec => []VaultTypeOK
<1>1. VaultInv => VaultTypeOK
  BY DEF VaultInv
<1> QED
  BY <1>1, VaultInvariant, PTL

(* claim() and getClaimable() never underflow, for any cliff, vesting      *)
(* duration, number of investors and order of calls.                       *)
THEOREM VaultClaimsSound == VaultSpec => []ClaimedWithinVested
<1>1. VaultInv => ClaimedWithinVested
  BY ClaimableBounds DEF VaultInv, ClaimedVested, ClaimedWithinVested
<1> QED
  BY <1>1, VaultInvariant, PTL

(* What the ledger calls locked and not released is held.                  *)
THEOREM VaultLockedIsHeld == VaultSpec => []LockedIsHeld
<1>1. VaultInit => LockedIsHeld
  BY DEF VaultInit, LockedIsHeld
<1>2. VaultInv /\ LockedIsHeld /\ [VaultNext]_vaultVars => LockedIsHeld'
  <2> SUFFICES ASSUME VaultInv, LockedIsHeld, [VaultNext]_vaultVars
               PROVE  LockedIsHeld'
    OBVIOUS
  <2> USE VaultAssumption DEF LockedIsHeld, VaultInv, VaultTypeOK
  <2>1. ASSUME NEW i \in Investors, Claim(i) PROVE LockedIsHeld'
    <3>1. GetClaimable(i) \in Nat
      BY ClaimableBounds
    <3> QED
      BY <2>1, <3>1 DEF Claim
  <2>2. CASE VaultPublicNext /\ ~\E i \in Investors : Claim(i)
    BY <2>2 DEF VaultPublicNext, SetExcessPolicy, WithdrawExcess, Excess,
                ReturnToIssuer, TransferFraction, BurnOwnFractions, FundVault,
                ledgerVars, tokenVars
  <2>3. CASE \E i \in Investors, n \in Amounts : Allocate(i, n)
    BY <2>3 DEF Allocate, ledgerVars, tokenVars
  <2>4. CASE \E n \in Amounts : DepositTokens(n) \/ HandlePhaseExcess(n)
    BY <2>4 DEF DepositTokens, HandlePhaseExcess, ReturnToIssuer
  <2>5. CASE SaleStartsVesting \/ VaultTick
    BY <2>5 DEF SaleStartsVesting, VaultTick, ledgerVars, tokenVars
  <2>6. CASE \E i \in Investors : SetVerified(i)
    BY <2>6 DEF SetVerified, ledgerVars, tokenVars
  <2>7. CASE UNCHANGED vaultVars
    BY <2>7 DEF vaultVars
  <2> QED
    BY <2>1, <2>2, <2>3, <2>4, <2>5, <2>6, <2>7 DEF VaultNext
<1> QED
  BY <1>1, <1>2, VaultInvariant, PTL DEF VaultSpec

(* Backing, once there, is only undone by the sale.                        *)
THEOREM VaultBackingKept == VaultSpec => BackingKept
<1> DEFINE SaleUndoes == \/ \E i \in Investors, n \in Amounts : Allocate(i, n)
                         \/ \E n \in Amounts : HandlePhaseExcess(n)
<1>1. VaultInv /\ [VaultNext]_vaultVars
          => [Backed => Backed' \/ SaleUndoes]_vaultVars
  <2> SUFFICES ASSUME VaultInv, VaultNext, Backed, ~SaleUndoes PROVE Backed'
    BY DEF SaleUndoes
  <2> USE VaultAssumption DEF Backed, VaultInv, VaultTypeOK
  <2>1. ASSUME NEW i \in Investors, Claim(i) PROVE Backed'
    <3>1. GetClaimable(i) \in Nat
      BY ClaimableBounds
    <3> QED
      BY <2>1, <3>1 DEF Claim, BurnFractions
  <2>2. CASE WithdrawExcess
    BY <2>2 DEF WithdrawExcess, Excess, ReturnToIssuer, fractionVars
  <2>3. ASSUME NEW i \in Investors, NEW n \in Amounts, BurnOwnFractions(i, n)
        PROVE  Backed'
    BY <2>3 DEF BurnOwnFractions, BurnFractions, ledgerVars
  <2>4. CASE \E from, to \in Investors, n \in Amounts :
                 TransferFraction(from, to, n)
    BY <2>4 DEF TransferFraction, ledgerVars
  <2>5. CASE \/ \E p \in ExcessPolicies : SetExcessPolicy(p)
             \/ \E n \in Amounts : FundVault(n)
    BY <2>5 DEF SetExcessPolicy, FundVault, ledgerVars, fractionVars
  <2>6. CASE \E n \in Amounts : DepositTokens(n)
    BY <2>6 DEF DepositTokens, fractionVars
  <2>7. CASE \/ SaleStartsVesting \/ VaultTick
             \/ \E i \in Investors : SetVerified(i)
    BY <2>7 DEF SaleStartsVesting, VaultTick, SetVerified, ledgerVars,
                fractionVars
  <2> QED
    BY <2>1, <2>2, <2>3, <2>4, <2>5, <2>6, <2>7
       DEF VaultNext, VaultPublicNext, SaleUndoes
<1> QED
  BY <1>1, VaultInvariant, PTL DEF VaultSpec, BackingKept
=============================================================================
