------------------------------- MODULE Sale -------------------------------
(***************************************************************************)
(* contracts/src/sale/Sale.sol together with the vault and the fraction    *)
(* token of a vested sale (module CiretaVault), as one system: a           *)
(* transaction of the sale calls mint, recordAllocation, startVesting and  *)
(* burnFrom in the same atomic step.  The sale never calls depositTokens   *)
(* or handlePhaseExcess, so those two have no action here.                 *)
(*                                                                         *)
(* As in CiretaVault, an external function is one action and what reverts  *)
(* is not enabled.  Phase ids count from 1.                                *)
(***************************************************************************)
EXTENDS CiretaVault, Sequences

CONSTANTS
    Payments,           \* USDC amounts an investor may pass to contribute()
    Scale,              \* token units per whole token (1e18 in the code)
    softCap, hardCap,
    feeBasisPoints, feeCapUsdc,
    BlockLimits,        \* values setMaxPerBlock() may be given
    DefaultMaxPerBlock, \* initialize(): 50,000 USDC
    PhaseConfigs,       \* parameters addPhase() may be given
    MaxPhases,          \* bound on the number of phases
    InitialUsdc,        \* USDC in each investor's wallet at the start
    VaultDeployed       \* deployVaultAndFraction() has run for this sale

PhaseConfig == [pricePerToken : Nat, allocation : Nat, minContribution : Nat,
                maxContribution : Nat, startTime : Nat, endTime : Nat,
                whitelistOnly : BOOLEAN]

ASSUME SaleAssumption ==
    /\ Payments \subseteq Nat
    /\ {Scale, softCap, hardCap, feeBasisPoints, feeCapUsdc,
        DefaultMaxPerBlock, MaxPhases, InitialUsdc} \subseteq Nat
    /\ BlockLimits \subseteq Nat
    /\ PhaseConfigs \subseteq PhaseConfig
    /\ VaultDeployed \in BOOLEAN

VARIABLES
    status, saleMode,
    phases,             \* sequence of [config, sold]
    whitelisted,        \* set of <<phaseId, investor>>
    totalRaised,
    contributions,      \* per investor: amount, tokensAllocated, claimed, refunded
    totalContributed,
    otcAllocations, totalOtcAllocated,
    platformFeeCollected,
    maxPerBlock,
    blockContributions, \* _blockContributions[block.number]
    escrow,             \* paymentToken.balanceOf(sale)
    issuerUsdc,         \* USDC paid to the issuer
    investorUsdc,       \* paymentToken.balanceOf(investor)
    saleTokens          \* token.balanceOf(sale)

lifecycleVars == <<status, platformFeeCollected, escrow, issuerUsdc>>
configVars    == <<saleMode, whitelisted, maxPerBlock>>
otcVars       == <<otcAllocations, totalOtcAllocated>>
raiseVars     == <<phases, totalRaised, totalContributed, blockContributions>>
walletVars    == <<investorUsdc, saleTokens>>
saleVars      == <<lifecycleVars, configVars, otcVars, raiseVars, walletVars,
                   contributions>>
vars          == <<saleVars, vaultVars>>

Statuses == {"Draft", "Active", "Paused", "FinalizedSuccess",
             "FinalizedFailed"}
SaleModes == {"Direct", "Vested"}
Contribution == [amount : Nat, tokensAllocated : Nat, claimed : BOOLEAN,
                 refunded : BOOLEAN]

SaleTypeOK ==
    /\ VaultTypeOK
    /\ status \in Statuses
    /\ saleMode \in SaleModes
    /\ phases \in Seq([config : PhaseConfigs, sold : Nat])
    /\ whitelisted \subseteq (1..MaxPhases) \X Investors
    /\ totalRaised \in Nat
    /\ contributions \in [Investors -> Contribution]
    /\ totalContributed \in [Investors -> Nat]
    /\ otcAllocations \in [Investors -> Nat]
    /\ totalOtcAllocated \in Nat
    /\ platformFeeCollected \in Nat
    /\ maxPerBlock \in Nat
    /\ blockContributions \in Nat
    /\ escrow \in Nat
    /\ issuerUsdc \in Nat
    /\ investorUsdc \in [Investors -> Nat]
    /\ saleTokens \in Nat

SaleInit ==
    /\ VaultInit
    /\ status = "Draft"
    /\ saleMode = "Direct"
    /\ phases = <<>>
    /\ whitelisted = {}
    /\ totalRaised = 0
    /\ contributions = [i \in Investors |->
           [amount |-> 0, tokensAllocated |-> 0, claimed |-> FALSE,
            refunded |-> FALSE]]
    /\ totalContributed = [i \in Investors |-> 0]
    /\ otcAllocations = [i \in Investors |-> 0]
    /\ totalOtcAllocated = 0
    /\ platformFeeCollected = 0
    /\ maxPerBlock = DefaultMaxPerBlock
    /\ blockContributions = 0
    /\ escrow = 0
    /\ issuerUsdc = 0
    /\ investorUsdc = [i \in Investors |-> InitialUsdc]
    /\ saleTokens = 0

-----------------------------------------------------------------------------
(* Administration.                                                         *)

SetStatus(s) ==
    /\ status' = s
    /\ UNCHANGED <<platformFeeCollected, escrow, issuerUsdc, configVars,
                   otcVars, raiseVars, walletVars, contributions, vaultVars>>

Activate == status = "Draft"  /\ SetStatus("Active")
Pause    == status = "Active" /\ SetStatus("Paused")
Unpause  == status = "Paused" /\ SetStatus("Active")

AddPhase(c) ==
    /\ status \in {"Draft", "Active"}
    /\ Len(phases) < MaxPhases
    /\ phases' = Append(phases, [config |-> c, sold |-> 0])
    /\ UNCHANGED <<lifecycleVars, configVars, otcVars, totalRaised,
                   totalContributed, blockContributions, walletVars,
                   contributions, vaultVars>>

(* setWhitelist takes any phase id, existing or not, and a list of wallets.*)
SetWhitelist(p, S, allow) ==
    /\ whitelisted' = IF allow THEN whitelisted \cup ({p} \X S)
                               ELSE whitelisted \ ({p} \X S)
    /\ UNCHANGED <<lifecycleVars, saleMode, maxPerBlock, otcVars, raiseVars,
                   walletVars, contributions, vaultVars>>

SetMaxPerBlock(m) ==
    /\ m # 0
    /\ maxPerBlock' = m
    /\ UNCHANGED <<lifecycleVars, saleMode, whitelisted, otcVars, raiseVars,
                   walletVars, contributions, vaultVars>>

SetVestedMode ==
    /\ VaultDeployed
    /\ status = "Draft"
    /\ saleMode' = "Vested"
    /\ UNCHANGED <<lifecycleVars, whitelisted, maxPerBlock, otcVars,
                   raiseVars, walletVars, contributions, vaultVars>>

-----------------------------------------------------------------------------
(* _finalize, on the total and the USDC balance it finds.                  *)

(* Slip: the fee without its absolute cap.                                 *)
FeeUncapped(raised) == (raised * feeBasisPoints) \div 10000

CalculateFee(raised) ==
    LET fee == (raised * feeBasisPoints) \div 10000
    IN  IF feeCapUsdc > 0 /\ fee > feeCapUsdc THEN feeCapUsdc ELSE fee

FinalizeSuccess(raised, balance) ==
    LET fee == CalculateFee(raised)
    IN  /\ raised >= softCap
        /\ fee <= balance
        /\ status' = "FinalizedSuccess"
        /\ platformFeeCollected' = fee
        /\ escrow' = 0
        /\ issuerUsdc' = issuerUsdc + (balance - fee)
        /\ \/ saleMode = "Vested" /\ StartVesting
           \/ saleMode = "Direct" /\ UNCHANGED vestingVars

(* Slip: a failed sale starts the vesting clock as well.                   *)
FailsButVests(raised, balance) ==
    /\ raised < softCap
    /\ status' = "FinalizedFailed"
    /\ escrow' = balance
    /\ saleMode = "Vested" /\ StartVesting
    /\ UNCHANGED <<platformFeeCollected, issuerUsdc>>

FinalizeFailed(raised, balance) ==
    /\ raised < softCap
    /\ status' = "FinalizedFailed"
    /\ escrow' = balance
    /\ UNCHANGED <<platformFeeCollected, issuerUsdc, vestingVars>>

(* Slip: the outcome is decided on the total before the contribution.      *)
FinalizesStale(raised, balance) ==
    FinalizeSuccess(totalRaised, balance) \/ FinalizeFailed(totalRaised, balance)

Finalize(raised, balance) ==
    FinalizeSuccess(raised, balance) \/ FinalizeFailed(raised, balance)

FinalizeSale ==
    /\ status \in {"Active", "Paused"}
    /\ Finalize(totalRaised, escrow)
    /\ UNCHANGED <<configVars, otcVars, raiseVars, walletVars, contributions,
                   ledgerVars, excessPolicy, investorVesting, fractionVars,
                   tokenVars, verified, now>>

-----------------------------------------------------------------------------
(* contribute.                                                             *)

TokensFor(c, amount) == (amount * Scale) \div c.pricePerToken

(* The checks, in the order of the code; a zero price reverts in the       *)
(* division.                                                               *)
MayContribute(i, p, amount) ==
    /\ status = "Active"
    /\ p \in 1..Len(phases)
    /\ LET c == phases[p].config
       IN  /\ c.startTime <= now
           /\ now <= c.endTime
           /\ amount >= c.minContribution
           /\ totalContributed[i] + amount <= c.maxContribution
           /\ totalRaised + amount <= hardCap
           /\ blockContributions + amount <= maxPerBlock
           /\ i \in verified
           /\ c.whitelistOnly => <<p, i>> \in whitelisted
           /\ c.pricePerToken > 0
           /\ phases[p].sold + TokensFor(c, amount) <= c.allocation

(* What the contributor receives at once: the tokens themselves, or        *)
(* fractions recorded in the vault.                                        *)
DeliverDirect(i, tokens) ==
    /\ saleMode = "Direct"
    /\ tokens <= saleTokens
    /\ saleTokens' = saleTokens - tokens
    /\ investorTokens' = [investorTokens EXCEPT ![i] = @ + tokens]
    /\ UNCHANGED <<fractionVars, investorVesting>>

DeliverVested(i, tokens) ==
    /\ saleMode = "Vested"
    /\ MintFractions(i, tokens)
    /\ RecordAllocation(i, tokens)
    /\ UNCHANGED <<saleTokens, investorTokens>>

(* Slip: a direct purchase is not marked as claimed.                       *)
BooksUnclaimed(i, amount, tokens) ==
    contributions' = [contributions EXCEPT ![i].amount = @ + amount,
                                           ![i].tokensAllocated = @ + tokens]

BookContribution(i, amount, tokens) ==
    contributions' = [contributions EXCEPT
        ![i].amount = @ + amount,
        ![i].tokensAllocated = @ + tokens,
        ![i].claimed = @ \/ saleMode = "Direct"]

Contribute(i, p, amount) ==
    LET tokens == TokensFor(phases[p].config, amount)
        raised == totalRaised + amount
    IN  /\ MayContribute(i, p, amount)
        /\ amount <= investorUsdc[i]
        /\ phases' = [phases EXCEPT ![p].sold = @ + tokens]
        /\ totalRaised' = raised
        /\ totalContributed' = [totalContributed EXCEPT ![i] = @ + amount]
        /\ blockContributions' = blockContributions + amount
        /\ BookContribution(i, amount, tokens)
        /\ investorUsdc' = [investorUsdc EXCEPT ![i] = @ - amount]
        /\ DeliverDirect(i, tokens) \/ DeliverVested(i, tokens)
        /\ \/ raised >= hardCap /\ Finalize(raised, escrow + amount)
           \/ /\ raised < hardCap
              /\ escrow' = escrow + amount
              /\ UNCHANGED <<status, platformFeeCollected, issuerUsdc,
                             vestingVars>>
        /\ UNCHANGED <<configVars, otcVars, ledgerVars, excessPolicy,
                       vaultTokens, verified, now>>

IssuerAllocate(i, n) ==
    /\ status \in {"Active", "Draft"}
    /\ i \in verified
    /\ totalOtcAllocated + n <= MaxTokens
    /\ contributions' = [contributions EXCEPT ![i].tokensAllocated = @ + n]
    /\ otcAllocations' = [otcAllocations EXCEPT ![i] = @ + n]
    /\ totalOtcAllocated' = totalOtcAllocated + n
    /\ UNCHANGED <<lifecycleVars, configVars, raiseVars, walletVars,
                   vaultVars>>

-----------------------------------------------------------------------------
(* Claims and refunds.                                                     *)

ClaimTokens(i) ==
    LET n == contributions[i].tokensAllocated
    IN  /\ saleMode = "Direct"
        /\ status = "FinalizedSuccess"
        /\ n > 0
        /\ ~contributions[i].claimed
        /\ i \in verified
        /\ n <= saleTokens
        /\ contributions' = [contributions EXCEPT ![i].claimed = TRUE]
        /\ saleTokens' = saleTokens - n
        /\ investorTokens' = [investorTokens EXCEPT ![i] = @ + n]
        /\ UNCHANGED <<lifecycleVars, configVars, otcVars, raiseVars,
                       investorUsdc, ledgerVars, vestingVars, excessPolicy,
                       investorVesting, fractionVars, vaultTokens, verified,
                       now>>

(* Slips: a refund without the refunded flag's check, without the status   *)
(* check, and one that asks for a verified wallet.                         *)
RefundsTwice(i) ==
    status = "FinalizedFailed" /\ contributions[i].amount > 0

RefundsEarly(i) == contributions[i].amount > 0 /\ ~contributions[i].refunded

RefundsVerified(i) ==
    /\ status = "FinalizedFailed"
    /\ contributions[i].amount > 0
    /\ ~contributions[i].refunded
    /\ i \in verified

MayRefund(i) ==
    /\ status = "FinalizedFailed"
    /\ contributions[i].amount > 0
    /\ ~contributions[i].refunded

ClaimRefund(i) ==
    LET n == contributions[i].amount
    IN  /\ MayRefund(i)
        /\ n <= escrow
        /\ contributions' = [contributions EXCEPT ![i].refunded = TRUE]
        /\ \/ saleMode = "Vested" /\ BurnFractions(i, fractionBalance[i])
           \/ saleMode = "Direct" /\ UNCHANGED fractionVars
        /\ escrow' = escrow - n
        /\ investorUsdc' = [investorUsdc EXCEPT ![i] = @ + n]
        /\ UNCHANGED <<status, platformFeeCollected, issuerUsdc, configVars,
                       otcVars, raiseVars, saleTokens, ledgerVars,
                       vestingVars, excessPolicy, investorVesting, tokenVars,
                       verified, now>>

-----------------------------------------------------------------------------
(* The environment: the issuer sends project tokens to the sale, the       *)
(* registry changes its mind about an investor, a new block is mined.      *)

FundSale(n) ==
    /\ saleTokens + n <= MaxTokens
    /\ saleTokens' = saleTokens + n
    /\ UNCHANGED <<lifecycleVars, configVars, otcVars, raiseVars,
                   investorUsdc, contributions, vaultVars>>

Identity(i) == SetVerified(i) /\ UNCHANGED saleVars

VaultStep == VaultDeployed /\ VaultPublicNext /\ UNCHANGED saleVars

NextBlock ==
    /\ VaultTick
    /\ blockContributions' = 0
    /\ UNCHANGED <<lifecycleVars, configVars, otcVars, phases, totalRaised,
                   totalContributed, walletVars, contributions>>

AdminNext ==
    \/ Activate \/ Pause \/ Unpause \/ SetVestedMode \/ FinalizeSale
    \/ \E c \in PhaseConfigs : AddPhase(c)
    \/ \E p \in 1..MaxPhases, S \in SUBSET Investors, allow \in BOOLEAN :
           SetWhitelist(p, S, allow)
    \/ \E m \in BlockLimits : SetMaxPerBlock(m)
    \/ \E i \in Investors, n \in Amounts : IssuerAllocate(i, n)
    \/ \E n \in Amounts : FundSale(n)

InvestorNext ==
    \/ \E i \in Investors, p \in 1..MaxPhases, amount \in Payments :
           Contribute(i, p, amount)
    \/ \E i \in Investors : ClaimTokens(i) \/ ClaimRefund(i)

SaleNext ==
    \/ AdminNext
    \/ InvestorNext
    \/ VaultStep
    \/ \E i \in Investors : Identity(i)
    \/ NextBlock

SaleSpec == SaleInit /\ [][SaleNext]_vars
-----------------------------------------------------------------------------
(* Safety.                                                                 *)

(* The USDC an investor could still be refunded.                           *)
Refundable(i) ==
    IF contributions[i].refunded THEN 0 ELSE contributions[i].amount

(* Until the sale succeeds the contract holds exactly what it may still    *)
(* have to refund, so claimRefund() never fails for lack of USDC whatever  *)
(* order contributions, pauses, finalization and refunds come in; after a  *)
(* success nothing is left in it.                                          *)
EscrowCoversRefunds ==
    escrow = IF status = "FinalizedSuccess" THEN 0
             ELSE Sum([i \in Investors |-> Refundable(i)])

(* A successful sale pays out what was raised on the platform, once: the   *)
(* fee (never above a positive cap) and the issuer's rest add up to the    *)
(* total, and before that neither of them has been paid anything.          *)
ProceedsSplit ==
    /\ platformFeeCollected + issuerUsdc =
           IF status = "FinalizedSuccess" THEN totalRaised ELSE 0
    /\ feeCapUsdc > 0 => platformFeeCollected <= feeCapUsdc

(* The caps decide the outcome: a sale that can still take money is below  *)
(* the hard cap, no sale is above it, and the outcome recorded at          *)
(* finalization stays the one the soft cap gives for the final total.      *)
CapsDecide ==
    /\ totalRaised <= hardCap
    /\ status \in {"Active", "Paused"} /\ hardCap > 0 => totalRaised < hardCap
    /\ status = "FinalizedSuccess" => totalRaised >= softCap
    /\ status = "FinalizedFailed" => totalRaised < softCap

(* No investor is given more project tokens than the sale allocated to     *)
(* that investor, by whichever path: at once, claimTokens(), vault claim().*)
NeverOverpaid ==
    \A i \in Investors :
        investorTokens[i] <= contributions[i].tokensAllocated

(* The vault knows of exactly the allocations that were paid for on the    *)
(* platform in a vested sale: all but the OTC ones.                        *)
VaultMirrorsSale ==
    \A i \in Investors :
        saleMode = "Vested" =>
            investorVesting[i].totalFractions + otcAllocations[i]
                = contributions[i].tokensAllocated

(* The vesting clock runs exactly for successful vested sales; in a failed *)
(* one the vault can release nothing.                                      *)
VestingIffSuccess ==
    finalized <=> (saleMode = "Vested" /\ status = "FinalizedSuccess")

(* In a vested sale no investor has both a refund and project tokens.      *)
RefundXorTokens ==
    \A i \in Investors :
        ~(/\ saleMode = "Vested"
          /\ contributions[i].refunded
          /\ investorTokens[i] > 0)

(* Fractions are never created but by a recorded contribution: those that  *)
(* exist and those already exchanged are within what the vault recorded,   *)
(* however they were transferred between wallets.                          *)
FractionsAccounted ==
    fractionSupply + totalReleased <=
        Sum([i \in Investors |-> investorVesting[i].totalFractions])

Final == status \in {"FinalizedSuccess", "FinalizedFailed"}

Settlement(i) == <<contributions[i].amount, contributions[i].tokensAllocated>>

(* Once final, always final: after finalization no step changes the        *)
(* status, the total, the fee or anyone's allocation.                      *)
FinalIsFinal ==
    [][Final => /\ UNCHANGED <<status, totalRaised, platformFeeCollected>>
                /\ \A i \in Investors : UNCHANGED Settlement(i)]_vars

-----------------------------------------------------------------------------
(* The sale implements Crowdfund.                                          *)

Outcome == CASE status = "FinalizedSuccess" -> "funded"
             [] status = "FinalizedFailed"  -> "failed"
             [] OTHER                       -> "open"

CF == INSTANCE Crowdfund WITH
          Backers  <- Investors,
          Sums     <- Payments,
          goal     <- softCap,
          limit    <- hardCap,
          outcome  <- Outcome,
          raised   <- totalRaised,
          pledged  <- totalContributed,
          refunded <- [i \in Investors |-> contributions[i].refunded],
          pot      <- escrow

(* Every behaviour of the sale is, for the people who pay into it, one of  *)
(* a crowdfund: phases, whitelists, pauses, OTC allocations, modes and the *)
(* vault change nothing about who is owed money.                           *)
ImplementsCrowdfund == CF!CFSpec

-----------------------------------------------------------------------------
(* Liveness.  Finalization is up to the issuer and a refund up to the      *)
(* investor: each is assumed to call in the end if the call would succeed. *)

FairSaleSpec ==
    /\ SaleSpec
    /\ WF_vars(FinalizeSale)
    /\ \A i \in Investors : WF_vars(ClaimRefund(i))

(* Everyone who paid is settled in the end: the sale succeeds or the money *)
(* comes back, even to an investor the registry has meanwhile dropped.     *)
EveryoneSettled ==
    \A i \in Investors :
        contributions[i].amount > 0 ~>
            (status = "FinalizedSuccess" \/ contributions[i].refunded)
=============================================================================
