---------------------------- MODULE CiretaVault ----------------------------
(***************************************************************************)
(* contracts/src/vault/CiretaVault.sol with the fraction token it burns    *)
(* (contracts/src/fraction/CiretaFractionToken.sol).  The vault holds the  *)
(* project tokens of a vested sale in escrow; an investor exchanges vested *)
(* fraction tokens for them 1:1.                                           *)
(*                                                                         *)
(* Every external function is one transaction, hence one action; what      *)
(* reverts is not enabled.  Amounts are uint256 under checked arithmetic:  *)
(* each subtraction carries the guard whose failure reverts.  The state    *)
(* starts after CiretaFractionFactory.deployVaultAndFraction, which links  *)
(* the fraction token and hands MINTER to the sale, BURNER to sale+vault.  *)
(***************************************************************************)
EXTENDS Sums

CONSTANTS
    Investors,          \* wallets that take part
    Amounts,            \* amounts a caller may pass to a function
    cliffDuration,      \* vestingConfig.cliffDuration, in blocks of the model
    vestingDuration,    \* vestingConfig.vestingDuration
    MaxTime,            \* bound on the block clock
    MaxTokens           \* bound on the tokens put into the vault, and on the
                        \* fractions allocated to an investor

ASSUME VaultAssumption ==
    /\ IsFiniteSet(Investors)
    /\ cliffDuration \in Nat
    /\ vestingDuration \in Nat
    /\ MaxTime \in Nat
    /\ MaxTokens \in Nat
    /\ Amounts \subseteq Nat

VARIABLES
    totalLocked,        \* project tokens deposited through depositTokens()
    totalReleased,      \* project tokens paid out by claim()
    finalized,          \* startVesting() has run
    vestingStartTime,   \* 0 until then
    excessPolicy,
    investorVesting,    \* per investor: totalFractions, claimedAmount
    fractionBalance,    \* CiretaFractionToken.balanceOf
    fractionSupply,     \* CiretaFractionToken.totalSupply
    vaultTokens,        \* projectToken.balanceOf(vault)
    investorTokens,     \* project tokens paid to the investor so far
    verified,           \* investors for whom identityRegistry.isVerified holds
    now                 \* block.timestamp

fractionVars == <<fractionBalance, fractionSupply>>
vestingVars  == <<finalized, vestingStartTime>>
ledgerVars   == <<totalLocked, totalReleased>>
tokenVars    == <<vaultTokens, investorTokens>>
vaultVars    == <<totalLocked, totalReleased, finalized, vestingStartTime,
                  excessPolicy, investorVesting, fractionBalance,
                  fractionSupply, vaultTokens, investorTokens, verified, now>>

ExcessPolicies == {"Keep", "BurnToMatch"}
Vesting == [totalFractions : Nat, claimedAmount : Nat]

VaultTypeOK ==
    /\ totalLocked \in Nat
    /\ totalReleased \in Nat
    /\ finalized \in BOOLEAN
    /\ vestingStartTime \in Nat
    /\ excessPolicy \in ExcessPolicies
    /\ investorVesting \in [Investors -> Vesting]
    /\ fractionBalance \in [Investors -> Nat]
    /\ fractionSupply \in Nat
    /\ vaultTokens \in Nat
    /\ investorTokens \in [Investors -> Nat]
    /\ verified \subseteq Investors
    /\ now \in Nat

VaultInit ==
    /\ totalLocked = 0
    /\ totalReleased = 0
    /\ finalized = FALSE
    /\ vestingStartTime = 0
    /\ excessPolicy \in ExcessPolicies
    /\ investorVesting = [i \in Investors |->
                             [totalFractions |-> 0, claimedAmount |-> 0]]
    /\ fractionBalance = [i \in Investors |-> 0]
    /\ fractionSupply = 0
    /\ vaultTokens = 0
    /\ investorTokens = [i \in Investors |-> 0]
    /\ verified = Investors
    /\ now = 1

-----------------------------------------------------------------------------
(* _calculateVested.  investorVesting.vestingStart is never assigned, so   *)
(* the start is always the vault-wide vestingStartTime.                    *)

CalculateVested(total, start, t) ==
    IF start = 0 \/ t - start < cliffDuration THEN 0
    ELSE IF t - start >= vestingDuration THEN total
    ELSE (total * (t - start)) \div vestingDuration

Vested(i) ==
    CalculateVested(investorVesting[i].totalFractions, vestingStartTime, now)

(* Slip: getClaimable() forgets what was claimed before.                   *)
ForgetsClaimed(i) ==
    IF Vested(i) > fractionBalance[i] THEN fractionBalance[i] ELSE Vested(i)

(* getClaimable: what is vested and unclaimed, at most the fractions held. *)
GetClaimable(i) ==
    LET open == Vested(i) - investorVesting[i].claimedAmount
    IN  IF open > fractionBalance[i] THEN fractionBalance[i] ELSE open

-----------------------------------------------------------------------------
(* Effects of the calls the sale makes, to be combined in one transaction. *)

MintFractions(i, n) ==
    /\ fractionBalance' = [fractionBalance EXCEPT ![i] = @ + n]
    /\ fractionSupply' = fractionSupply + n

BurnFractions(i, n) ==
    /\ n <= fractionBalance[i]
    /\ fractionBalance' = [fractionBalance EXCEPT ![i] = @ - n]
    /\ fractionSupply' = fractionSupply - n

(* Slip: a second contribution replaces the first.                         *)
RecordsLast(i, n) ==
    investorVesting' = [investorVesting EXCEPT ![i].totalFractions = n]

RecordAllocation(i, n) ==
    investorVesting' = [investorVesting EXCEPT ![i].totalFractions = @ + n]

StartVesting ==
    /\ ~finalized
    /\ finalized' = TRUE
    /\ vestingStartTime' = now

-----------------------------------------------------------------------------
(* Transactions.  The first four are onlySale.                             *)

(* A sale mints fractions and records them in the same transaction.        *)
Allocate(i, n) ==
    /\ investorVesting[i].totalFractions + n <= MaxTokens
    /\ MintFractions(i, n)
    /\ RecordAllocation(i, n)
    /\ UNCHANGED <<ledgerVars, vestingVars, excessPolicy, tokenVars,
                   verified, now>>

SaleStartsVesting ==
    /\ StartVesting
    /\ UNCHANGED <<ledgerVars, excessPolicy, investorVesting, fractionVars,
                   tokenVars, verified, now>>

DepositTokens(n) ==
    /\ vaultTokens + totalReleased + n <= MaxTokens
    /\ vaultTokens' = vaultTokens + n
    /\ totalLocked' = totalLocked + n
    /\ UNCHANGED <<totalReleased, vestingVars, excessPolicy, investorVesting,
                   fractionVars, investorTokens, verified, now>>

ReturnToIssuer(n) ==
    /\ n <= totalLocked
    /\ n <= vaultTokens
    /\ totalLocked' = totalLocked - n
    /\ vaultTokens' = vaultTokens - n

(* handlePhaseExcess moves tokens only under BurnToMatch and n > 0.        *)
HandlePhaseExcess(n) ==
    /\ n > 0
    /\ excessPolicy = "BurnToMatch"
    /\ ReturnToIssuer(n)
    /\ UNCHANGED <<totalReleased, vestingVars, excessPolicy, investorVesting,
                   fractionVars, investorTokens, verified, now>>

SetExcessPolicy(p) ==
    /\ ~finalized
    /\ excessPolicy' = p
    /\ UNCHANGED <<ledgerVars, vestingVars, investorVesting, fractionVars,
                   tokenVars, verified, now>>

(* Slip: the excess counts released tokens as still locked.                *)
ExcessForgetsReleased == totalLocked - fractionSupply

Excess == (totalLocked - totalReleased) - fractionSupply

WithdrawExcess ==
    /\ finalized
    /\ totalReleased <= totalLocked
    /\ Excess > 0
    /\ ReturnToIssuer(Excess)
    /\ UNCHANGED <<totalReleased, vestingVars, excessPolicy, investorVesting,
                   fractionVars, investorTokens, verified, now>>

(* claim: the release is an ERC-3643 transfer, so it also needs a verified *)
(* recipient and the tokens in the vault.                                  *)
Claim(i) ==
    LET claimable == GetClaimable(i)
    IN  /\ finalized
        /\ investorVesting[i].claimedAmount <= Vested(i)
        /\ claimable > 0
        /\ i \in verified
        /\ claimable <= vaultTokens
        /\ investorVesting' =
               [investorVesting EXCEPT ![i].claimedAmount = @ + claimable]
        /\ totalReleased' = totalReleased + claimable
        /\ BurnFractions(i, claimable)
        /\ vaultTokens' = vaultTokens - claimable
        /\ investorTokens' = [investorTokens EXCEPT ![i] = @ + claimable]
        /\ UNCHANGED <<totalLocked, vestingVars, excessPolicy, verified, now>>

(* CiretaFractionToken._update: both ends of a transfer must be verified.  *)
TransferFraction(from, to, n) ==
    /\ from # to
    /\ {from, to} \subseteq verified
    /\ n <= fractionBalance[from]
    /\ fractionBalance' = [fractionBalance EXCEPT ![from] = @ - n,
                                                  ![to] = @ + n]
    /\ UNCHANGED <<ledgerVars, vestingVars, excessPolicy, investorVesting,
                   fractionSupply, tokenVars, verified, now>>

(* ERC20Burnable.burn, which the fraction token inherits: a holder may     *)
(* destroy fractions, and with them the claim they stand for.              *)
BurnOwnFractions(i, n) ==
    /\ BurnFractions(i, n)
    /\ UNCHANGED <<ledgerVars, vestingVars, excessPolicy, investorVesting,
                   tokenVars, verified, now>>

(* The issuer transfers project tokens to the vault's address.             *)
FundVault(n) ==
    /\ vaultTokens + totalReleased + n <= MaxTokens
    /\ vaultTokens' = vaultTokens + n
    /\ UNCHANGED <<ledgerVars, vestingVars, excessPolicy, investorVesting,
                   fractionVars, investorTokens, verified, now>>

(* The identity registry verifies or drops an investor.                    *)
SetVerified(i) ==
    /\ verified' = IF i \in verified THEN verified \ {i} ELSE verified \cup {i}
    /\ UNCHANGED <<ledgerVars, vestingVars, excessPolicy, investorVesting,
                   fractionVars, tokenVars, now>>

VaultTick ==
    /\ now < MaxTime
    /\ now' = now + 1
    /\ UNCHANGED <<ledgerVars, vestingVars, excessPolicy, investorVesting,
                   fractionVars, tokenVars, verified>>

(* What anyone but the sale may do to the vault and the fraction token.    *)
VaultPublicNext ==
    \/ \E p \in ExcessPolicies : SetExcessPolicy(p)
    \/ WithdrawExcess
    \/ \E i \in Investors : Claim(i)
    \/ \E from, to \in Investors, n \in Amounts : TransferFraction(from, to, n)
    \/ \E i \in Investors, n \in Amounts : BurnOwnFractions(i, n)
    \/ \E n \in Amounts : FundVault(n)

VaultNext ==
    \/ \E i \in Investors, n \in Amounts : Allocate(i, n)
    \/ SaleStartsVesting
    \/ \E n \in Amounts : DepositTokens(n) \/ HandlePhaseExcess(n)
    \/ VaultPublicNext
    \/ \E i \in Investors : SetVerified(i)
    \/ VaultTick

VaultSpec == VaultInit /\ [][VaultNext]_vaultVars

-----------------------------------------------------------------------------
(* The subtraction in getClaimable never underflows: what an investor has  *)
(* claimed stays within what has vested, which stays within the investor's *)
(* recorded allocation, whatever the clock, later allocations and the      *)
(* rounding of linear vesting do.  An underflow would block claim() and    *)
(* getClaimable() for that investor.                                       *)
ClaimedWithinVested ==
    \A i \in Investors :
        /\ investorVesting[i].claimedAmount <= Vested(i)
        /\ Vested(i) <= investorVesting[i].totalFractions

(* Whatever the vault's ledger calls locked and not yet released is in the *)
(* vault: no sequence of claims, excess returns and withdrawals pays out   *)
(* the same project token twice.                                           *)
LockedIsHeld == totalLocked <= vaultTokens + totalReleased

(* The ledger backs every outstanding fraction 1:1.                        *)
Backed == totalReleased + fractionSupply <= totalLocked

(* Once every fraction is backed, only the sale can undo it, by allocating *)
(* more or by returning phase excess.  In particular withdrawExcess() and  *)
(* claim() never take tokens that other fractions stand for.               *)
BackingKept ==
    [][Backed => \/ Backed'
                 \/ \E i \in Investors, n \in Amounts : Allocate(i, n)
                 \/ \E n \in Amounts : HandlePhaseExcess(n)]_vaultVars
=============================================================================
