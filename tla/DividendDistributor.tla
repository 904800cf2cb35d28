------------------------ MODULE DividendDistributor ------------------------
(***************************************************************************)
(* contracts/src/token/DividendDistributor.sol over the balances of the    *)
(* token it pays for.  A deposit opens an epoch; a holder registers a      *)
(* balance for an epoch with snapshotBalance() and is paid pro rata of the *)
(* supply at deposit time.  Epoch ids count from 1; lastClaimedEpoch is    *)
(* the number of epochs a holder has moved past.                           *)
(***************************************************************************)
EXTENDS Sums, Sequences

CONSTANTS
    Holders,
    Deposits,           \* amounts deposit() may be given
    MAX_CLAIM_BATCH,
    MaxEpochs,          \* bound on the number of deposits
    MaxBalance,         \* bound on a holder's initial balance
    MaxSupply           \* minting stops at this supply

ASSUME DividendAssumption ==
    /\ IsFiniteSet(Holders)
    /\ Deposits \subseteq Nat
    /\ MAX_CLAIM_BATCH \in Nat \ {0}
    /\ MaxEpochs \in Nat
    /\ MaxBalance \in Nat
    /\ MaxSupply \in Nat

VARIABLES
    epochs,                 \* sequence of [totalAmount, totalSupplySnapshot]
    epochClaimed,           \* set of <<epoch, holder>>
    holderSnapshots,        \* balance registered per epoch and holder
    snapshotTaken,          \* set of <<epoch, holder>>
    totalClaimedByHolder,
    lastClaimedEpoch,
    usdcHeld,               \* usdc.balanceOf(distributor)
    balance,                \* token.balanceOf(holder)
    totalSupply             \* token.totalSupply()

shareVars == <<balance, totalSupply>>
claimVars == <<epochClaimed, totalClaimedByHolder, lastClaimedEpoch, usdcHeld>>
snapVars  == <<holderSnapshots, snapshotTaken>>
divVars   == <<epochs, claimVars, snapVars, shareVars>>

EpochIds == 1..MaxEpochs

DivInit ==
    /\ epochs = <<>>
    /\ epochClaimed = {}
    /\ holderSnapshots = [eh \in EpochIds \X Holders |-> 0]
    /\ snapshotTaken = {}
    /\ totalClaimedByHolder = [h \in Holders |-> 0]
    /\ lastClaimedEpoch = [h \in Holders |-> 0]
    /\ usdcHeld = 0
    /\ balance \in [Holders -> 0..MaxBalance]
    /\ totalSupply = Sum(balance)

-----------------------------------------------------------------------------
(* What epoch e is worth to a holder who registered a balance for it.      *)
Share(h, e) ==
    IF <<e, h>> \in snapshotTaken
    THEN (holderSnapshots[<<e, h>>] * epochs[e].totalAmount)
             \div epochs[e].totalSupplySnapshot
    ELSE 0

(* The epochs among E that _claimRange marks and pays.                     *)
Payable(h, E) ==
    {e \in E : <<e, h>> \notin epochClaimed /\ Share(h, e) > 0}

Owed(h, E) == Sum([e \in Payable(h, E) |-> Share(h, e)])

-----------------------------------------------------------------------------
Deposit(amount) ==
    /\ Len(epochs) < MaxEpochs
    /\ amount > 0
    /\ totalSupply > 0
    /\ usdcHeld' = usdcHeld + amount
    /\ epochs' = Append(epochs, [totalAmount |-> amount,
                                 totalSupplySnapshot |-> totalSupply])
    /\ UNCHANGED <<epochClaimed, totalClaimedByHolder, lastClaimedEpoch,
                   snapVars, shareVars>>

SnapshotBalance(h, e) ==
    /\ e <= Len(epochs)
    /\ <<e, h>> \notin snapshotTaken
    /\ holderSnapshots' = [holderSnapshots EXCEPT ![<<e, h>>] = balance[h]]
    /\ snapshotTaken' = snapshotTaken \cup {<<e, h>>}
    /\ UNCHANGED <<epochs, claimVars, shareVars>>

(* Slip: the epochs paid are not marked.                                   *)
PaysUnmarked(h, E) ==
    LET owed == Owed(h, E)
    IN  /\ owed > 0
        /\ owed <= usdcHeld
        /\ totalClaimedByHolder' = [totalClaimedByHolder EXCEPT ![h] = @ + owed]
        /\ usdcHeld' = usdcHeld - owed
        /\ UNCHANGED epochClaimed

(* _claimRange and the payment that follows it in both callers.            *)
Pay(h, E) ==
    LET owed == Owed(h, E)
    IN  /\ owed > 0
        /\ owed <= usdcHeld
        /\ epochClaimed' = epochClaimed \cup (Payable(h, E) \X {h})
        /\ totalClaimedByHolder' = [totalClaimedByHolder EXCEPT ![h] = @ + owed]
        /\ usdcHeld' = usdcHeld - owed

ClaimEnd(h) ==
    LET batchEnd == lastClaimedEpoch[h] + MAX_CLAIM_BATCH
    IN  IF Len(epochs) > batchEnd THEN batchEnd ELSE Len(epochs)

ClaimWindow(h) == (lastClaimedEpoch[h] + 1)..ClaimEnd(h)

ClaimDividends(h) ==
    /\ Pay(h, ClaimWindow(h))
    /\ lastClaimedEpoch' = [lastClaimedEpoch EXCEPT ![h] = ClaimEnd(h)]
    /\ UNCHANGED <<epochs, snapVars, shareVars>>

ClaimRange(h, fromEpoch, toEpoch) ==
    /\ fromEpoch < toEpoch
    /\ toEpoch <= Len(epochs)
    /\ Pay(h, (fromEpoch + 1)..toEpoch)
    /\ lastClaimedEpoch' = [lastClaimedEpoch EXCEPT
           ![h] = IF toEpoch > @ THEN toEpoch ELSE @]
    /\ UNCHANGED <<epochs, snapVars, shareVars>>

(* The token: holders trade, the issuer mints.                             *)
TransferToken(from, to) ==
    /\ from # to
    /\ balance[from] > 0
    /\ balance' = [balance EXCEPT ![from] = @ - 1, ![to] = @ + 1]
    /\ UNCHANGED <<epochs, claimVars, snapVars, totalSupply>>

MintToken(h) ==
    /\ totalSupply < MaxSupply
    /\ balance' = [balance EXCEPT ![h] = @ + 1]
    /\ totalSupply' = totalSupply + 1
    /\ UNCHANGED <<epochs, claimVars, snapVars>>

DivNext ==
    \/ \E amount \in Deposits : Deposit(amount)
    \/ \E h \in Holders, e \in EpochIds : SnapshotBalance(h, e)
    \/ \E h \in Holders : ClaimDividends(h) \/ MintToken(h)
    \/ \E h \in Holders, from, to \in 0..MaxEpochs : ClaimRange(h, from, to)
    \/ \E from, to \in Holders : TransferToken(from, to)

DivSpec == DivInit /\ [][DivNext]_divVars

-----------------------------------------------------------------------------
EpochShares(e) == Sum([h \in Holders |-> Share(h, e)])

(* Each holder has been paid every claimed epoch's share exactly once,     *)
(* whichever mix of claim() and overlapping claimRange() calls paid it and *)
(* whatever was traded since the snapshot, and what is left of the         *)
(* deposits is in the contract.  An epoch whose registered balances are    *)
(* within the supply it was deposited for pays out at most its deposit:    *)
(* rounding gives nothing away.                                            *)
EpochsHonoured ==
    /\ \A h \in Holders :
          totalClaimedByHolder[h] =
              Sum([e \in {e \in EpochIds : <<e, h>> \in epochClaimed}
                       |-> Share(h, e)])
    /\ usdcHeld + Sum(totalClaimedByHolder) =
           Sum([e \in DOMAIN epochs |-> epochs[e].totalAmount])
    /\ \A e \in DOMAIN epochs :
          Sum([h \in Holders |-> holderSnapshots[<<e, h>>]])
              <= epochs[e].totalSupplySnapshot
          => EpochShares(e) <= epochs[e].totalAmount
=============================================================================
