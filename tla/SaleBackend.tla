---------------------------- MODULE SaleBackend ----------------------------
(***************************************************************************)
(* The backend's record of one sale: the token_sales row and its           *)
(* contributions (apps/api/services/sale_contribute_service.py, the OTC    *)
(* and withdrawal endpoints) beside the sale contract, with the event      *)
(* listener that polls the chain (event_listener_service.py).  The chain   *)
(* is Crowdfund, which the sale contract implements (module Sale), plus    *)
(* the events it emits, one per block.                                     *)
(*                                                                         *)
(* A request is a job in a slot.  It reads in one step and commits in a    *)
(* later one, with awaits in between, so the jobs of two slots interleave. *)
(* SELECT ... FOR UPDATE makes a contribution's last read and its commit   *)
(* one step; a withdrawal keeps the row locked across its transfer.        *)
(* A request the code refuses leaves no trace: its slot is free again.     *)
(***************************************************************************)
EXTENDS Crowdfund, Sequences, Sums

CONSTANTS
    Linked,             \* backers with a linked wallet
    Txs,                \* hashes of contribute() transactions
    Otcs,               \* references of OTC allocations
    Slots,              \* requests the API serves at a time
    Listener,           \* the event listener's own session
    minContribution, maxContribution,
    PollRange,          \* POLL_BLOCK_RANGE
    Lookback,           \* blocks to go back when Redis has no last block
    IssuerWallet,       \* the issuer has a wallet to withdraw to
    Faults,             \* RPC and Redis calls may fail
    MaxBlocks,          \* bound on the length of the chain
    MaxPaid             \* bound on what withdrawals pay

ASSUME BackendAssumption ==
    /\ IsFiniteSet(Txs \cup Otcs)
    /\ Linked \subseteq Backers
    /\ Txs \cap Otcs = {}
    /\ Listener \notin Slots
    /\ Sums \subseteq Nat
    /\ {goal, limit, minContribution, maxContribution, PollRange, Lookback,
        MaxBlocks, MaxPaid} \subseteq Nat
    /\ {IssuerWallet, Faults} \subseteq BOOLEAN

VARIABLES
    mined,              \* per hash: who contributed how much, or NoTx
    otc,                \* per backer: its OTC allocation on the chain
    log,                \* the events of the sale contract, one per block
    saleStatus, total_raised, total_withdrawn,      \* the token_sales row
    rows,               \* contributions, by hash or reference
    paid,               \* USDC transferred to the issuer by withdrawals
    job,                \* per session: what it has read and will commit
    last_synced_block, poll

chainVars   == <<cfVars, mined, otc, log>>
saleRow     == <<saleStatus, total_raised, total_withdrawn>>
dbVars      == <<saleRow, rows>>
pollVars    == <<last_synced_block, poll>>
backendVars == <<chainVars, dbVars, paid, job, pollVars>>

Ids      == Txs \cup Otcs
Sessions == Slots \cup {Listener}

Wallet   == [owner : Backers, form : {"checksum", "lower"}]
NoWallet == [owner |-> "none", form |-> "none"]
NoTx     == [user |-> "none", amount |-> 0]
NoRow    == [user |-> "none", amount |-> 0, status |-> "none",
             wallet |-> NoWallet]
Row      == [user : Backers, amount : Nat,
             status : {"pending", "confirmed", "claimed", "refunded"},
             wallet : Wallet \cup {NoWallet}]

Idle                == [kind |-> "idle"]
Record(t, u, n, w)  == [kind |-> "contribute", tx |-> t, user |-> u,
                        amount |-> n, wallet |-> w]
Write(R, s)         == [kind |-> "write", rows |-> R, to |-> s]
Decide(success)     == [kind |-> "finalize", success |-> success,
                        confirms |-> {}, ready |-> ~success]
Transfer(n)         == [kind |-> "withdraw", amount |-> n]

(* The sale is deployed and an operator has set its row to active: no code *)
(* of the backend does.                                                    *)
BackendInit ==
    /\ CFInit
    /\ mined = [t \in Txs |-> NoTx]
    /\ otc = [u \in Backers |-> "none"]
    /\ log = <<>>
    /\ saleStatus = "active"
    /\ total_raised = 0
    /\ total_withdrawn = 0
    /\ rows = [t \in Ids |-> NoRow]
    /\ paid = 0
    /\ job = [s \in Sessions |-> Idle]
    /\ last_synced_block = 0
    /\ poll = Idle

-----------------------------------------------------------------------------
(* The chain.                                                              *)

Emit(name, u, t) ==
    /\ Len(log) < MaxBlocks
    /\ log' = Append(log, [name |-> name, user |-> u, tx |-> t])

ChainContribute(u, n, t) ==
    /\ mined[t] = NoTx
    /\ n >= minContribution
    /\ pledged[u] + n <= maxContribution
    /\ Pledge(u, n)
    /\ mined' = [mined EXCEPT ![t] = [user |-> u, amount |-> n]]
    /\ Emit("ContributionMade", u, t)
    /\ UNCHANGED <<otc, dbVars, paid, job, pollVars>>

ChainAllocate(u) ==
    /\ outcome = "open"
    /\ otc' = [otc EXCEPT ![u] = "allocated"]
    /\ Emit("OTCAllocation", u, "none")
    /\ UNCHANGED <<cfVars, mined, dbVars, paid, job, pollVars>>

ChainFinalize ==
    /\ Settle
    /\ Emit("SaleFinalized", "none", "none")
    /\ UNCHANGED <<mined, otc, dbVars, paid, job, pollVars>>

ChainRefund(u) ==
    /\ Refund(u)
    /\ Emit("RefundClaimed", u, "none")
    /\ UNCHANGED <<mined, otc, dbVars, paid, job, pollVars>>

(* claimTokens() of a direct sale: a buyer's tokens were delivered, and    *)
(* marked as claimed, with the contribution.                               *)
ChainClaim(u) ==
    /\ outcome = "funded"
    /\ otc[u] = "allocated"
    /\ pledged[u] = 0
    /\ otc' = [otc EXCEPT ![u] = "claimed"]
    /\ Emit("TokensClaimed", u, "none")
    /\ UNCHANGED <<cfVars, mined, dbVars, paid, job, pollVars>>

-----------------------------------------------------------------------------
(* contribute.                                                             *)

(* A withdrawal in progress holds the lock on the sale's row.              *)
Unlocked == \A s \in Slots : job[s].kind # "withdraw"

Start(s, j) == job[s] = Idle /\ job' = [job EXCEPT ![s] = j]
End(s)      == job' = [job EXCEPT ![s] = Idle]

(* Slip: the sender is not compared with the user's wallets.               *)
ContributeForAnyone(s, u, t) ==
    LET e == mined[t]
    IN  /\ rows[t] = NoRow
        /\ e # NoTx
        /\ Start(s, Record(t, u, e.amount,
                           [owner |-> e.user, form |-> "checksum"]))
        /\ UNCHANGED <<chainVars, dbVars, paid, pollVars>>

(* The duplicate check, then _verify_on_chain: the event's data if the     *)
(* transaction is found and its sender is one of the user's wallets (or    *)
(* the user has none); what the request says, and no wallet, if there is   *)
(* no such event or the node does not answer.                              *)
Verified(u, t) == mined[t] # NoTx /\ (u \in Linked => mined[t].user = u)

ContributeVerified(s, u, t) ==
    LET e == mined[t]
    IN  /\ rows[t] = NoRow
        /\ Verified(u, t)
        /\ Start(s, Record(t, u, e.amount,
                           [owner |-> e.user, form |-> "checksum"]))
        /\ UNCHANGED <<chainVars, dbVars, paid, pollVars>>

ContributeUnverified(s, u, t, n) ==
    /\ rows[t] = NoRow
    /\ Faults \/ mined[t] = NoTx
    /\ Start(s, Record(t, u, n, NoWallet))
    /\ UNCHANGED <<chainVars, dbVars, paid, pollVars>>

getContribution(w) == pledged[w.owner]

(* _get_on_chain_cumulative: contributions[wallet].amount plus the new     *)
(* amount.                                                                 *)
OnChainCumulative(w, n) == getContribution(w) + n

UserTotal(u) ==
    Sum([t \in Ids |-> IF rows[t].user = u THEN rows[t].amount ELSE 0])

(* The maximum is checked on the chain's figure; on the database's own     *)
(* if there is no wallet to ask for or the node does not answer.           *)
WithinMaximum(u, n, w) ==
    \/ maxContribution = 0
    \/ w # NoWallet /\ OnChainCumulative(w, n) <= maxContribution
    \/ /\ w = NoWallet \/ Faults
       /\ UserTotal(u) + n <= maxContribution

(* Slips: tx_hash without its unique constraint, and the status looked at  *)
(* before the row is locked only.                                          *)
AcceptsDuplicate(j) ==
    /\ saleStatus = "active"
    /\ minContribution > 0 => j.amount >= minContribution
    /\ WithinMaximum(j.user, j.amount, j.wallet)
    /\ limit > 0 => total_raised + j.amount <= limit

AcceptsLate(j) ==
    /\ minContribution > 0 => j.amount >= minContribution
    /\ WithinMaximum(j.user, j.amount, j.wallet)
    /\ limit > 0 => total_raised + j.amount <= limit
    /\ rows[j.tx] = NoRow

Accepts(j) ==
    /\ saleStatus = "active"
    /\ minContribution > 0 => j.amount >= minContribution
    /\ WithinMaximum(j.user, j.amount, j.wallet)
    /\ limit > 0 => total_raised + j.amount <= limit
    /\ rows[j.tx] = NoRow

(* Under the lock: the checks, the new row and the total in one commit.    *)
ContributeCommit(s) ==
    LET j == job[s]
    IN  /\ j.kind = "contribute"
        /\ Unlocked
        /\ Accepts(j)
        /\ rows' = [rows EXCEPT ![j.tx] =
               [user   |-> j.user, amount |-> j.amount,
                status |-> IF j.wallet = NoWallet THEN "pending"
                                                  ELSE "confirmed",
                wallet |-> j.wallet]]
        /\ total_raised' = total_raised + j.amount
        /\ End(s)
        /\ UNCHANGED <<chainVars, saleStatus, total_withdrawn, paid, pollVars>>

(* Any request may end without a commit: refused, or its connection lost.  *)
GiveUp(s) ==
    /\ job[s].kind \in {"contribute", "write", "finalize"}
    /\ End(s)
    /\ UNCHANGED <<chainVars, dbVars, paid, pollVars>>

-----------------------------------------------------------------------------
(* finalize_sale, claim_tokens, claim_refund.                              *)

FinalizeRead(s) ==
    /\ saleStatus = "active"
    /\ Start(s, Decide(total_raised >= goal))
    /\ UNCHANGED <<chainVars, dbVars, paid, pollVars>>

(* Rows that an uncommitted finalization has updated, and so locked.       *)
LockedRows == UNION {job[s].confirms : s \in {x \in Slots :
                                              job[x].kind = "finalize"}}

Confirm(s, R) ==
    /\ job[s].kind = "finalize"
    /\ ~job[s].ready
    /\ R \cap LockedRows = {}
    /\ job' = [job EXCEPT ![s].confirms = R, ![s].ready = TRUE]
    /\ UNCHANGED <<chainVars, dbVars, paid, pollVars>>

(* Slips: the confirmation is not limited to what is pending; it passes    *)
(* over the contributions that were not verified.                          *)
ConfirmsAll(s) == Confirm(s, {t \in Ids : rows[t] # NoRow})

ConfirmsVerified(s) ==
    Confirm(s, {t \in Ids : /\ rows[t].status = "pending"
                            /\ rows[t].wallet # NoWallet})

(* A finalization that succeeds first confirms what is pending.  Sessions  *)
(* do not flush by themselves (packages/common/db/session.py), so that the *)
(* sale's new status is written, and its row locked, at the commit only.   *)
FinalizeConfirm(s) == Confirm(s, {t \in Ids : rows[t].status = "pending"})

FinalizeCommit(s) ==
    LET j == job[s]
    IN  /\ j.kind = "finalize"
        /\ j.ready
        /\ Unlocked
        /\ saleStatus' = IF j.success THEN "finalized" ELSE "failed"
        /\ rows' = [t \in Ids |->
               IF t \in j.confirms
               THEN [rows[t] EXCEPT !.status = "confirmed"] ELSE rows[t]]
        /\ End(s)
        /\ UNCHANGED <<chainVars, total_raised, total_withdrawn, paid,
                       pollVars>>

RowsOf(u, S) == {t \in Ids : rows[t].user = u /\ rows[t].status \in S}

(* The claim endpoint passes no transaction, so nothing is verified.       *)
ClaimRead(s, u) ==
    LET R == RowsOf(u, {"confirmed"})
    IN  /\ R # {}
        /\ Start(s, Write(R, "claimed"))
        /\ UNCHANGED <<chainVars, dbVars, paid, pollVars>>

(* A refund's transaction is optional and a node that does not answer is   *)
(* ignored: the status of the sale is the only condition.                  *)
RefundRead(s, u) ==
    LET R == RowsOf(u, {"pending", "confirmed"})
    IN  /\ saleStatus = "failed"
        /\ R # {}
        /\ Start(s, Write(R, "refunded"))
        /\ UNCHANGED <<chainVars, dbVars, paid, pollVars>>

(* The rows read get their new status, whatever has become of them.        *)
WriteCommit(s) ==
    LET j == job[s]
    IN  /\ j.kind = "write"
        /\ j.rows \cap LockedRows = {}
        /\ rows' = [t \in Ids |->
               IF t \in j.rows THEN [rows[t] EXCEPT !.status = j.to]
                               ELSE rows[t]]
        /\ End(s)
        /\ UNCHANGED <<chainVars, saleRow, paid, pollVars>>

(* otc_allocate: a confirmed row without money, in any state of the sale,  *)
(* with the wallet as the user spelled it when linking it.  The new row's  *)
(* foreign key waits for the lock on the sale.                             *)
OtcAllocate(u, t, form) ==
    /\ Unlocked
    /\ u \in Linked
    /\ rows[t] = NoRow
    /\ rows' = [rows EXCEPT ![t] =
           [user |-> u, amount |-> 0, status |-> "confirmed",
            wallet |-> [owner |-> u, form |-> form]]]
    /\ UNCHANGED <<chainVars, saleRow, paid, job, pollVars>>

-----------------------------------------------------------------------------
(* execute_withdrawal.                                                     *)

(* Slip: the row is read without a lock.                                   *)
WithdrawUnlocked(s, n) ==
    /\ saleStatus = "finalized"
    /\ n > 0
    /\ n <= total_raised - total_withdrawn
    /\ paid + n <= MaxPaid
    /\ Start(s, Transfer(n))
    /\ UNCHANGED <<chainVars, dbVars, paid, pollVars>>

WithdrawLock(s, n) ==
    /\ Unlocked
    /\ saleStatus = "finalized"
    /\ n > 0
    /\ n <= total_raised - total_withdrawn
    /\ paid + n <= MaxPaid
    /\ Start(s, Transfer(n))
    /\ UNCHANGED <<chainVars, dbVars, paid, pollVars>>

(* Without a wallet nothing is transferred, and the amount recorded.       *)
Transferred(s) == IF IssuerWallet THEN job[s].amount ELSE 0

WithdrawPaid(s) ==
    /\ job[s].kind = "withdraw"
    /\ paid' = paid + Transferred(s)
    /\ total_withdrawn' = total_withdrawn + job[s].amount
    /\ End(s)
    /\ UNCHANGED <<chainVars, saleStatus, total_raised, rows, pollVars>>

(* The transfer failed, or it was mined and the receipt did not come in    *)
(* time (or the process died before the commit): nothing is recorded.      *)
WithdrawFailed(s) ==
    /\ Faults
    /\ job[s].kind = "withdraw"
    /\ paid' \in {paid, paid + Transferred(s)}
    /\ End(s)
    /\ UNCHANGED <<chainVars, dbVars, pollVars>>

-----------------------------------------------------------------------------
(* The event listener: poll_events every few seconds, in one loop.         *)

Least(S) == CHOOSE x \in S : \A y \in S : x <= y

(* Without Redis the poll starts Lookback blocks before the latest.        *)
PollBegin ==
    LET latest == Len(log)
        back   == IF latest > Lookback THEN latest - Lookback ELSE 0
    IN  \E from \in {last_synced_block} \cup (IF Faults THEN {back} ELSE {}) :
            /\ poll = Idle
            /\ from < latest
            /\ poll' = [kind |-> "poll", from |-> from,
                        to   |-> Least({from + PollRange, latest}),
                        pos  |-> from + 1,
                        left |-> <<"TokensClaimed", "RefundClaimed">>]
            /\ UNCHANGED <<chainVars, dbVars, paid, job, last_synced_block>>

Logs(p) == {b \in DOMAIN log : /\ p.pos <= b
                              /\ b <= p.to
                              /\ log[b].name = Head(p.left)}

(* _handle_sale_event.  A ContributionMade is only logged.  SaleFinalized  *)
(* is declared with (uint256, bool) where the contract emits (bool,        *)
(* uint256, uint256), so that no log matches it.  The claimer's address is *)
(* lowered and compared with the wallet as stored, over all rows.          *)
Matching(u, S) ==
    {t \in Ids : /\ rows[t].wallet = [owner |-> u, form |-> "lower"]
                 /\ rows[t].status \in S}

PollEvent ==
    /\ poll # Idle
    /\ poll.left # <<>>
    /\ Logs(poll) # {}
    /\ LET b == Least(Logs(poll))
           u == log[b].user
       IN  /\ poll' = [poll EXCEPT !.pos = b + 1]
           /\ Start(Listener,
                    IF log[b].name = "TokensClaimed"
                    THEN Write(Matching(u, {"confirmed"}), "claimed")
                    ELSE Write(Matching(u, {"pending", "confirmed"}),
                               "refunded"))
    /\ UNCHANGED <<chainVars, dbVars, paid, last_synced_block>>

(* The events of this name are done, or an exception drops the rest.       *)
PollName ==
    /\ poll # Idle
    /\ poll.left # <<>>
    /\ job[Listener] = Idle
    /\ Faults \/ Logs(poll) = {}
    /\ poll' = [poll EXCEPT !.left = Tail(@), !.pos = poll.from + 1]
    /\ UNCHANGED <<chainVars, dbVars, paid, job, last_synced_block>>

PollEnd ==
    /\ poll # Idle
    /\ poll.left = <<>>
    /\ poll' = Idle
    /\ \/ last_synced_block' = poll.to
       \/ Faults /\ UNCHANGED last_synced_block
    /\ UNCHANGED <<chainVars, dbVars, paid, job>>

-----------------------------------------------------------------------------
ChainNext ==
    \/ \E u \in Backers, n \in Sums, t \in Txs : ChainContribute(u, n, t)
    \/ ChainFinalize
    \/ \E u \in Backers : ChainAllocate(u) \/ ChainRefund(u) \/ ChainClaim(u)

RequestNext(s) ==
    \/ \E u \in Backers, t \in Txs : ContributeVerified(s, u, t)
    \/ \E u \in Backers, t \in Txs, n \in Sums :
           ContributeUnverified(s, u, t, n)
    \/ ContributeCommit(s)
    \/ GiveUp(s)
    \/ FinalizeRead(s) \/ FinalizeConfirm(s) \/ FinalizeCommit(s)
    \/ \E u \in Backers : ClaimRead(s, u) \/ RefundRead(s, u)
    \/ WriteCommit(s)
    \/ \E n \in Sums : WithdrawLock(s, n)
    \/ WithdrawPaid(s) \/ WithdrawFailed(s)

ListenerNext ==
    PollBegin \/ PollEvent \/ PollName \/ PollEnd \/ WriteCommit(Listener)

BackendNext ==
    \/ ChainNext
    \/ \E s \in Slots : RequestNext(s)
    \/ \E u \in Backers, t \in Otcs, form \in {"checksum", "lower"} :
           OtcAllocate(u, t, form)
    \/ ListenerNext

BackendSpec == BackendInit /\ [][BackendNext]_backendVars

-----------------------------------------------------------------------------
(* Properties that hold whatever the interleaving and whatever fails.      *)

(* total_raised is the sum of the recorded contributions: however requests *)
(* for one transaction race, it is counted once.                           *)
RaisedIsSum == total_raised = Sum([t \in Ids |-> rows[t].amount])

(* Contributions checked and committed under the row lock never carry the  *)
(* sale over its hard cap, verified or not; nor do two withdrawals at a    *)
(* time take more than was raised, as the row stays locked from the check  *)
(* of what is available to the new total.                                  *)
WithinBounds ==
    /\ limit > 0 => total_raised <= limit
    /\ total_withdrawn <= total_raised

(* A contribution recorded with a wallet is the transaction of that        *)
(* wallet, with the amount the chain knows, and of a user it belongs to.   *)
VerifiedMatchChain ==
    \A t \in Txs :
        LET r == rows[t]
        IN  r.wallet # NoWallet =>
                /\ mined[t] = [user |-> r.wallet.owner, amount |-> r.amount]
                /\ r.user \in Linked => r.user = r.wallet.owner

(* A sale that is final takes no money any more, even from requests that   *)
(* were verified while it was active.                                      *)
NoLateMoney ==
    [][saleStatus # "active" => total_raised' = total_raised]_backendVars

(* A contribution that is claimed or refunded is never pending or          *)
(* confirmed again, so that no second claim or refund finds it.            *)
SettledStays ==
    [][\A t \in Ids : rows[t].status \in {"claimed", "refunded"} =>
                      rows'[t].status \in {"claimed", "refunded"}]_backendVars

(* Properties that hold while requests are served one at a time and        *)
(* nothing fails, and that interleaving or a fault breaks.                 *)

(* A final status is final: a finalized sale does not become a failed one, *)
(* nor a failed one finalized.                                             *)
FinalStatusStands ==
    [][saleStatus # "active" => saleStatus' = saleStatus]_backendVars

(* A sale whose contributions reach the soft cap is not a failed one, and  *)
(* finalizing it confirms every pending contribution, so that none is left *)
(* behind that nobody could claim or have refunded.                        *)
OutcomeFits ==
    /\ saleStatus = "failed" => total_raised < goal
    /\ saleStatus = "finalized" => \A t \in Ids : rows[t].status # "pending"

(* The issuer is never sent more than the sale's row says was withdrawn.   *)
PaidOnce == paid <= total_withdrawn
=============================================================================
