------------------------- MODULE SaleBackendProofs -------------------------
(* Theorems about the backend's record of a sale, for any backers, hashes, *)
(* caps, number of requests at a time and faults.                          *)
EXTENDS SaleBackend, SumTheorems

-----------------------------------------------------------------------------
(* The inductive invariant.  None of the properties stands alone: a sum is *)
(* kept because a hash has no row before its contribution commits, a       *)
(* withdrawal is covered because only one is under way, a settled row      *)
(* stays because finalizations hold locks on disjoint sets of pending rows,*)
(* and a row matches the chain because its job did, and mined transactions *)
(* do not change.                                                          *)

Wallets    == Wallet \cup {NoWallet}
DbRow      == [user : Backers \cup {"none"}, amount : Nat,
               status : {"none", "pending", "confirmed", "claimed", "refunded"},
               wallet : Wallets]
ChainTx    == [user : Backers, amount : Nat] \cup {NoTx}
Recording  == [kind : {"contribute"}, tx : Txs, user : Backers, amount : Nat,
               wallet : Wallets]
Writing    == [kind : {"write"}, rows : SUBSET Ids, to : {"claimed", "refunded"}]
Finalizing == [kind : {"finalize"}, success : BOOLEAN, confirms : SUBSET Ids,
               ready : BOOLEAN]
Paying     == [kind : {"withdraw"}, amount : Nat]
Job        == {Idle} \cup Recording \cup Writing \cup Finalizing \cup Paying

RecordTyped ==
    /\ rows \in [Ids -> DbRow]
    /\ mined \in [Txs -> ChainTx]
    /\ total_raised \in Nat
    /\ total_withdrawn \in Nat

JobsTyped == job \in [Sessions -> Job]

(* At most one withdrawal is under way, and what it will record is there.  *)
OneWithdrawal ==
    /\ \A s, r \in Slots :
           job[s].kind = "withdraw" /\ job[r].kind = "withdraw" => s = r
    /\ \A s \in Slots :
           job[s].kind = "withdraw" =>
               total_withdrawn + job[s].amount <= total_raised
    /\ job[Listener].kind # "withdraw"

(* What a finalization has confirmed is still pending, and its own.        *)
ConfirmsPending ==
    /\ \A s \in Slots : job[s].kind = "finalize" =>
           \A t \in job[s].confirms : rows[t].status = "pending"
    /\ \A s, r \in Slots :
           (s # r /\ job[s].kind = "finalize" /\ job[r].kind = "finalize")
               => job[s].confirms \cap job[r].confirms = {}
    /\ job[Listener].kind # "finalize"

(* A wallet is known only of a transaction that was mined.                 *)
Genuine(t, u, n, w) ==
    w # NoWallet => /\ mined[t] # NoTx
                    /\ mined[t] = [user |-> w.owner, amount |-> n]
                    /\ u \in Linked => u = w.owner

JobsGenuine ==
    \A s \in Sessions : job[s].kind = "contribute" =>
        Genuine(job[s].tx, job[s].user, job[s].amount, job[s].wallet)

RowsGenuine ==
    \A t \in Txs :
        Genuine(t, rows[t].user, rows[t].amount, rows[t].wallet)

BackendInv ==
    /\ RecordTyped
    /\ JobsTyped
    /\ RaisedIsSum
    /\ WithinBounds
    /\ OneWithdrawal
    /\ ConfirmsPending
    /\ JobsGenuine
    /\ RowsGenuine

-----------------------------------------------------------------------------
(* Lemmas.                                                                 *)

LEMMA IdsFinite == IsFiniteSet(Ids) /\ Txs \subseteq Ids /\ Otcs \subseteq Ids
  BY BackendAssumption DEF Ids

LEMMA InitSound == BackendInit => BackendInv
<1> SUFFICES ASSUME BackendInit PROVE BackendInv
  OBVIOUS
<1> USE DEF BackendInit
<1>1. RecordTyped
  BY IdsFinite DEF RecordTyped, DbRow, ChainTx, Wallets, NoRow, NoTx
<1>2. JobsTyped
  BY DEF JobsTyped, Job
<1>3. RaisedIsSum
  <2> DEFINE f == [t \in Ids |-> rows[t].amount]
  <2>1. f \in [Ids -> Nat] /\ \A t \in Ids : f[t] = 0
    BY DEF NoRow
  <2>2. Sum(f) = 0
    BY <2>1, SumZero
  <2> QED
    BY <2>2 DEF RaisedIsSum
<1>4. WithinBounds
  BY BackendAssumption DEF WithinBounds
<1>5. OneWithdrawal /\ ConfirmsPending /\ JobsGenuine
  BY DEF OneWithdrawal, ConfirmsPending, JobsGenuine, Idle, Sessions
<1>6. RowsGenuine
  BY IdsFinite DEF RowsGenuine, Genuine, NoRow
<1> QED
  BY <1>1, <1>2, <1>3, <1>4, <1>5, <1>6 DEF BackendInv

(* Steps that change no amount keep the sum.                               *)
LEMMA SumKept ==
    ASSUME RecordTyped, RaisedIsSum, total_raised' = total_raised,
           \A t \in Ids : rows'[t].amount = rows[t].amount
    PROVE  RaisedIsSum'
<1>1. [t \in Ids |-> rows'[t].amount] = [t \in Ids |-> rows[t].amount]
  OBVIOUS
<1> QED
  BY <1>1 DEF RaisedIsSum

(* The chain moves on: what was mined stays mined.                         *)
LEMMA ChainSound ==
    ASSUME BackendInv, ChainNext
    PROVE  BackendInv'
<1> USE DEF BackendInv
<1>1. UNCHANGED <<dbVars, job>>
  BY DEF ChainNext, ChainContribute, ChainFinalize, ChainAllocate,
         ChainRefund, ChainClaim
<1>2. /\ mined' \in [Txs -> ChainTx]
      /\ \A t \in Txs : mined[t] # NoTx => mined'[t] = mined[t]
  <2>1. ASSUME NEW u \in Backers, NEW n \in Sums, NEW t \in Txs,
               ChainContribute(u, n, t)
        PROVE  <1>2!:
    BY <2>1, BackendAssumption DEF ChainContribute, RecordTyped, ChainTx
  <2>2. ASSUME mined' = mined PROVE <1>2!:
    BY <2>2 DEF RecordTyped
  <2> QED
    BY <2>1, <2>2 DEF ChainNext, ChainFinalize, ChainAllocate, ChainRefund,
                      ChainClaim
<1>3. UNCHANGED <<rows, job, saleStatus, total_raised, total_withdrawn>>
  BY <1>1 DEF dbVars, saleRow
<1>4. RecordTyped' /\ JobsTyped'
  BY <1>2, <1>3 DEF RecordTyped, JobsTyped
<1>5. RaisedIsSum' /\ WithinBounds' /\ OneWithdrawal' /\ ConfirmsPending'
  BY <1>3 DEF RaisedIsSum, WithinBounds, OneWithdrawal, ConfirmsPending
<1>6. JobsGenuine'
  <2> SUFFICES ASSUME NEW s \in Sessions, job[s].kind = "contribute"
               PROVE  Genuine(job[s].tx, job[s].user, job[s].amount,
                              job[s].wallet)'
    BY <1>3 DEF JobsGenuine, Genuine
  <2>1. job[s].tx \in Txs
    BY DEF JobsTyped, Job, Idle, Recording, Writing, Finalizing, Paying
  <2> QED
    BY <1>2, <1>3, <2>1 DEF JobsGenuine, Genuine
<1>7. RowsGenuine'
  BY <1>2, <1>3 DEF RowsGenuine, Genuine
<1> QED
  BY <1>4, <1>5, <1>6, <1>7

(* A request that starts leaves the record alone; so does one that ends.   *)
LEMMA JobSound ==
    ASSUME BackendInv, NEW s \in Sessions, NEW j \in Job,
           job' = [job EXCEPT ![s] = j],
           UNCHANGED <<rows, mined, total_raised, total_withdrawn>>,
           j.kind = "contribute" =>
               Genuine(j.tx, j.user, j.amount, j.wallet),
           j.kind = "withdraw" =>
               /\ s \in Slots /\ Unlocked
               /\ total_withdrawn + j.amount <= total_raised,
           j.kind = "finalize" => s \in Slots /\ j.confirms = {}
    PROVE  BackendInv'
<1> USE DEF BackendInv
<1>1. RecordTyped'
  BY DEF RecordTyped
<1>2. /\ JobsTyped'
      /\ job'[s] = j
      /\ \A r \in Sessions \ {s} : job'[r] = job[r]
  BY DEF JobsTyped
<1>3. RaisedIsSum' /\ WithinBounds' /\ RowsGenuine'
  BY DEF RaisedIsSum, WithinBounds, RowsGenuine, Genuine
<1>4. OneWithdrawal'
  BY <1>2, BackendAssumption DEF OneWithdrawal, Unlocked, Sessions
<1>5. ConfirmsPending'
  BY <1>2, BackendAssumption DEF ConfirmsPending, Sessions
<1>6. JobsGenuine'
  BY <1>2 DEF JobsGenuine, Genuine
<1> QED
  BY <1>1, <1>2, <1>3, <1>4, <1>5, <1>6

LEMMA IdleSound ==
    ASSUME BackendInv, NEW s \in Sessions, End(s),
           UNCHANGED <<rows, mined, total_raised, total_withdrawn>>
    PROVE  BackendInv'
<1>1. Idle \in Job /\ Idle.kind = "idle"
  BY DEF Job, Idle
<1> QED
  BY <1>1, JobSound DEF End

(* Which requests a session may serve.                                     *)
LEMMA JobFields ==
    ASSUME JobsTyped, NEW s \in Sessions
    PROVE  /\ job[s].kind = "contribute" => job[s] \in Recording
           /\ job[s].kind = "write" => job[s] \in Writing
           /\ job[s].kind = "finalize" => job[s] \in Finalizing
           /\ job[s].kind = "withdraw" => job[s] \in Paying
  BY DEF JobsTyped, Job, Idle, Recording, Writing, Finalizing, Paying

LEMMA StartSound ==
    ASSUME BackendInv, NEW s \in Slots,
           \/ \E u \in Backers, t \in Txs : ContributeVerified(s, u, t)
           \/ \E u \in Backers, t \in Txs, n \in Sums :
                  ContributeUnverified(s, u, t, n)
           \/ FinalizeRead(s)
           \/ \E u \in Backers : ClaimRead(s, u) \/ RefundRead(s, u)
           \/ \E n \in Sums : WithdrawLock(s, n)
    PROVE  BackendInv'
<1> USE DEF Start, chainVars, dbVars, saleRow
<1>0. s \in Sessions /\ JobsTyped /\ RecordTyped
  BY DEF Sessions, BackendInv
<1>1. ASSUME NEW u \in Backers, NEW t \in Txs, ContributeVerified(s, u, t)
      PROVE  BackendInv'
  <2> DEFINE e == mined[t]
             w == [owner |-> e.user, form |-> "checksum"]
             j == Record(t, u, e.amount, w)
  <2>1. /\ e \in [user : Backers, amount : Nat] /\ e # NoTx
        /\ u \in Linked => u = e.user
    BY <1>0, <1>1 DEF ContributeVerified, Verified, RecordTyped, ChainTx
  <2>2. w \in Wallet /\ w # NoWallet /\ w.owner = e.user
    BY <2>1 DEF Wallet, NoWallet
  <2> HIDE DEF w
  <2>3. /\ j \in Job /\ j.kind = "contribute" /\ j.tx = t /\ j.user = u
        /\ j.amount = e.amount /\ j.wallet = w
    BY <2>1, <2>2 DEF Record, Job, Recording, Wallets
  <2>4. Genuine(j.tx, j.user, j.amount, j.wallet)
    BY <2>1, <2>2, <2>3 DEF Genuine
  <2>5. job' = [job EXCEPT ![s] = j]
    BY <1>1 DEF ContributeVerified, w
  <2>6. UNCHANGED <<rows, mined, total_raised, total_withdrawn>>
    BY <1>1 DEF ContributeVerified
  <2> HIDE DEF j
  <2> QED
    BY <1>0, <2>3, <2>4, <2>5, <2>6, JobSound
<1>2. ASSUME NEW u \in Backers, NEW t \in Txs, NEW n \in Sums,
             ContributeUnverified(s, u, t, n)
      PROVE  BackendInv'
  <2> DEFINE j == Record(t, u, n, NoWallet)
  <2>1. j \in Job /\ j.kind = "contribute" /\ j.wallet = NoWallet
    BY BackendAssumption DEF Record, Job, Recording, Wallets
  <2>2. Genuine(j.tx, j.user, j.amount, j.wallet)
    BY <2>1 DEF Genuine
  <2>3. job' = [job EXCEPT ![s] = j]
    BY <1>2 DEF ContributeUnverified
  <2>4. UNCHANGED <<rows, mined, total_raised, total_withdrawn>>
    BY <1>2 DEF ContributeUnverified
  <2> HIDE DEF j
  <2> QED
    BY <1>0, <2>1, <2>2, <2>3, <2>4, JobSound
<1>3. ASSUME FinalizeRead(s) PROVE BackendInv'
  <2> DEFINE j == Decide(total_raised >= goal)
  <2>1. j \in Job /\ j.kind = "finalize" /\ j.confirms = {}
    BY DEF Decide, Job, Finalizing
  <2>2. job' = [job EXCEPT ![s] = j]
    BY <1>3 DEF FinalizeRead
  <2>3. UNCHANGED <<rows, mined, total_raised, total_withdrawn>>
    BY <1>3 DEF FinalizeRead
  <2> HIDE DEF j
  <2> QED
    BY <1>0, <2>1, <2>2, <2>3, JobSound
<1>4. ASSUME NEW u \in Backers, ClaimRead(s, u) \/ RefundRead(s, u)
      PROVE  BackendInv'
  <2>1. PICK R \in SUBSET Ids, to \in {"claimed", "refunded"} :
            job' = [job EXCEPT ![s] = Write(R, to)]
    BY <1>4 DEF ClaimRead, RefundRead, RowsOf
  <2>2. Write(R, to) \in Job /\ Write(R, to).kind = "write"
    BY DEF Write, Job, Writing
  <2>3. UNCHANGED <<rows, mined, total_raised, total_withdrawn>>
    BY <1>4 DEF ClaimRead, RefundRead
  <2> QED
    BY <1>0, <2>1, <2>2, <2>3, JobSound
<1>5. ASSUME NEW n \in Sums, WithdrawLock(s, n) PROVE BackendInv'
  <2> DEFINE j == Transfer(n)
  <2>1. j \in Job /\ j.kind = "withdraw" /\ j.amount = n /\ n \in Nat
    BY BackendAssumption DEF Transfer, Job, Paying
  <2>2. job' = [job EXCEPT ![s] = j]
    BY <1>5 DEF WithdrawLock
  <2>3. UNCHANGED <<rows, mined, total_raised, total_withdrawn>>
    BY <1>5 DEF WithdrawLock
  <2>4. Unlocked /\ total_withdrawn + j.amount <= total_raised
    BY <1>0, <1>5, <2>1 DEF WithdrawLock, RecordTyped
  <2> HIDE DEF j
  <2> QED
    BY <1>0, <2>1, <2>2, <2>3, <2>4, JobSound
<1> QED
  BY <1>1, <1>2, <1>3, <1>4, <1>5

(* Under the lock a contribution adds its row and its amount.              *)
LEMMA ContributeSound ==
    ASSUME BackendInv, NEW s \in Slots, ContributeCommit(s)
    PROVE  BackendInv'
<1> DEFINE j == job[s]
           f == [t \in Ids |-> rows[t].amount]
           g == [t \in Ids |-> rows'[t].amount]
<1>0. /\ s \in Sessions /\ JobsTyped /\ RecordTyped /\ IsFiniteSet(Ids)
      /\ Txs \subseteq Ids
  BY IdsFinite DEF Sessions, BackendInv
<1>1. /\ j \in Recording /\ Accepts(j) /\ Unlocked
      /\ j.tx \in Txs /\ j.tx \in Ids /\ j.amount \in Nat
      /\ rows[j.tx] = NoRow
  BY <1>0, JobFields DEF ContributeCommit, Accepts, Recording
<1>2. /\ total_raised' = total_raised + j.amount
      /\ UNCHANGED <<mined, total_withdrawn>>
      /\ job' = [job EXCEPT ![s] = Idle]
  BY DEF ContributeCommit, End, chainVars
<1>3. PICK r \in DbRow :
          /\ rows' = [rows EXCEPT ![j.tx] = r]
          /\ r.user = j.user /\ r.amount = j.amount /\ r.wallet = j.wallet
          /\ r.status \in {"pending", "confirmed"}
  <2> DEFINE r == [user   |-> j.user, amount |-> j.amount,
                   status |-> IF j.wallet = NoWallet THEN "pending"
                                                     ELSE "confirmed",
                   wallet |-> j.wallet]
  <2>1. r \in DbRow
    BY <1>1 DEF DbRow, Recording
  <2>2. rows' = [rows EXCEPT ![j.tx] = r]
    BY DEF ContributeCommit
  <2> QED
    BY <2>1, <2>2
<1>4. /\ job'[s] = Idle /\ job' \in [Sessions -> Job]
      /\ \A x \in Sessions \ {s} : job'[x] = job[x]
  BY <1>0, <1>2 DEF JobsTyped, Job
<1>5. /\ rows'[j.tx] = r /\ rows' \in [Ids -> DbRow]
      /\ \A t \in Ids \ {j.tx} : rows'[t] = rows[t]
  BY <1>0, <1>1, <1>3 DEF RecordTyped
<1>6. RecordTyped' /\ JobsTyped'
  BY <1>0, <1>1, <1>2, <1>4, <1>5 DEF RecordTyped, JobsTyped
<1>7. RaisedIsSum'
  <2>1. f \in [Ids -> Nat] /\ g \in [Ids -> Nat]
    BY <1>0, <1>6 DEF RecordTyped, DbRow
  <2>2. /\ f[j.tx] = 0 /\ g[j.tx] = j.amount
        /\ \A t \in Ids \ {j.tx} : g[t] = f[t]
    BY <1>1, <1>3, <1>5 DEF NoRow
  <2> HIDE DEF f, g
  <2>3. Sum(g) = Sum(f) + (g[j.tx] - f[j.tx])
    BY <1>0, <1>1, <2>1, <2>2, SumChange
  <2>4. total_raised = Sum(f)
    BY DEF BackendInv, RaisedIsSum, f
  <2>5. total_raised' = Sum(g)
    BY <1>0, <1>1, <1>2, <2>2, <2>3, <2>4 DEF RecordTyped
  <2> QED
    BY <2>5 DEF RaisedIsSum, g
<1>8. WithinBounds'
  BY <1>0, <1>1, <1>2 DEF BackendInv, WithinBounds, Accepts, RecordTyped
<1>9. OneWithdrawal'
  <2>1. \A x \in Slots : job'[x].kind # "withdraw"
    BY <1>1, <1>4 DEF Unlocked, Sessions, Idle
  <2> QED
    BY <1>4, <2>1, BackendAssumption DEF BackendInv, OneWithdrawal, Sessions, Idle
<1>10. ConfirmsPending'
  <2>1. \A x \in Sessions : job'[x].kind = "finalize" => job'[x] = job[x]
    BY <1>4 DEF Idle
  <2>2. \A x \in Slots : job[x].kind = "finalize" => j.tx \notin job[x].confirms
    BY <1>1 DEF BackendInv, ConfirmsPending, NoRow
  <2>3. \A x \in Slots : job[x].kind = "finalize" => job[x].confirms \subseteq Ids
    BY <1>0, JobFields DEF Sessions, Finalizing
  <2> QED
    BY <1>5, <2>1, <2>2, <2>3 DEF BackendInv, ConfirmsPending, Sessions
<1>11. JobsGenuine'
  BY <1>2, <1>4 DEF BackendInv, JobsGenuine, Genuine, Idle
<1>12. RowsGenuine'
  <2>1. Genuine(j.tx, j.user, j.amount, j.wallet)
    BY <1>0 DEF BackendInv, JobsGenuine, ContributeCommit
  <2>2. ASSUME NEW t \in Txs
        PROVE  Genuine(t, rows[t].user, rows[t].amount, rows[t].wallet)'
    <3>1. CASE t = j.tx
      BY <1>2, <1>3, <1>5, <2>1, <3>1 DEF Genuine
    <3>2. CASE t # j.tx
      BY <1>0, <1>2, <1>5, <3>2 DEF BackendInv, RowsGenuine, Genuine
    <3> QED
      BY <3>1, <3>2
  <2> QED
    BY <2>2 DEF RowsGenuine
<1> QED
  BY <1>6, <1>7, <1>8, <1>9, <1>10, <1>11, <1>12 DEF BackendInv

(* A commit that gives rows a new status, rows no other finalization has   *)
(* locked, ends its request and leaves amounts and wallets alone.          *)
LEMMA RestampSound ==
    ASSUME BackendInv, NEW s \in Sessions, End(s), NEW R \in SUBSET Ids,
           NEW to \in {"confirmed", "claimed", "refunded"},
           rows' = [t \in Ids |-> IF t \in R
                                  THEN [rows[t] EXCEPT !.status = to]
                                  ELSE rows[t]],
           \A x \in Slots \ {s} :
               job[x].kind = "finalize" => R \cap job[x].confirms = {},
           UNCHANGED <<mined, total_raised, total_withdrawn>>
    PROVE  BackendInv'
<1>0. JobsTyped /\ RecordTyped /\ Txs \subseteq Ids
  BY IdsFinite DEF BackendInv
<1>1. /\ job'[s] = Idle /\ job' \in [Sessions -> Job]
      /\ \A x \in Sessions \ {s} : job'[x] = job[x]
  BY <1>0 DEF JobsTyped, Job, End
<1>2. /\ rows' \in [Ids -> DbRow]
      /\ \A t \in Ids : /\ rows'[t].user = rows[t].user
                        /\ rows'[t].amount = rows[t].amount
                        /\ rows'[t].wallet = rows[t].wallet
      /\ \A t \in Ids \ R : rows'[t] = rows[t]
  BY <1>0 DEF RecordTyped, DbRow
<1>3. RecordTyped' /\ JobsTyped'
  BY <1>0, <1>1, <1>2 DEF RecordTyped, JobsTyped
<1>4. RaisedIsSum'
  BY <1>0, <1>2, SumKept DEF BackendInv
<1>5. WithinBounds'
  BY DEF BackendInv, WithinBounds
<1>6. OneWithdrawal'
  BY <1>1, BackendAssumption DEF BackendInv, OneWithdrawal, Sessions, Idle
<1>7. ConfirmsPending'
  <2>1. \A x \in Sessions : job'[x].kind = "finalize" =>
            x # s /\ job'[x] = job[x]
    BY <1>1 DEF Idle
  <2>2. \A x \in Slots : job[x].kind = "finalize" => job[x].confirms \subseteq Ids
    BY <1>0, JobFields DEF Sessions, Finalizing
  <2>3. ASSUME NEW x \in Slots, job'[x].kind = "finalize",
               NEW t \in job'[x].confirms
        PROVE  rows'[t].status = "pending"
    <3>1. x \in Sessions
      BY DEF Sessions
    <3>2. x # s /\ job'[x] = job[x]
      BY <2>1, <2>3, <3>1
    <3>3. t \in Ids \ R
      BY <2>2, <2>3, <3>2
    <3> QED
      BY <1>2, <2>3, <3>2, <3>3 DEF BackendInv, ConfirmsPending
  <2> QED
    BY <2>1, <2>3, BackendAssumption DEF BackendInv, ConfirmsPending, Sessions
<1>8. JobsGenuine'
  BY <1>1 DEF BackendInv, JobsGenuine, Genuine, Idle
<1>9. RowsGenuine'
  BY <1>0, <1>2 DEF BackendInv, RowsGenuine, Genuine
<1> QED
  BY <1>3, <1>4, <1>5, <1>6, <1>7, <1>8, <1>9 DEF BackendInv

LEMMA WriteSound ==
    ASSUME BackendInv, NEW s \in Sessions, WriteCommit(s)
    PROVE  BackendInv'
<1> DEFINE R == job[s].rows
           to == job[s].to
<1>1. /\ R \in SUBSET Ids
      /\ to \in {"confirmed", "claimed", "refunded"}
  BY JobFields DEF BackendInv, WriteCommit, Writing
<1>2. \A x \in Slots \ {s} :
          job[x].kind = "finalize" => R \cap job[x].confirms = {}
  BY DEF WriteCommit, LockedRows
<1>3. /\ rows' = [t \in Ids |-> IF t \in R
                                THEN [rows[t] EXCEPT !.status = to]
                                ELSE rows[t]]
      /\ End(s)
      /\ UNCHANGED <<mined, total_raised, total_withdrawn>>
  BY DEF WriteCommit, chainVars, saleRow
<1> HIDE DEF R, to
<1> QED
  BY <1>1, <1>2, <1>3, RestampSound

LEMMA FinalizeSound ==
    ASSUME BackendInv, NEW s \in Slots, FinalizeCommit(s)
    PROVE  BackendInv'
<1> DEFINE R == job[s].confirms
           to == "confirmed"
<1>0. s \in Sessions
  BY DEF Sessions
<1>1. R \in SUBSET Ids /\ to \in {"confirmed", "claimed", "refunded"}
  BY <1>0, JobFields DEF BackendInv, FinalizeCommit, Finalizing
<1>2. \A x \in Slots \ {s} :
          job[x].kind = "finalize" => R \cap job[x].confirms = {}
  BY DEF BackendInv, ConfirmsPending, FinalizeCommit
<1>3. /\ rows' = [t \in Ids |-> IF t \in R
                                THEN [rows[t] EXCEPT !.status = to]
                                ELSE rows[t]]
      /\ End(s)
      /\ UNCHANGED <<mined, total_raised, total_withdrawn>>
  BY DEF FinalizeCommit, chainVars
<1> HIDE DEF R, to
<1> QED
  BY <1>0, <1>1, <1>2, <1>3, RestampSound

(* The UPDATE of the pending rows waits for rows another one has updated.  *)
LEMMA ConfirmSound ==
    ASSUME BackendInv, NEW s \in Slots, FinalizeConfirm(s)
    PROVE  BackendInv'
<1> DEFINE R == {t \in Ids : rows[t].status = "pending"}
           j == [job[s] EXCEPT !.confirms = R, !.ready = TRUE]
<1>0. s \in Sessions /\ JobsTyped /\ RecordTyped
  BY DEF BackendInv, Sessions
<1>1. job[s] \in Finalizing /\ job[s].kind = "finalize"
  BY <1>0, JobFields DEF FinalizeConfirm, Confirm
<1>2. j \in Finalizing /\ j.kind = "finalize" /\ j.confirms = R
  BY <1>1 DEF Finalizing
<1>3. /\ job' = [job EXCEPT ![s] = j]
      /\ R \cap LockedRows = {}
      /\ UNCHANGED <<rows, mined, total_raised, total_withdrawn>>
  BY <1>0 DEF FinalizeConfirm, Confirm, chainVars, dbVars, saleRow, JobsTyped
<1> HIDE DEF j
<1>4. /\ job'[s] = j /\ job' \in [Sessions -> Job]
      /\ \A x \in Sessions \ {s} : job'[x] = job[x]
  BY <1>0, <1>2, <1>3 DEF JobsTyped, Job
<1>5. RecordTyped' /\ JobsTyped' /\ RaisedIsSum' /\ WithinBounds' /\ RowsGenuine'
  BY <1>3, <1>4 DEF BackendInv, RecordTyped, JobsTyped, RaisedIsSum,
                    WithinBounds, RowsGenuine, Genuine
<1>6. OneWithdrawal' /\ JobsGenuine'
  BY <1>2, <1>3, <1>4, BackendAssumption
     DEF BackendInv, OneWithdrawal, JobsGenuine, Genuine, Sessions
<1>7. ConfirmsPending'
  <2>1. \A x \in Slots \ {s} :
            job[x].kind = "finalize" => R \cap job[x].confirms = {}
    BY <1>3 DEF LockedRows
  <2> QED
    BY <1>2, <1>3, <1>4, <2>1, BackendAssumption
       DEF BackendInv, ConfirmsPending, Sessions
<1> QED
  BY <1>5, <1>6, <1>7 DEF BackendInv

(* An OTC row has no amount and is not one of a contribution's hashes.     *)
LEMMA OtcSound ==
    ASSUME BackendInv, NEW u \in Backers, NEW t \in Otcs,
           NEW form \in {"checksum", "lower"}, OtcAllocate(u, t, form)
    PROVE  BackendInv'
<1>0. RecordTyped /\ JobsTyped /\ t \in Ids /\ t \notin Txs /\ Txs \subseteq Ids
  BY IdsFinite, BackendAssumption DEF BackendInv
<1>1. PICK r \in DbRow : rows' = [rows EXCEPT ![t] = r] /\ r.amount = 0
  <2> DEFINE r == [user |-> u, amount |-> 0, status |-> "confirmed",
                   wallet |-> [owner |-> u, form |-> form]]
  <2>1. r \in DbRow /\ r.amount = 0
    BY DEF DbRow, Wallets, Wallet
  <2>2. rows' = [rows EXCEPT ![t] = r]
    BY DEF OtcAllocate
  <2> QED
    BY <2>1, <2>2
<1>2. rows[t] = NoRow /\ UNCHANGED <<job, mined, total_raised, total_withdrawn>>
  BY DEF OtcAllocate, chainVars, saleRow
<1>3. /\ rows' \in [Ids -> DbRow]
      /\ \A x \in Ids \ {t} : rows'[x] = rows[x]
      /\ \A x \in Ids : rows'[x].amount = rows[x].amount
  BY <1>0, <1>1, <1>2 DEF RecordTyped, NoRow
<1>4. RecordTyped' /\ JobsTyped' /\ WithinBounds' /\ OneWithdrawal' /\ JobsGenuine'
  BY <1>0, <1>2, <1>3 DEF BackendInv, RecordTyped, JobsTyped, WithinBounds,
                          OneWithdrawal, JobsGenuine, Genuine
<1>5. RaisedIsSum'
  BY <1>0, <1>2, <1>3, SumKept DEF BackendInv
<1>6. ConfirmsPending'
  <2>1. ASSUME NEW x \in Slots, job[x].kind = "finalize",
               NEW y \in job[x].confirms
        PROVE  rows'[y].status = "pending"
    <3>1. rows[y].status = "pending" /\ y # t
      BY <1>2, <2>1 DEF BackendInv, ConfirmsPending, NoRow
    <3>2. y \in Ids
      BY <1>0, <2>1, JobFields DEF Sessions, Finalizing
    <3> QED
      BY <1>3, <3>1, <3>2
  <2> QED
    BY <1>2, <2>1 DEF BackendInv, ConfirmsPending
<1>7. RowsGenuine'
  BY <1>0, <1>2, <1>3 DEF BackendInv, RowsGenuine, Genuine
<1> QED
  BY <1>4, <1>5, <1>6, <1>7 DEF BackendInv

(* The only withdrawal under way records what it has locked.               *)
LEMMA PaidSound ==
    ASSUME BackendInv, NEW s \in Slots, WithdrawPaid(s)
    PROVE  BackendInv'
<1>0. RecordTyped /\ JobsTyped /\ s \in Sessions
  BY DEF BackendInv, Sessions
<1>1. job[s].kind = "withdraw" /\ job[s].amount \in Nat
  BY <1>0, JobFields DEF WithdrawPaid, Paying
<1>2. /\ total_withdrawn' = total_withdrawn + job[s].amount
      /\ job' = [job EXCEPT ![s] = Idle]
      /\ UNCHANGED <<rows, mined, total_raised>>
  BY DEF WithdrawPaid, End, chainVars
<1>3. /\ job'[s] = Idle /\ job' \in [Sessions -> Job]
      /\ \A x \in Sessions \ {s} : job'[x] = job[x]
  BY <1>0, <1>2 DEF JobsTyped, Job
<1>4. RecordTyped' /\ JobsTyped' /\ RaisedIsSum' /\ RowsGenuine'
  BY <1>0, <1>1, <1>2, <1>3 DEF BackendInv, RecordTyped, JobsTyped,
                                RaisedIsSum, RowsGenuine, Genuine
<1>5. WithinBounds'
  BY <1>1, <1>2 DEF BackendInv, WithinBounds, OneWithdrawal
<1>6. OneWithdrawal'
  <2>1. \A x \in Slots : job'[x].kind # "withdraw"
    BY <1>1, <1>3 DEF BackendInv, OneWithdrawal, Sessions, Idle
  <2> QED
    BY <1>3, <2>1, BackendAssumption DEF BackendInv, OneWithdrawal, Sessions, Idle
<1>7. ConfirmsPending' /\ JobsGenuine'
  BY <1>2, <1>3, BackendAssumption
     DEF BackendInv, ConfirmsPending, JobsGenuine, Genuine, Sessions, Idle
<1> QED
  BY <1>4, <1>5, <1>6, <1>7 DEF BackendInv

-----------------------------------------------------------------------------
(* Every step keeps the invariant.                                         *)

LEMMA RequestSound ==
    ASSUME BackendInv, NEW s \in Slots, RequestNext(s)
    PROVE  BackendInv'
<1>0. s \in Sessions
  BY DEF Sessions
<1>1. CASE \/ \E u \in Backers, t \in Txs : ContributeVerified(s, u, t)
           \/ \E u \in Backers, t \in Txs, n \in Sums :
                  ContributeUnverified(s, u, t, n)
           \/ FinalizeRead(s)
           \/ \E u \in Backers : ClaimRead(s, u) \/ RefundRead(s, u)
           \/ \E n \in Sums : WithdrawLock(s, n)
  BY <1>1, StartSound
<1>2. CASE ContributeCommit(s)
  BY <1>2, ContributeSound
<1>3. CASE GiveUp(s)
  BY <1>0, <1>3, IdleSound DEF GiveUp, chainVars, dbVars, saleRow
<1>4. CASE FinalizeConfirm(s)
  BY <1>4, ConfirmSound
<1>5. CASE FinalizeCommit(s)
  BY <1>5, FinalizeSound
<1>6. CASE WriteCommit(s)
  BY <1>0, <1>6, WriteSound
<1>7. CASE WithdrawPaid(s)
  BY <1>7, PaidSound
<1>8. CASE WithdrawFailed(s)
  BY <1>0, <1>8, IdleSound DEF WithdrawFailed, chainVars, dbVars, saleRow
<1> QED
  BY <1>1, <1>2, <1>3, <1>4, <1>5, <1>6, <1>7, <1>8 DEF RequestNext

LEMMA Frame ==
    ASSUME BackendInv,
           UNCHANGED <<rows, mined, total_raised, total_withdrawn, job>>
    PROVE  BackendInv'
  BY DEF BackendInv, RecordTyped, JobsTyped, RaisedIsSum, WithinBounds,
         OneWithdrawal, ConfirmsPending, JobsGenuine, RowsGenuine, Genuine

LEMMA ListenerSound ==
    ASSUME BackendInv, ListenerNext
    PROVE  BackendInv'
<1>0. Listener \in Sessions
  BY DEF Sessions
<1>1. CASE PollBegin \/ PollName \/ PollEnd
  BY <1>1, Frame DEF PollBegin, PollName, PollEnd, chainVars, dbVars, saleRow
<1>2. CASE PollEvent
  <2>1. PICK R \in SUBSET Ids, to \in {"claimed", "refunded"} :
            job' = [job EXCEPT ![Listener] = Write(R, to)]
    BY <1>2 DEF PollEvent, Start, Matching
  <2>2. Write(R, to) \in Job /\ Write(R, to).kind = "write"
    BY DEF Write, Job, Writing
  <2>3. UNCHANGED <<rows, mined, total_raised, total_withdrawn>>
    BY <1>2 DEF PollEvent, chainVars, dbVars, saleRow
  <2> QED
    BY <1>0, <2>1, <2>2, <2>3, JobSound
<1>3. CASE WriteCommit(Listener)
  BY <1>0, <1>3, WriteSound
<1> QED
  BY <1>1, <1>2, <1>3 DEF ListenerNext

LEMMA StepSound == BackendInv /\ [BackendNext]_backendVars => BackendInv'
<1> SUFFICES ASSUME BackendInv, [BackendNext]_backendVars PROVE BackendInv'
  OBVIOUS
<1>1. CASE ChainNext
  BY <1>1, ChainSound
<1>2. CASE \E s \in Slots : RequestNext(s)
  BY <1>2, RequestSound
<1>3. CASE \E u \in Backers, t \in Otcs, form \in {"checksum", "lower"} :
               OtcAllocate(u, t, form)
  BY <1>3, OtcSound
<1>4. CASE ListenerNext
  BY <1>4, ListenerSound
<1>5. CASE UNCHANGED backendVars
  BY <1>5, Frame DEF backendVars, chainVars, dbVars, saleRow
<1> QED
  BY <1>1, <1>2, <1>3, <1>4, <1>5 DEF BackendNext

(* The invariant holds of the backend however many requests it serves at a *)
(* time and whatever fails.                                                *)
THEOREM BackendInvariant == BackendSpec => []BackendInv
<1>1. BackendInit => BackendInv
  BY InitSound
<1>2. BackendInv /\ [BackendNext]_backendVars => BackendInv'
  BY StepSound
<1> QED
  BY <1>1, <1>2, PTL DEF BackendSpec

(* total_raised is the sum of the contributions recorded, each hash once,  *)
(* for any number of requests that race for it.                            *)
THEOREM BackendRaisedIsSum == BackendSpec => []RaisedIsSum
<1>1. BackendInv => RaisedIsSum
  BY DEF BackendInv
<1> QED
  BY <1>1, BackendInvariant, PTL

(* The hard cap is kept, and no more recorded as withdrawn than as raised: *)
(* the row lock of contribute and of execute_withdrawal is enough.         *)
THEOREM BackendWithinBounds == BackendSpec => []WithinBounds
<1>1. BackendInv => WithinBounds
  BY DEF BackendInv
<1> QED
  BY <1>1, BackendInvariant, PTL

(* A row with a wallet is the transaction of that wallet.                  *)
THEOREM BackendVerified == BackendSpec => []VerifiedMatchChain
<1>1. BackendInv => VerifiedMatchChain
  BY DEF BackendInv, RowsGenuine, Genuine, VerifiedMatchChain
<1> QED
  BY <1>1, BackendInvariant, PTL

-----------------------------------------------------------------------------
(* What a step may never do.                                               *)

(* The only step that adds money asks for an active sale under the lock.   *)
THEOREM BackendNoLateMoney == BackendSpec => NoLateMoney
<1>1. ASSUME [BackendNext]_backendVars, saleStatus # "active"
      PROVE  total_raised' = total_raised
  <2> USE DEF chainVars, dbVars, saleRow
  <2>1. CASE ChainNext
    BY <2>1 DEF ChainNext, ChainContribute, ChainFinalize, ChainAllocate,
                ChainRefund, ChainClaim
  <2>2. ASSUME NEW s \in Slots, RequestNext(s)
        PROVE  total_raised' = total_raised
    BY <1>1, <2>2 DEF RequestNext, ContributeVerified, ContributeUnverified,
        ContributeCommit, Accepts, GiveUp, FinalizeRead, FinalizeConfirm,
        Confirm, FinalizeCommit, ClaimRead, RefundRead, WriteCommit,
        WithdrawLock, WithdrawPaid, WithdrawFailed
  <2>3. CASE \E u \in Backers, t \in Otcs, form \in {"checksum", "lower"} :
                 OtcAllocate(u, t, form)
    BY <2>3 DEF OtcAllocate
  <2>4. CASE ListenerNext
    BY <2>4 DEF ListenerNext, PollBegin, PollEvent, PollName, PollEnd,
                WriteCommit
  <2>5. CASE UNCHANGED backendVars
    BY <2>5 DEF backendVars
  <2> QED
    BY <1>1, <2>1, <2>2, <2>3, <2>4, <2>5 DEF BackendNext
<1>2. [BackendNext]_backendVars
        => [saleStatus # "active" => total_raised' = total_raised]_backendVars
  BY <1>1
<1> QED
  BY <1>2, PTL DEF BackendSpec, NoLateMoney

LEMMA SettledStep ==
    ASSUME BackendInv, [BackendNext]_backendVars, NEW t \in Ids,
           rows[t].status \in {"claimed", "refunded"}
    PROVE  rows'[t].status \in {"claimed", "refunded"}
<1> USE DEF chainVars, dbVars, saleRow
<1>0. RecordTyped /\ JobsTyped
  BY DEF BackendInv
<1>1. CASE UNCHANGED rows
  BY <1>1
<1>2. ASSUME NEW s \in Slots, ContributeCommit(s) PROVE rows'[t].status \in {"claimed", "refunded"}
  <2>1. job[s].tx # t
    BY <1>2 DEF ContributeCommit, Accepts, NoRow
  <2> QED
    BY <1>0, <1>2, <2>1 DEF ContributeCommit, RecordTyped
<1>3. ASSUME NEW s \in Slots, FinalizeCommit(s) PROVE rows'[t].status \in {"claimed", "refunded"}
  <2>1. t \notin job[s].confirms
    BY <1>3 DEF BackendInv, ConfirmsPending, FinalizeCommit
  <2> QED
    BY <1>3, <2>1 DEF FinalizeCommit
<1>4. ASSUME NEW s \in Sessions, WriteCommit(s) PROVE rows'[t].status \in {"claimed", "refunded"}
  <2>1. job[s].to \in {"claimed", "refunded"}
    BY <1>0, <1>4, JobFields DEF WriteCommit, Writing
  <2>2. [rows[t] EXCEPT !.status = job[s].to].status = job[s].to
    BY <1>0 DEF RecordTyped, DbRow
  <2> QED
    BY <1>4, <2>1, <2>2 DEF WriteCommit
<1>5. ASSUME NEW u \in Backers, NEW o \in Otcs,
             NEW form \in {"checksum", "lower"}, OtcAllocate(u, o, form)
      PROVE  rows'[t].status \in {"claimed", "refunded"}
  <2>1. o # t
    BY <1>5 DEF OtcAllocate, NoRow
  <2> QED
    BY <1>0, <1>5, <2>1 DEF OtcAllocate, RecordTyped
<1> QED
  <2>1. CASE ChainNext
    BY <1>1, <2>1 DEF ChainNext, ChainContribute, ChainFinalize, ChainAllocate,
                      ChainRefund, ChainClaim
  <2>2. ASSUME NEW s \in Slots, RequestNext(s)
        PROVE  rows'[t].status \in {"claimed", "refunded"}
    <3>1. s \in Sessions
      BY DEF Sessions
    <3> QED
      BY <1>1, <1>2, <1>3, <1>4, <2>2, <3>1
         DEF RequestNext, ContributeVerified, ContributeUnverified, GiveUp,
             FinalizeRead, FinalizeConfirm, Confirm, ClaimRead, RefundRead,
             WithdrawLock, WithdrawPaid, WithdrawFailed
  <2>3. CASE ListenerNext
    <3>1. Listener \in Sessions
      BY DEF Sessions
    <3> QED
      BY <1>1, <1>4, <2>3, <3>1
         DEF ListenerNext, PollBegin, PollEvent, PollName, PollEnd
  <2>4. CASE UNCHANGED backendVars
    BY <1>1, <2>4 DEF backendVars
  <2> QED
    BY <1>5, <2>1, <2>2, <2>3, <2>4 DEF BackendNext

(* A settled contribution is not opened again: the rows a finalization     *)
(* confirms are locked from its UPDATE to its commit, so that no claim,    *)
(* refund or listener settles them in between.                             *)
THEOREM BackendSettledStays == BackendSpec => SettledStays
<1>1. BackendInv /\ [BackendNext]_backendVars =>
        [\A t \in Ids : rows[t].status \in {"claimed", "refunded"} =>
                        rows'[t].status \in {"claimed", "refunded"}]_backendVars
  BY SettledStep
<1> QED
  BY <1>1, BackendInvariant, PTL DEF BackendSpec, SettledStays

-----------------------------------------------------------------------------
(* One request at a time.  What holds of the outcome of a sale when no two *)
(* requests overlap, whatever the listener does and whatever fails; the    *)
(* runs backend_final and backend_withdraw show what else it takes.        *)

OneAtATime == \A s, r \in Slots : s = r

Pending == {t \in Ids : rows[t].status = "pending"}

(* A finalization decided on what is still so, and confirms all there is.  *)
SerialInv ==
    /\ \A s \in Slots : job[s].kind = "finalize" =>
         /\ saleStatus = "active"
         /\ job[s].success = (total_raised >= goal)
         /\ job[s].ready /\ job[s].success => Pending \subseteq job[s].confirms
    /\ OutcomeFits

(* Steps that finalize nothing and add no pending row.                     *)
LEMMA SerialKept ==
    ASSUME SerialInv, UNCHANGED <<saleStatus, total_raised>>, Pending' \subseteq Pending,
           \A s \in Slots : job'[s] = job[s] \/ job'[s].kind # "finalize"
    PROVE  SerialInv'
<1>1. OutcomeFits'
  BY DEF SerialInv, OutcomeFits, Pending
<1>2. ASSUME NEW s \in Slots, job'[s].kind = "finalize"
      PROVE  /\ saleStatus' = "active"
             /\ job'[s].success = (total_raised' >= goal)
             /\ job'[s].ready /\ job'[s].success => Pending' \subseteq job'[s].confirms
  BY <1>2 DEF SerialInv
<1> QED
  BY <1>1, <1>2 DEF SerialInv

LEMMA SerialNext ==
    ASSUME OneAtATime, BackendInv, SerialInv, [BackendNext]_backendVars
    PROVE  SerialInv' /\ (saleStatus # "active" => saleStatus' = saleStatus)
<1> USE DEF chainVars, dbVars, saleRow
<1> DEFINE Goal == SerialInv' /\ (saleStatus # "active" => saleStatus' = saleStatus)
<1>0. RecordTyped /\ JobsTyped /\ Slots \subseteq Sessions /\ Idle.kind = "idle"
  BY DEF BackendInv, Sessions, Idle
<1>1. ASSUME UNCHANGED <<saleStatus, total_raised, rows, job>> PROVE Goal
  <2>1. Pending' = Pending
    BY <1>1 DEF Pending
  <2> QED
    BY <1>1, <2>1, SerialKept
(* A session goes on to anything but a finalization.                       *)
<1>2. ASSUME NEW s \in Sessions, NEW j, j.kind # "finalize",
             job' = [job EXCEPT ![s] = j],
             UNCHANGED <<saleStatus, total_raised>>, Pending' \subseteq Pending
      PROVE  Goal
  <2>1. \A r \in Slots : job'[r] = job[r] \/ job'[r].kind # "finalize"
    BY <1>0, <1>2 DEF JobsTyped
  <2> QED
    BY <1>2, <2>1, SerialKept
<1>3. ASSUME NEW s \in Slots, ContributeCommit(s) PROVE Goal
  <2>1. /\ saleStatus = "active" /\ saleStatus' = saleStatus
        /\ job' = [job EXCEPT ![s] = Idle]
    BY <1>3 DEF ContributeCommit, Accepts, End
  <2>2. \A r \in Slots : job'[r].kind = "idle"
    BY <1>0, <2>1 DEF OneAtATime, JobsTyped
  <2> QED
    BY <2>1, <2>2 DEF SerialInv, OutcomeFits
<1>4. ASSUME NEW s \in Slots, FinalizeRead(s) PROVE Goal
  <2> DEFINE j == Decide(total_raised >= goal)
  <2>1. /\ saleStatus = "active" /\ job' = [job EXCEPT ![s] = j]
        /\ UNCHANGED <<saleStatus, total_raised, rows>>
    BY <1>4 DEF FinalizeRead, Start
  <2>2. j.success = (total_raised >= goal) /\ j.ready = ~j.success
    BY DEF Decide
  <2> HIDE DEF j
  <2>3. \A r \in Slots : job'[r] = j
    BY <1>0, <2>1 DEF OneAtATime, JobsTyped
  <2>4. OutcomeFits'
    BY <2>1 DEF OutcomeFits
  <2> QED
    BY <2>1, <2>2, <2>3, <2>4 DEF SerialInv
<1>5. ASSUME NEW s \in Slots, FinalizeConfirm(s) PROVE Goal
  <2> DEFINE j == [job[s] EXCEPT !.confirms = Pending, !.ready = TRUE]
  <2>1. job[s] \in Finalizing /\ job[s].kind = "finalize"
    BY <1>0, <1>5, JobFields DEF FinalizeConfirm, Confirm
  <2>2. /\ job' = [job EXCEPT ![s] = j]
        /\ UNCHANGED <<saleStatus, total_raised, rows>>
    BY <1>0, <1>5 DEF FinalizeConfirm, Confirm, Pending, JobsTyped
  <2>3. j.success = job[s].success /\ j.confirms = Pending
    BY <2>1 DEF Finalizing
  <2> HIDE DEF j
  <2>4. \A r \in Slots : job'[r] = j
    BY <1>0, <2>2 DEF OneAtATime, JobsTyped
  <2>5. /\ saleStatus = "active" /\ j.success = (total_raised >= goal)
    BY <2>1, <2>3 DEF SerialInv
  <2>6. Pending' = Pending
    BY <2>2 DEF Pending
  <2>7. OutcomeFits'
    BY <2>2, <2>5 DEF OutcomeFits
  <2> QED
    BY <2>2, <2>3, <2>4, <2>5, <2>6, <2>7 DEF SerialInv
<1>6. ASSUME NEW s \in Slots, FinalizeCommit(s) PROVE Goal
  <2>1. /\ job[s].kind = "finalize" /\ job[s].ready
        /\ saleStatus' = IF job[s].success THEN "finalized" ELSE "failed"
        /\ rows' = [t \in Ids |-> IF t \in job[s].confirms
                                    THEN [rows[t] EXCEPT !.status = "confirmed"]
                                    ELSE rows[t]]
        /\ job' = [job EXCEPT ![s] = Idle] /\ total_raised' = total_raised
    BY <1>6 DEF FinalizeCommit, End
  <2>2. /\ saleStatus = "active" /\ job[s].success = (total_raised >= goal)
        /\ job[s].success => Pending \subseteq job[s].confirms
    BY <2>1 DEF SerialInv
  <2>3. \A r \in Slots : job'[r].kind = "idle"
    BY <1>0, <2>1 DEF OneAtATime, JobsTyped
  <2>4. ASSUME job[s].success, NEW t \in Ids PROVE rows'[t].status # "pending"
    <3>1. [rows[t] EXCEPT !.status = "confirmed"].status = "confirmed"
      BY <1>0 DEF RecordTyped, DbRow
    <3> QED
      BY <2>1, <2>2, <2>4, <3>1 DEF Pending
  <2>5. ~job[s].success => total_raised < goal
    <3>1. goal \in Nat /\ total_raised \in Nat
      BY <1>0, BackendAssumption DEF RecordTyped
    <3>2. ~job[s].success => ~(total_raised >= goal)
      BY <2>2
    <3> QED
      BY <3>1, <3>2
  <2>6. OutcomeFits'
    BY <2>1, <2>4, <2>5 DEF OutcomeFits
  <2> QED
    BY <2>2, <2>3, <2>6 DEF SerialInv
<1>7. ASSUME NEW s \in Sessions, WriteCommit(s) PROVE Goal
  <2>1. /\ rows' = [t \in Ids |-> IF t \in job[s].rows
                                    THEN [rows[t] EXCEPT !.status = job[s].to]
                                    ELSE rows[t]]
        /\ job' = [job EXCEPT ![s] = Idle] /\ UNCHANGED <<saleStatus, total_raised>>
    BY <1>7 DEF WriteCommit, End
  <2>2. job[s].to \in {"claimed", "refunded"}
    BY <1>0, <1>7, JobFields DEF WriteCommit, Writing
  <2>3. Pending' \subseteq Pending
    <3>1. \A t \in Ids : [rows[t] EXCEPT !.status = job[s].to].status = job[s].to
      BY <1>0 DEF RecordTyped, DbRow
    <3> QED
      BY <2>1, <2>2, <3>1 DEF Pending
  <2> QED
    BY <1>0, <1>2, <2>1, <2>3
<1>8. ASSUME NEW u \in Backers, NEW o \in Otcs, NEW form \in {"checksum", "lower"},
             OtcAllocate(u, o, form)
      PROVE  Goal
  <2>1. /\ rows' = [rows EXCEPT ![o] =
                      [user |-> u, amount |-> 0, status |-> "confirmed",
                       wallet |-> [owner |-> u, form |-> form]]]
        /\ UNCHANGED <<saleStatus, total_raised, job>>
    BY <1>8 DEF OtcAllocate
  <2>2. Pending' \subseteq Pending
    BY <1>0, <2>1 DEF RecordTyped, Pending
  <2> QED
    BY <2>1, <2>2, SerialKept
<1>9. ASSUME NEW s \in Slots,
             \/ \E u \in Backers, t \in Txs : ContributeVerified(s, u, t)
             \/ \E u \in Backers, t \in Txs, n \in Sums : ContributeUnverified(s, u, t, n)
             \/ GiveUp(s)
             \/ \E u \in Backers : ClaimRead(s, u) \/ RefundRead(s, u)
             \/ \E n \in Sums : WithdrawLock(s, n)
             \/ WithdrawPaid(s) \/ WithdrawFailed(s)
      PROVE  Goal
  <2>1. UNCHANGED <<saleStatus, total_raised, rows>>
    BY <1>9 DEF ContributeVerified, ContributeUnverified, GiveUp, ClaimRead, RefundRead,
                WithdrawLock, WithdrawPaid, WithdrawFailed
  <2>2. \E j : j.kind # "finalize" /\ job' = [job EXCEPT ![s] = j]
    BY <1>0, <1>9 DEF ContributeVerified, ContributeUnverified, GiveUp, ClaimRead,
                      RefundRead, WithdrawLock, WithdrawPaid, WithdrawFailed, Start, End,
                      Record, Write, Transfer
  <2>3. Pending' = Pending
    BY <2>1 DEF Pending
  <2> QED
    BY <1>0, <1>2, <2>1, <2>2, <2>3
<1>10. ASSUME PollEvent PROVE Goal
  <2>1. UNCHANGED <<saleStatus, total_raised, rows>>
    BY <1>10 DEF PollEvent
  <2>2. PICK j : j.kind # "finalize" /\ job' = [job EXCEPT ![Listener] = j]
    <3>1. PICK R, S, b :
            Start(Listener, IF b THEN Write(R, "claimed") ELSE Write(S, "refunded"))
      BY <1>10 DEF PollEvent
    <3>2. Write(R, "claimed").kind = "write" /\ Write(S, "refunded").kind = "write"
      BY DEF Write
    <3> QED
      BY <3>1, <3>2 DEF Start
  <2>3. Pending' = Pending
    BY <2>1 DEF Pending
  <2> QED
    BY <1>2, <2>1, <2>2, <2>3 DEF Sessions
<1> HIDE DEF Goal
<1>11. Goal
  <2>1. CASE ChainNext
    BY <1>1, <2>1 DEF ChainNext, ChainContribute, ChainFinalize, ChainAllocate,
                      ChainRefund, ChainClaim
  <2>2. ASSUME NEW s \in Slots, RequestNext(s) PROVE Goal
    BY <1>0, <1>3, <1>4, <1>5, <1>6, <1>7, <1>9, <2>2 DEF RequestNext
  <2>3. CASE ListenerNext
    <3>1. Listener \in Sessions
      BY DEF Sessions
    <3> QED
      BY <1>1, <1>7, <1>10, <2>3, <3>1 DEF ListenerNext, PollBegin, PollName, PollEnd
  <2>4. CASE UNCHANGED backendVars
    BY <1>1, <2>4 DEF backendVars
  <2> QED
    BY <1>8, <2>1, <2>2, <2>3, <2>4 DEF BackendNext
<1> QED
  BY <1>11 DEF Goal

LEMMA SerialInit == ASSUME BackendInit PROVE SerialInv
<1>1. Idle.kind = "idle"
  BY DEF Idle
<1> QED
  BY <1>1 DEF BackendInit, SerialInv, OutcomeFits, Sessions

(* While requests are served one at a time, a failed sale is one that did  *)
(* not reach its soft cap, and a finalized one has no pending contribution *)
(* left: the listener and OTC allocations, which run beside finalize_sale, *)
(* and calls that fail, cannot get in between.                             *)
THEOREM BackendSerialOutcome ==
    ASSUME OneAtATime PROVE BackendSpec => []OutcomeFits
<1>1. BackendInit => SerialInv
  BY SerialInit
<1>2. BackendInv /\ SerialInv /\ [BackendNext]_backendVars => SerialInv'
  BY SerialNext
<1>3. SerialInv => OutcomeFits
  BY DEF SerialInv
<1> QED
  BY <1>1, <1>2, <1>3, BackendInvariant, PTL DEF BackendSpec

(* Nor does a sale that is final change its status: it takes two requests  *)
(* that overlap, as finalize_sale reads the status it then overwrites.     *)
THEOREM BackendSerialFinal ==
    ASSUME OneAtATime PROVE BackendSpec => FinalStatusStands
<1>1. BackendInit => SerialInv
  BY SerialInit
<1>2. BackendInv /\ SerialInv /\ [BackendNext]_backendVars => SerialInv'
  BY SerialNext
<1>3. BackendInv /\ SerialInv /\ [BackendNext]_backendVars =>
        [saleStatus # "active" => saleStatus' = saleStatus]_backendVars
  BY SerialNext
<1> QED
  BY <1>1, <1>2, <1>3, BackendInvariant, PTL DEF BackendSpec, FinalStatusStands
=============================================================================
