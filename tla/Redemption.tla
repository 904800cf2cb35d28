----------------------------- MODULE Redemption -----------------------------
(***************************************************************************)
(* Redemptions: the RedemptionManager contract, which holds the tokens of  *)
(* a request until it is fulfilled (burnt) or cancelled (returned), and    *)
(* the API's own record of redemptions, kept by investors and issuer staff *)
(* (redemption_service.py, portfolio.py, admin_operations.py).             *)
(*                                                                         *)
(* Nothing ties a record to a request on the chain: records have no column *)
(* for the request's id.                                                   *)
(***************************************************************************)
EXTENDS Naturals, Sums

CONSTANTS
    Redeemers,
    Eligible,           \* redeemers with can_invest: KYC approved, level 2
    RedeemAmounts,
    Stock,              \* tokens a redeemer has at the start
    Clerks,             \* status updates served at a time
    MaxRedemptions,     \* bound on requests to the contract
    MaxRecords,         \* bound on records in the data base
    MaxUpdates          \* bound on status updates

ASSUME RedemptionAssumption ==
    /\ IsFiniteSet(Redeemers)
    /\ Eligible \subseteq Redeemers
    /\ RedeemAmounts \subseteq Nat
    /\ {Stock, MaxRedemptions, MaxRecords, MaxUpdates} \subseteq Nat

VARIABLES
    requests, requestCount,
    holding,            \* per redeemer: balance of the token
    managerBalance,     \* the contract's balance of the token
    cleared,            \* redeemers the identity registry finds verified
    records,            \* redemption_requests, by id
    clerk,              \* per clerk: the update it serves
    updates,
    (* What happened, for the properties:                                  *)
    answered,           \* per record: the status last answered
    contested           \* records with two updates at a time

contractVars   == <<requests, requestCount, holding, managerBalance, cleared>>
recordVars     == <<records, clerk, updates, answered, contested>>
redemptionVars == <<contractVars, recordVars>>

RequestIds == 1..MaxRedemptions

RedemptionStatuses == {"pending", "processing", "shipped", "fulfilled",
                       "cancelled"}

(* A slot of the mapping nobody has written: its status is the first.      *)
NoRequest == [investor |-> "none", amount |-> 0, status |-> "Pending"]
Unserved  == [record |-> 0]

RedemptionInit ==
    /\ requests = [i \in RequestIds |-> NoRequest] /\ requestCount = 0
    /\ holding = [u \in Redeemers |-> Stock] /\ managerBalance = 0
    /\ cleared = Redeemers
    /\ records = [r \in {} |-> Unserved] /\ answered = [r \in {} |-> "none"]
    /\ clerk = [c \in Clerks |-> Unserved] /\ updates = 0
    /\ contested = {}

-----------------------------------------------------------------------------
(* The contract.  It may burn, and the registry knows it; a paused token   *)
(* or a frozen wallet makes a call revert, which is no step.               *)

requestRedemption(u, n) ==
    LET id == requestCount + 1
    IN  /\ id \in RequestIds
        /\ n > 0 /\ n <= holding[u]
        /\ holding' = [holding EXCEPT ![u] = @ - n]
        /\ managerBalance' = managerBalance + n
        /\ requests' = [requests EXCEPT ![id] =
               [investor |-> u, amount |-> n, status |-> "Pending"]]
        /\ requestCount' = id
        /\ UNCHANGED <<cleared, recordVars>>

(* Any id may be given: a slot not written yet has nothing to burn and is  *)
(* overwritten when its turn comes.  No code sets Processing.              *)
fulfil(id) ==
    /\ requests[id].status \in {"Pending", "Processing"}
    /\ requests[id].amount <= managerBalance
    /\ requests' = [requests EXCEPT ![id].status = "Fulfilled"]
    /\ managerBalance' = managerBalance - requests[id].amount
    /\ UNCHANGED <<requestCount, holding, cleared, recordVars>>

(* Slip: a request that is settled is cancelled again.                     *)
cancelAgain(id) ==
    LET q == requests[id]
    IN  /\ q.investor \in cleared
        /\ q.amount <= managerBalance
        /\ requests' = [requests EXCEPT ![id].status = "Cancelled"]
        /\ managerBalance' = managerBalance - q.amount
        /\ holding' = [holding EXCEPT ![q.investor] = @ + q.amount]
        /\ UNCHANGED <<requestCount, cleared, recordVars>>

(* The token goes back to verified investors only.                         *)
cancel(id) ==
    LET q == requests[id]
    IN  /\ q.status = "Pending"
        /\ q.investor \in cleared
        /\ q.amount <= managerBalance
        /\ requests' = [requests EXCEPT ![id].status = "Cancelled"]
        /\ managerBalance' = managerBalance - q.amount
        /\ holding' = [holding EXCEPT ![q.investor] = @ + q.amount]
        /\ UNCHANGED <<requestCount, cleared, recordVars>>

(* The registry drops or adds an investor.                                 *)
Reverify(u) ==
    /\ cleared' = IF u \in cleared THEN cleared \ {u} ELSE cleared \cup {u}
    /\ UNCHANGED <<requests, requestCount, holding, managerBalance, recordVars>>

-----------------------------------------------------------------------------
(* The records.                                                            *)

(* create_request asks for KYC only: neither for a balance nor for a       *)
(* request on the chain.                                                   *)
create_request(u, n) ==
    LET r == Cardinality(DOMAIN records) + 1
    IN  /\ r <= MaxRecords
        /\ u \in Eligible
        /\ records' = [x \in DOMAIN records \cup {r} |->
               IF x = r THEN [user |-> u, amount |-> n, status |-> "pending",
                              shipped_at |-> FALSE, fulfilled_at |-> FALSE]
               ELSE records[x]]
        /\ answered' = [x \in DOMAIN answered \cup {r} |->
               IF x = r THEN "pending" ELSE answered[x]]
        /\ UNCHANGED <<contractVars, clerk, updates, contested>>

(* update_redemption_status: the record is read, whatever its status.      *)
UpdateRead(c, r, status) ==
    /\ clerk[c] = Unserved
    /\ updates < MaxUpdates /\ updates' = updates + 1
    /\ contested' = IF \E d \in Clerks : clerk[d].record = r
                    THEN contested \cup {r} ELSE contested
    /\ clerk' = [clerk EXCEPT ![c] = [record |-> r, to |-> status,
                                      seen |-> records[r].status]]
    /\ UNCHANGED <<contractVars, records, answered>>

(* Slip: the status is set only where the record was pending.              *)
UpdateCommitPending(c) ==
    LET j == clerk[c]
    IN  /\ j # Unserved
        /\ records' = [records EXCEPT ![j.record] =
               [@ EXCEPT !.status = IF j.seen = "pending" THEN j.to ELSE @]]
        /\ answered' = [answered EXCEPT ![j.record] = j.to]
        /\ clerk' = [clerk EXCEPT ![c] = Unserved]
        /\ UNCHANGED <<contractVars, updates, contested>>

(* A status equal to the one that was read is not written.                 *)
UpdateCommit(c) ==
    LET j == clerk[c]
        q == records[j.record]
    IN  /\ j # Unserved
        /\ records' = [records EXCEPT ![j.record] =
               [q EXCEPT !.status = IF j.to = j.seen THEN q.status ELSE j.to,
                         !.shipped_at = q.shipped_at \/ j.to = "shipped",
                         !.fulfilled_at = q.fulfilled_at \/ j.to = "fulfilled"]]
        /\ answered' = [answered EXCEPT ![j.record] = j.to]
        /\ clerk' = [clerk EXCEPT ![c] = Unserved]
        /\ UNCHANGED <<contractVars, updates, contested>>

UpdateFails(c) ==
    /\ clerk[c] # Unserved
    /\ clerk' = [clerk EXCEPT ![c] = Unserved]
    /\ UNCHANGED <<contractVars, records, updates, answered, contested>>

ManagerNext ==
    \/ \E u \in Redeemers : \/ \E n \in RedeemAmounts : requestRedemption(u, n)
                            \/ Reverify(u)
    \/ \E id \in RequestIds : fulfil(id) \/ cancel(id)

RecordNext ==
    \/ \E u \in Redeemers, n \in RedeemAmounts : create_request(u, n)
    \/ \E c \in Clerks :
         \/ \E r \in DOMAIN records, status \in RedemptionStatuses :
              UpdateRead(c, r, status)
         \/ UpdateCommit(c) \/ UpdateFails(c)

RedemptionNext == ManagerNext \/ RecordNext

RedemptionSpec == RedemptionInit /\ [][RedemptionNext]_redemptionVars

-----------------------------------------------------------------------------
(* Properties.                                                             *)

OpenAmount(id) == IF requests[id].status = "Pending" THEN requests[id].amount ELSE 0

(* The contract holds exactly the tokens of the requests still open, so    *)
(* that each can be fulfilled or cancelled in full: also when ids are      *)
(* fulfilled before they exist, and while investors lose their standing.   *)
HeldIsOwed == managerBalance = Sum([id \in RequestIds |-> OpenAmount(id)])

(* A record has the status its last update answered and a fulfilled one    *)
(* its date, unless two updates of it ran at the same time.                *)
StatusAsAnswered ==
    \A r \in DOMAIN records \ contested :
        /\ records[r].status = answered[r]
        /\ records[r].status = "fulfilled" => records[r].fulfilled_at
=============================================================================
