------------------------------ MODULE Platform ------------------------------
(***************************************************************************)
(* How the API reaches the chain: the circuit breaker in front of the RPC  *)
(* node (web3_provider.py), and submit_transaction, with which any number  *)
(* of requests send transactions from the one platform account and try     *)
(* again when another took their nonce (web3_tx_service.py).               *)
(***************************************************************************)
EXTENDS Naturals, FiniteSets, Sequences

CONSTANTS
    MaxFailures,        \* MAX_FAILURES (5)
    Window,             \* FAILURE_WINDOW (60 s)
    OpenDuration,       \* OPEN_DURATION (30 s)
    MaxClock,           \* bound on the clock
    Submissions,        \* transactions sent with submit_transaction
    MaxRetries,         \* MAX_NONCE_RETRIES (5)
    Rivals              \* bound on transactions sent some other way

ASSUME PlatformAssumption ==
    /\ {MaxFailures, Window, OpenDuration, MaxClock, MaxRetries, Rivals}
         \subseteq Nat \ {0}
    /\ OpenDuration <= Window

VARIABLES
    state, failures, opened_at,         \* the breaker
    clock,
    submission,         \* per transaction: where its submission is
    pending,            \* the account's count of transactions, waiting included
    rivals              \* transactions sent some other way

breakerVars == <<state, failures, opened_at>>
submitVars  == <<submission, pending, rivals>>
platformVars == <<breakerVars, clock, submitVars>>

(* "since" is for the properties: the count when the first attempt read it.*)
Unsent == [stage |-> "start", nonce |-> 0, attempt |-> 0, since |-> 0]

PlatformInit ==
    /\ state = "closed" /\ failures = <<>> /\ opened_at = 0 /\ clock = 0
    /\ submission = [x \in Submissions |-> Unsent]
    /\ pending = 0 /\ rivals = 0

-----------------------------------------------------------------------------
(* The breaker.  A call through it, from allow_request to the outcome, is  *)
(* one step: get_web3_provider does not give way in between.               *)

(* Slip: an open breaker lets a test call through at once.                 *)
allow_request_early(s) == state \in {"closed", "half_open"} \/ s = "half_open"

(* allow_request: s is the state it leaves; half-open allows every call.   *)
allow_request(s) ==
    \/ state \in {"closed", "half_open"} /\ s = state
    \/ state = "open" /\ clock - opened_at >= OpenDuration /\ s = "half_open"

record_success ==
    /\ state' = "closed" /\ failures' = <<>>
    /\ UNCHANGED opened_at

Recent(t) == clock - t < Window

(* The times are those of a monotonic clock, so the recent ones are the    *)
(* last of the list.                                                       *)
record_failure(s) ==
    LET all == Append(failures, clock) IN
    \E n \in 0..Len(failures) :
      /\ \A i \in 1..Len(all) : Recent(all[i]) <=> i > n
      /\ LET kept == SubSeq(all, n + 1, Len(all)) IN
           /\ failures' = kept
           /\ IF Len(kept) >= MaxFailures
                THEN state' = "open" /\ opened_at' = clock
                ELSE state' = s /\ UNCHANGED opened_at

get_web3_provider ==
    /\ \E s \in {"closed", "half_open"} :
         allow_request(s) /\ (record_success \/ record_failure(s))
    /\ UNCHANGED clock

Tick == /\ clock < MaxClock /\ clock' = clock + 1
        /\ UNCHANGED breakerVars

BreakerNext == (get_web3_provider \/ Tick) /\ UNCHANGED submitVars

-----------------------------------------------------------------------------
(* Submissions.                                                            *)

Since(x) == IF submission[x].attempt = 0 THEN pending ELSE submission[x].since

(* Slip: the nonce is read once and kept for every attempt.                *)
ReadNonceOnce(x) ==
    /\ submission[x].stage = "start"
    /\ submission' = [submission EXCEPT ![x].stage = "built",
                        ![x].since = Since(x),
                        ![x].nonce = IF submission[x].attempt = 0 THEN pending ELSE @]
    /\ UNCHANGED <<pending, rivals>>

(* Each attempt reads the nonce again, waiting transactions included.      *)
ReadNonce(x) ==
    /\ submission[x].stage = "start"
    /\ submission' = [submission EXCEPT ![x].stage = "built", ![x].nonce = pending,
                                        ![x].since = Since(x)]
    /\ UNCHANGED <<pending, rivals>>

(* The node accepts the nonce that comes next.  One that is taken is       *)
(* refused: the tip is always the same, so nothing is ever replaced.       *)
Accept(x) ==
    /\ submission[x].stage = "built" /\ submission[x].nonce = pending
    /\ pending' = pending + 1
    /\ submission' = [submission EXCEPT ![x].stage = "sent"]
    /\ UNCHANGED rivals

Conflict(x) ==
    /\ submission[x].stage = "built" /\ submission[x].nonce # pending
    /\ submission' = [submission EXCEPT ![x].attempt = @ + 1,
                        ![x].stage = IF submission[x].attempt + 1 < MaxRetries
                                       THEN "start" ELSE "raised"]
    /\ UNCHANGED <<pending, rivals>>

(* Any other error is raised at once.                                      *)
Fail(x) ==
    /\ submission[x].stage = "built"
    /\ submission' = [submission EXCEPT ![x].stage = "failed"]
    /\ UNCHANGED <<pending, rivals>>

(* execute_contract and the token deployment use the same account.         *)
Rival ==
    /\ rivals < Rivals /\ rivals' = rivals + 1
    /\ pending' = pending + 1
    /\ UNCHANGED submission

SubmitNext ==
    /\ \/ \E x \in Submissions : ReadNonce(x) \/ Accept(x) \/ Conflict(x) \/ Fail(x)
       \/ Rival
    /\ UNCHANGED <<breakerVars, clock>>

PlatformNext == BreakerNext \/ SubmitNext

PlatformSpec == PlatformInit /\ [][PlatformNext]_platformVars

-----------------------------------------------------------------------------
(* Properties.                                                             *)

(* However long the node is down, the breaker lets no more failing calls   *)
(* through to it within FAILURE_WINDOW than MAX_FAILURES and one test for  *)
(* every OPEN_DURATION that fits in.                                       *)
FailuresBounded == Len(failures) <= MaxFailures + (Window - 1) \div OpenDuration

(* A submission gives up on its nonce only in a crowd: MAX_NONCE_RETRIES   *)
(* other transactions of the account went through while it tried.          *)
GivesUpInACrowd ==
    \A x \in Submissions :
      submission[x].stage = "raised" => pending - submission[x].since >= MaxRetries
=============================================================================
