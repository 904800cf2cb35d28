-------------------------------- MODULE Kyc --------------------------------
(***************************************************************************)
(* Identity verification: applications, the provider's webhooks, the       *)
(* worker that retries stored webhooks, the on-chain identity, expiry      *)
(* (kyc_service.py, kyc_expiry_service.py, web3_identity_service.py, the   *)
(* KYC endpoints and the worker's tasks).                                  *)
(*                                                                         *)
(* A database session keeps the users it has read.  It writes the fields   *)
(* it has changed, and no others, at its next commit (sessions neither     *)
(* flush by themselves nor expire what they hold), so the model carries    *)
(* for each session the row as read (seen) and as changed (mine).          *)
(***************************************************************************)
EXTENDS Naturals, Sequences, FiniteSets

CONSTANTS
    Users,
    Slots,              \* requests the API serves at a time
    Worker,             \* the worker's webhook loop
    Answers,            \* reviewAnswer: GREEN, RED, or none yet
    LastTopic,          \* claim topics: KYC level, country, investor type
    Credentials,        \* the provider's credentials are configured
    MaxEvents,          \* bound on stored webhooks
    MaxApplications,    \* bound on applications per user
    MaxUpsets           \* bound on lost sessions and replays together

ASSUME KycAssumption ==
    /\ Worker \notin Slots /\ Users # {}
    /\ Answers \subseteq {"GREEN", "RED", "none"}
    /\ Credentials \in BOOLEAN
    /\ LastTopic \in Nat \ {0}
    /\ {MaxEvents, MaxApplications, MaxUpsets} \subseteq Nat

VARIABLES
    verdicts,           \* per user: the provider's answers so far
    kyc,                \* per user: kyc_status, kyc_level, onchain_id set
    kyc_expires_at,     \* per user: never, ahead of now or passed
    applications,       \* per user: number of kyc_applications rows
    events,             \* webhook_events, by created_at
    identity,           \* per user: what its wallet has on the chain
    queue,              \* users for whom task_deploy_onchainid is queued
    session,            \* per session: what it has read and will commit
    upsets              \* lost sessions and replays so far

kycRows == <<kyc, applications, events>>
onchain == <<identity, queue>>
kycVars == <<verdicts, kyc_expires_at, kycRows, onchain, session, upsets>>

Sessions == Slots \cup {Worker}
Topics   == 1..LastTopic

KycRow == [status : {"none", "pending", "approved", "rejected", "expired"},
           level : {0, 2, 4}, onchain_id : BOOLEAN]
Unread == [status |-> "unread", level |-> 0, onchain_id |-> FALSE]

Idle == [kind |-> "idle"]
Open(kind, seen, mine) == [kind |-> kind, seen |-> seen, mine |-> mine]

KycInit ==
    /\ verdicts = [u \in Users |-> {}]
    /\ kyc = [u \in Users |-> [status |-> "none", level |-> 0,
                               onchain_id |-> FALSE]]
    /\ kyc_expires_at = [u \in Users |-> "never"]
    /\ applications = [u \in Users |-> 0]
    /\ events = <<>>
    /\ identity = [u \in Users |-> [deployed |-> FALSE, claims |-> {},
                                    registered |-> FALSE]]
    /\ queue = {}
    /\ session = [s \in Sessions |-> Idle]
    /\ upsets = 0

-----------------------------------------------------------------------------
(* Sessions.                                                               *)

NoUsers == [u \in Users |-> Unread]

NoEvents == [e \in {} |-> 0]

Start(s, j) == session[s] = Idle /\ session' = [session EXCEPT ![s] = j]
End(s)      == session' = [session EXCEPT ![s] = Idle]

(* Changed fields of the users a session holds go to the database.         *)
Flushed(j) ==
    [u \in Users |->
        IF j.seen[u] = Unread THEN kyc[u]
        ELSE [f \in DOMAIN kyc[u] |->
                 IF j.mine[u][f] = j.seen[u][f] THEN kyc[u][f]
                                                ELSE j.mine[u][f]]]

(* A query returns the row the session already holds, if it holds one.     *)
Load(j, u) ==
    IF j.seen[u] # Unread THEN j
    ELSE [j EXCEPT !.seen[u] = kyc[u], !.mine[u] = kyc[u]]

(* scalar_one_or_none over the user's applications: two rows raise.        *)
ManyApplications(u) == applications[u] > 1

-----------------------------------------------------------------------------
(* The provider, and what an operator sets.                                *)

Review(u, a) ==
    /\ applications[u] > 0
    /\ verdicts' = [verdicts EXCEPT ![u] = @ \cup {a}]
    /\ UNCHANGED <<kycRows, kyc_expires_at, onchain, session, upsets>>

(* No code sets kyc_expires_at; nothing but time changes it afterwards.    *)
SetExpiry(u) ==
    /\ kyc_expires_at[u] = "never"
    /\ kyc[u].status = "approved"
    /\ kyc_expires_at' = [kyc_expires_at EXCEPT ![u] = "ahead"]
    /\ UNCHANGED <<verdicts, kycRows, onchain, session, upsets>>

ExpiryPasses(u) ==
    /\ kyc_expires_at[u] = "ahead"
    /\ kyc_expires_at' = [kyc_expires_at EXCEPT ![u] = "passed"]
    /\ UNCHANGED <<verdicts, kycRows, onchain, session, upsets>>

-----------------------------------------------------------------------------
(* initiate and initiate_corporate: checked, then the provider is called,  *)
(* then committed.                                                         *)

Apply(s, u) ==
    /\ Start(s, Open("initiate", [NoUsers EXCEPT ![u] = kyc[u]],
                     [NoUsers EXCEPT ![u] = [kyc[u] EXCEPT !.status =
                                                           "pending"]]))
    /\ UNCHANGED <<verdicts, kycRows, kyc_expires_at, onchain, upsets>>

Initiate(s, u) ==
    /\ kyc[u].status \notin {"approved", "pending"}
    /\ Apply(s, u)

InitiateCorporate(s, u) ==
    /\ ~(kyc[u].status = "approved" /\ kyc[u].level >= 4)
    /\ Apply(s, u)

InitiateCommit(s) ==
    LET j == session[s]
    IN  /\ j.kind = "initiate"
        /\ \A u \in Users : j.seen[u] # Unread =>
                            applications[u] < MaxApplications
        /\ kyc' = Flushed(j)
        /\ applications' = [u \in Users |-> IF j.seen[u] = Unread
                                            THEN applications[u]
                                            ELSE applications[u] + 1]
        /\ End(s)
        /\ UNCHANGED <<verdicts, events, kyc_expires_at, onchain, upsets>>

(* The provider does not answer: 502.                                      *)
InitiateFails(s) ==
    /\ session[s].kind = "initiate"
    /\ End(s)
    /\ UNCHANGED <<verdicts, kycRows, kyc_expires_at, onchain, upsets>>

-----------------------------------------------------------------------------
(* check_expiring_users.                                                   *)

Expired(u) == kyc_expires_at[u] = "passed" /\ kyc[u].status = "approved"

ExpiryRead(s) ==
    /\ \E u \in Users : Expired(u)
    /\ Start(s, Open("expire",
             [u \in Users |-> IF Expired(u) THEN kyc[u] ELSE Unread],
             [u \in Users |-> IF Expired(u)
                              THEN [kyc[u] EXCEPT !.status = "expired",
                                                  !.level = 0]
                              ELSE Unread]))
    /\ UNCHANGED <<verdicts, kycRows, kyc_expires_at, onchain, upsets>>

ExpiryCommit(s) ==
    /\ session[s].kind = "expire"
    /\ kyc' = Flushed(session[s])
    /\ End(s)
    /\ UNCHANGED <<verdicts, applications, events, kyc_expires_at, onchain,
                   upsets>>

-----------------------------------------------------------------------------
(* Handling of one webhook, by the endpoint or by the worker.  The session *)
(* of a webhook also has the event it handles (its place in the table, or  *)
(* 0 while the row is not committed), the event's user and answer, the     *)
(* level a GREEN gives, where the handler stands, the events still to do   *)
(* with the attempts read, and the marks it has put on others and not      *)
(* committed.                                                              *)

Handling(kind, e, u, a, l) ==
    [kind |-> kind, seen |-> NoUsers, mine |-> NoUsers, event |-> e,
     user |-> u, answer |-> a, level |-> l, stage |-> "read", step |-> 0,
     todo |-> NoEvents, marks |-> NoEvents]

(* Slip: any review approves.                                              *)
ReviewedAny(row, a, l) == [row EXCEPT !.status = "approved", !.level = l]

Reviewed(row, a, l) ==
    IF a = "GREEN" THEN [row EXCEPT !.status = "approved", !.level = l]
    ELSE IF a = "RED" THEN [row EXCEPT !.status = "rejected", !.level = 0]
    ELSE row

(* A personal GREEN goes on to the on-chain identity, a reviewed answer to *)
(* its notification (a corporate RED has none), any other to the audit.    *)
AfterRead(j) ==
    CASE j.answer = "GREEN" /\ j.kind # "kyb" /\ Credentials -> "claims"
      [] j.answer = "none"                                   -> "audit"
      [] j.answer = "RED" /\ j.kind = "kyb"                  -> "audit"
      [] OTHER                                               -> "notify"

(* The user and its application are read, and changed in the session.      *)
ReadUser(s) ==
    LET j == session[s]
        k == Load(j, j.user)
    IN  /\ j.kind \in {"webhook", "kyb", "worker"}
        /\ j.stage = "read"
        /\ session' = [session EXCEPT ![s] =
               IF ManyApplications(j.user) THEN [k EXCEPT !.stage = "raised"]
               ELSE [k EXCEPT !.mine[j.user] = Reviewed(@, j.answer, j.level),
                              !.stage = AfterRead(j)]]
        /\ UNCHANGED <<verdicts, kycRows, kyc_expires_at, onchain, upsets>>

(* What register_identity_full sends to the chain.  A transaction whose    *)
(* effect is there already is left out or reverts, which changes nothing.  *)
deploy_identity(i)   == [i EXCEPT !.deployed = TRUE]
issue_claim(i, k)    == [i EXCEPT !.claims = @ \cup {k}]
register_identity(i) == [i EXCEPT !.registered = TRUE]

(* Slip: the wallet is registered before its claims are issued.            *)
TransactionEarly(i, k) ==
    CASE k = 0 -> deploy_identity(i)
      [] k = 1 -> register_identity(i)
      [] OTHER -> issue_claim(i, k - 1)

(* In order: the identity, a claim per topic, the registration.            *)
Transaction(i, k) ==
    CASE k = 0         -> deploy_identity(i)
      [] k \in Topics  -> issue_claim(i, k)
      [] OTHER         -> register_identity(i)

Registers(s) ==
    LET j == session[s]
    IN  /\ j.kind \in {"webhook", "worker"}
        /\ j.stage = "claims"
        /\ identity' = [identity EXCEPT ![j.user] = Transaction(@, j.step)]
        /\ session' = [session EXCEPT ![s] =
               IF j.step <= LastTopic THEN [j EXCEPT !.step = @ + 1]
               ELSE [j EXCEPT !.mine[j.user].onchain_id = TRUE,
                              !.stage = "notify"]]
        /\ UNCHANGED <<verdicts, kycRows, kyc_expires_at, queue, upsets>>

(* No primary wallet or registry, or a transaction fails: logged and left. *)
(* Reading the wallets of a user that was loaded without them is outside   *)
(* the handler's try and raises.                                           *)
RegisterFails(s) ==
    LET j == session[s]
    IN  /\ j.kind \in {"webhook", "worker"}
        /\ j.stage = "claims"
        /\ \/ session' = [session EXCEPT ![s].stage = "notify"]
           \/ j.step = 0 /\ session' = [session EXCEPT ![s].stage = "raised"]
        /\ UNCHANGED <<verdicts, kycRows, kyc_expires_at, onchain, upsets>>

-----------------------------------------------------------------------------
(* Commits of a webhook's session.                                         *)

(* The event row with the marks put on it; marks hold what has changed.    *)
Marked(e, j) == IF e \in DOMAIN j.marks
                THEN [f \in DOMAIN events[e] |->
                         IF f \in DOMAIN j.marks[e] THEN j.marks[e][f]
                                                    ELSE events[e][f]]
                ELSE events[e]

Row(j, status, attempts) == [user |-> j.user, answer |-> j.answer,
                             status |-> status, attempts |-> attempts]

(* A new event's row goes in with the first commit.                        *)
Commit(j, status, attempts) ==
    LET old == [e \in DOMAIN events |-> Marked(e, j)]
    IN  /\ kyc' = Flushed(j)
        /\ events' = IF j.kind = "webhook" /\ j.event = 0
                     THEN Append(old, Row(j, status, attempts)) ELSE old

Committed(j) ==
    [j EXCEPT !.seen = j.mine, !.marks = NoEvents,
              !.event = IF j.kind = "webhook" /\ @ = 0
                        THEN Len(events) + 1 ELSE @]

(* After an approval and its notification task_deploy_onchainid is queued, *)
(* if there is a queue and a primary wallet.                               *)
Enqueues(j) ==
    queue' \in IF j.answer = "GREEN" /\ j.kind # "kyb"
               THEN {queue, queue \cup {j.user}} ELSE {queue}

(* NotificationService.create commits the session it shares.               *)
Notify(s) ==
    LET j == session[s]
    IN  /\ j.kind \in {"webhook", "kyb", "worker"}
        /\ j.stage = "notify"
        /\ Commit(j, "pending", 0)
        /\ session' = [session EXCEPT ![s] = [Committed(j) EXCEPT !.stage =
                                                               "audit"]]
        /\ Enqueues(j)
        /\ UNCHANGED <<verdicts, applications, kyc_expires_at, identity,
                       upsets>>

NotifyFails(s) ==
    /\ session[s].kind \in {"webhook", "kyb", "worker"}
    /\ session[s].stage = "notify"
    /\ session' = [session EXCEPT ![s].stage = "audit"]
    /\ Enqueues(session[s])
    /\ UNCHANGED <<verdicts, kycRows, kyc_expires_at, identity, upsets>>

(* The audit entry and the handler's own commit.                           *)
Handled(s) ==
    LET j == session[s]
    IN  /\ j.kind \in {"webhook", "kyb", "worker"}
        /\ j.stage = "audit"
        /\ Commit(j, "pending", 0)
        /\ session' = [session EXCEPT ![s] =
               IF j.kind = "kyb" THEN Idle
               ELSE [Committed(j) EXCEPT !.stage = "mark"]]
        /\ UNCHANGED <<verdicts, applications, kyc_expires_at, onchain,
                       upsets>>

-----------------------------------------------------------------------------
(* The endpoints.                                                          *)

Inserting == {s \in Slots : /\ session[s].kind = "webhook"
                            /\ session[s].event = 0}

(* sumsub_webhook and corporate_kyb_webhook, once the signature is found   *)
(* valid.  The provider sends any of its answers, again and in any order.  *)
Webhook(s, u, a) ==
    /\ a \in verdicts[u]
    /\ Len(events) + Cardinality(Inserting) < MaxEvents
    /\ Start(s, Handling("webhook", 0, u, a, 2))
    /\ UNCHANGED <<verdicts, kycRows, kyc_expires_at, onchain, upsets>>

CorporateWebhook(s, u, a) ==
    /\ a \in verdicts[u]
    /\ Start(s, Handling("kyb", 0, u, a, 4))
    /\ UNCHANGED <<verdicts, kycRows, kyc_expires_at, onchain, upsets>>

(* After the handler the event is marked, with the attempt, and committed. *)
WebhookProcessed(s) ==
    LET j == session[s]
    IN  /\ j.kind = "webhook"
        /\ j.stage = "mark"
        /\ events' = [events EXCEPT ![j.event].status = "processed",
                                    ![j.event].attempts = 1]
        /\ kyc' = Flushed(j)
        /\ End(s)
        /\ UNCHANGED <<verdicts, applications, kyc_expires_at, onchain,
                       upsets>>

(* The handler raised: the endpoint counts the attempt and commits, with   *)
(* whatever the handler had changed.                                       *)
WebhookRaised(s) ==
    LET j == session[s]
    IN  /\ j.kind = "webhook"
        /\ j.stage = "raised"
        /\ Commit(j, "pending", 1)
        /\ End(s)
        /\ UNCHANGED <<verdicts, applications, kyc_expires_at, onchain,
                       upsets>>

(* The corporate endpoint has no event: its session is rolled back.        *)
CorporateRaised(s) ==
    /\ session[s].kind = "kyb"
    /\ session[s].stage = "raised"
    /\ End(s)
    /\ UNCHANGED <<verdicts, kycRows, kyc_expires_at, onchain, upsets>>

-----------------------------------------------------------------------------
(* task_process_webhooks, in the worker's loop.                            *)

Pending == {e \in DOMAIN events : events[e].status = "pending"}

WorkerBegin ==
    /\ Pending # {}
    /\ Start(Worker, [Handling("worker", 0, CHOOSE u \in Users : TRUE,
                               "none", 2) EXCEPT
                         !.stage = "next",
                         !.todo = [e \in Pending |-> events[e].attempts]])
    /\ UNCHANGED <<verdicts, kycRows, kyc_expires_at, onchain, upsets>>

(* The next event of the batch, as it was when the batch was read.         *)
WorkerNext ==
    LET j == session[Worker]
    IN  /\ j.kind = "worker"
        /\ j.stage = "next"
        /\ \E e \in DOMAIN j.todo :
               /\ \A d \in DOMAIN j.todo : e <= d
               /\ session' = [session EXCEPT ![Worker] =
                      [j EXCEPT !.event = e, !.user = events[e].user,
                                !.answer = events[e].answer,
                                !.stage = "read", !.step = 0]]
        /\ UNCHANGED <<verdicts, kycRows, kyc_expires_at, onchain, upsets>>

Mark(m) ==
    LET j == session[Worker]
    IN  session' = [session EXCEPT ![Worker] =
            [j EXCEPT !.marks = [e \in DOMAIN j.marks \cup {j.event} |->
                                    IF e = j.event THEN m ELSE j.marks[e]],
                      !.todo = [e \in DOMAIN j.todo \ {j.event} |-> j.todo[e]],
                      !.stage = "next"]]

WorkerProcessed ==
    /\ session[Worker].kind = "worker"
    /\ session[Worker].stage = "mark"
    /\ Mark([status |-> "processed"])
    /\ UNCHANGED <<verdicts, kycRows, kyc_expires_at, onchain, upsets>>

(* Slip: the attempt is not counted.                                       *)
WorkerRaisedUncounted ==
    LET n == session[Worker].todo[session[Worker].event]
    IN  /\ session[Worker].kind = "worker"
        /\ session[Worker].stage = "raised"
        /\ IF n >= 3 THEN Mark([attempts |-> n, status |-> "failed"])
                     ELSE Mark([attempts |-> n])
        /\ UNCHANGED <<verdicts, kycRows, kyc_expires_at, onchain, upsets>>

(* The third failure makes the event a dead letter, so that no pending one *)
(* has three attempts when a batch is read.  What the handler had changed  *)
(* before it raised stays in the session.                                  *)
WorkerRaised ==
    LET n == session[Worker].todo[session[Worker].event] + 1
    IN  /\ session[Worker].kind = "worker"
        /\ session[Worker].stage = "raised"
        /\ IF n >= 3 THEN Mark([attempts |-> n, status |-> "failed"])
                     ELSE Mark([attempts |-> n])
        /\ UNCHANGED <<verdicts, kycRows, kyc_expires_at, onchain, upsets>>

WorkerCommit ==
    LET j == session[Worker]
    IN  /\ j.kind = "worker"
        /\ j.stage = "next"
        /\ DOMAIN j.todo = {}
        /\ Commit(j, "pending", 0)
        /\ End(Worker)
        /\ UNCHANGED <<verdicts, applications, kyc_expires_at, onchain,
                       upsets>>

(* task_deploy_onchainid: deployed, or a raised job that is not retried.   *)
DeployTask(u) ==
    /\ u \in queue
    /\ queue' = queue \ {u}
    /\ identity' \in {identity, [identity EXCEPT ![u] = deploy_identity(@)]}
    /\ UNCHANGED <<verdicts, kycRows, kyc_expires_at, session, upsets>>

(* replay_webhook: an event that is not processed starts again.  Fields    *)
(* that were pending or 0 when it was read are not written.                *)
Replay(s, e) ==
    /\ upsets < MaxUpsets
    /\ events[e].status # "processed"
    /\ upsets' = upsets + 1
    /\ Start(s, [kind |-> "replay", event |-> e, read |-> events[e]])
    /\ UNCHANGED <<verdicts, kycRows, kyc_expires_at, onchain>>

ReplayCommit(s) ==
    LET j == session[s]
    IN  /\ j.kind = "replay"
        /\ events' = [events EXCEPT
               ![j.event].status   = IF j.read.status = "pending" THEN @
                                     ELSE "pending",
               ![j.event].attempts = IF j.read.attempts = 0 THEN @ ELSE 0]
        /\ End(s)
        /\ UNCHANGED <<verdicts, kyc, applications, kyc_expires_at, onchain,
                       upsets>>

(* A process dies, or a request is cut off: its session is rolled back.    *)
Crash(s) ==
    /\ session[s] # Idle
    /\ upsets < MaxUpsets
    /\ upsets' = upsets + 1
    /\ End(s)
    /\ UNCHANGED <<verdicts, kycRows, kyc_expires_at, onchain>>

-----------------------------------------------------------------------------
HandlerNext(s) ==
    ReadUser(s) \/ Registers(s) \/ RegisterFails(s) \/ Notify(s)
        \/ NotifyFails(s) \/ Handled(s)

RequestStart(s) ==
    \/ \E u \in Users : Initiate(s, u) \/ InitiateCorporate(s, u)
    \/ \E u \in Users, a \in Answers : Webhook(s, u, a)
    \/ \E u \in Users, a \in Answers : CorporateWebhook(s, u, a)
    \/ \E e \in DOMAIN events : Replay(s, e)
    \/ ExpiryRead(s)

RequestStep(s) ==
    \/ InitiateCommit(s) \/ InitiateFails(s) \/ ExpiryCommit(s)
    \/ ReplayCommit(s)
    \/ WebhookProcessed(s) \/ WebhookRaised(s) \/ CorporateRaised(s)
    \/ HandlerNext(s)

WorkerStep ==
    WorkerBegin \/ WorkerNext \/ WorkerProcessed \/ WorkerRaised
        \/ WorkerCommit \/ HandlerNext(Worker)

KycNext ==
    \/ \E u \in Users : \/ \E a \in Answers : Review(u, a)
                        \/ SetExpiry(u) \/ ExpiryPasses(u) \/ DeployTask(u)
    \/ \E s \in Slots : RequestStart(s) \/ RequestStep(s)
    \/ WorkerStep
    \/ \E s \in Sessions : Crash(s)

KycSpec == KycInit /\ [][KycNext]_kycVars /\ WF_kycVars(WorkerStep)

(* Also: requests end, and the provider repeats its webhooks until heard.  *)
FairKycSpec ==
    /\ KycSpec
    /\ \A s \in Slots : WF_kycVars(RequestStep(s))
    /\ \A s \in Slots, u \in Users :
           /\ SF_kycVars(Webhook(s, u, "GREEN"))
           /\ SF_kycVars(CorporateWebhook(s, u, "GREEN"))

-----------------------------------------------------------------------------
(* A wallet is registered only when its identity has all its claims,     *)
(* and a user has an onchain_id only when its wallet is registered: also   *)
(* when endpoint and worker handle one event at a time, and whatever fails *)
(* or is retried.                                                          *)
IdentityInOrder ==
    \A u \in Users :
        /\ identity[u].registered => identity[u].claims = Topics
        /\ kyc[u].onchain_id => identity[u].registered

(* Whoever may invest was found GREEN by the provider: no expiry, second   *)
(* application or stale session brings an approval about.                  *)
InvestorsWereGreen ==
    \A u \in Users :
        kyc[u].status = "approved" /\ kyc[u].level >= 2 => "GREEN" \in verdicts[u]

Waiting(e) == e \in DOMAIN events /\ events[e].status = "pending"

(* Every stored webhook is in the end processed or a dead letter.          *)
EventsSettle == \A e \in 1..MaxEvents : Waiting(e) ~> ~Waiting(e)

(* An applicant whom the provider has found GREEN does not stay pending,   *)
(* at the first or at a later try: a rejected user is told to try again.   *)
ApplicantsAnswered ==
    \A u \in Users :
        (kyc[u].status = "pending" /\ "GREEN" \in verdicts[u])
            ~> (kyc[u].status # "pending")
=============================================================================
