----------------------------- MODULE KycProofs ------------------------------
(* Theorems about identity verification, for any users, any number of      *)
(* requests at a time and of claim topics, with or without credentials.    *)
EXTENDS Kyc, SequenceTheorems, TLAPS

-----------------------------------------------------------------------------
(* Types.                                                                  *)

Answer == {"GREEN", "RED", "none"}
Marker == {"pending", "processed", "failed"}
Stage  == {"read", "claims", "notify", "audit", "mark", "raised", "next"}

UserRow  == [status : {"none", "pending", "approved", "rejected", "expired",
                       "unread"},
             level : Nat, onchain_id : BOOLEAN]
EventRow == [user : Users, answer : Answer, status : Marker, attempts : Nat]
Wallet   == [deployed : BOOLEAN, claims : SUBSET Topics, registered : BOOLEAN]

(* What is kept per event, and what is marked on one.                      *)
PerEvent(V) == UNION {[S -> V] : S \in SUBSET Nat}
Note == [status : Marker] \cup [attempts : Nat]
            \cup [attempts : Nat, status : Marker]

Asked   == [kind : {"initiate", "expire"}, seen : [Users -> UserRow],
            mine : [Users -> UserRow]]
Redone  == [kind : {"replay"}, event : Nat, read : EventRow]
Handler == [kind : {"webhook", "kyb", "worker"}, seen : [Users -> UserRow],
            mine : [Users -> UserRow], event : Nat, user : Users,
            answer : Answer, level : Nat, stage : Stage, step : Nat,
            todo : PerEvent(Nat), marks : PerEvent(Note)]

LEMMA PerEventFacts ==
    ASSUME NEW V
    PROVE  /\ NoEvents \in PerEvent(V)
           /\ \A f \in PerEvent(V) :
                 /\ DOMAIN f \subseteq Nat
                 /\ \A e \in DOMAIN f : f[e] \in V
           /\ \A S \in SUBSET Nat : \A f \in [S -> V] : f \in PerEvent(V)
<1>1. NoEvents \in [{} -> V]
  BY DEF NoEvents
<1> QED
  BY <1>1 DEF PerEvent

(* The invariant.  In a row of users, as it is or as a session will commit *)
(* it, an approval was the provider's and an identity is registered;       *)
RowFine(row, answers, wallet) ==
    /\ row.status = "approved" => "GREEN" \in answers
    /\ row.onchain_id => wallet.registered

RowsFine(rows, V, I) ==
    /\ rows \in [Users -> UserRow]
    /\ \A u \in Users : RowFine(rows[u], V[u], I[u])

(* a wallet is registered with all its claims;                             *)
WalletsFine(I) ==
    /\ I \in [Users -> Wallet]
    /\ \A u \in Users : I[u].registered => I[u].claims = Topics

(* a stored webhook has an answer that was given;                          *)
Given(a, answers) == a = "none" \/ a \in answers

EventsFine(E, V) ==
    /\ E \in Seq(EventRow)
    /\ \A e \in DOMAIN E : Given(E[e].answer, V[E[e].user])

(* a handler that has come to claim k has issued those before it.          *)
HandlerFine(j, V, I, E) ==
    /\ j \in Handler
    /\ RowsFine(j.mine, V, I)
    /\ Given(j.answer, V[j.user])
    /\ j.stage = "read" => j.step = 0
    /\ j.stage = "claims" => /\ j.step <= LastTopic + 1
                             /\ \A k \in Topics : k < j.step =>
                                    k \in I[j.user].claims
    /\ DOMAIN j.todo \subseteq DOMAIN E
    /\ j.kind = "worker" /\ j.stage # "next" => j.event \in DOMAIN j.todo

SessionFine(j, V, I, E) ==
    \/ j = Idle
    \/ j \in Redone
    \/ j \in Asked /\ RowsFine(j.mine, V, I)
    \/ HandlerFine(j, V, I, E)

KycInv ==
    /\ verdicts \in [Users -> SUBSET Answer]
    /\ WalletsFine(identity)
    /\ RowsFine(kyc, verdicts, identity)
    /\ EventsFine(events, verdicts)
    /\ session \in [Sessions -> Handler \cup Asked \cup Redone \cup {Idle}]
    /\ \A s \in Sessions : SessionFine(session[s], verdicts, identity, events)

-----------------------------------------------------------------------------
(* Answers, claims and events are added and never taken away.              *)

Grows(V, W) == \A u \in Users : V[u] \subseteq W[u]

WalletsGrow(I, J) ==
    \A u \in Users : /\ I[u].claims \subseteq J[u].claims
                     /\ I[u].registered => J[u].registered

LEMMA StillFine ==
    ASSUME NEW V, NEW W, NEW I, NEW J, NEW E, NEW F, NEW j,
           Grows(V, W), WalletsGrow(I, J), DOMAIN E \subseteq DOMAIN F,
           SessionFine(j, V, I, E)
    PROVE  SessionFine(j, W, J, F)
<1>1. ASSUME NEW rows, RowsFine(rows, V, I)
      PROVE  RowsFine(rows, W, J)
  BY <1>1 DEF RowsFine, RowFine, Grows, WalletsGrow
<1>2. ASSUME HandlerFine(j, V, I, E)
      PROVE  HandlerFine(j, W, J, F)
  <2>1. j \in Handler /\ j.user \in Users
    BY <1>2 DEF HandlerFine, Handler
  <2> QED
    BY <1>1, <1>2, <2>1 DEF HandlerFine, Given, Grows, WalletsGrow
<1> QED
  BY <1>1, <1>2 DEF SessionFine

(* A step that changes one session at most and keeps the rest in order.    *)
LEMMA OneSession ==
    ASSUME KycInv, NEW s \in Sessions, NEW k,
           session' = [session EXCEPT ![s] = k],
           SessionFine(k, verdicts', identity', events'),
           verdicts' \in [Users -> SUBSET Answer], Grows(verdicts, verdicts'),
           WalletsFine(identity'), WalletsGrow(identity, identity'),
           DOMAIN events \subseteq DOMAIN events',
           EventsFine(events', verdicts'), RowsFine(kyc', verdicts', identity')
    PROVE  KycInv'
<1> DEFINE V == verdicts'
           I == identity'
           E == events'
<1> HIDE DEF V, I, E
<1>1. ASSUME NEW r \in Sessions
      PROVE  SessionFine(session[r], V, I, E)
  <2>1. SessionFine(session[r], verdicts, identity, events)
    BY DEF KycInv
  <2> QED
    BY <2>1, StillFine DEF V, I, E
<1>2. k \in Handler \cup Asked \cup Redone \cup {Idle}
  BY DEF SessionFine, HandlerFine
<1>3. session' \in [Sessions -> Handler \cup Asked \cup Redone \cup {Idle}]
  BY <1>2 DEF KycInv
<1>4. \A r \in Sessions : session'[r] = IF r = s THEN k ELSE session[r]
  BY DEF KycInv
<1>5. \A r \in Sessions : SessionFine(session'[r], V, I, E)
  BY <1>1, <1>4 DEF V, I, E
<1> QED
  BY <1>3, <1>5 DEF KycInv, V, I, E

(* The usual case: nothing else changes.                                   *)
LEMMA OnlySession ==
    ASSUME KycInv, NEW s \in Sessions, NEW k,
           session' = [session EXCEPT ![s] = k],
           SessionFine(k, verdicts, identity, events),
           UNCHANGED <<verdicts, kyc, events, identity>>
    PROVE  KycInv'
  BY OneSession DEF KycInv, Grows, WalletsGrow

LEMMA NoSession ==
    ASSUME KycInv, UNCHANGED <<kyc, events, session>>,
           verdicts' \in [Users -> SUBSET Answer], Grows(verdicts, verdicts'),
           WalletsFine(identity'), WalletsGrow(identity, identity')
    PROVE  KycInv'
<1> DEFINE V == verdicts'
           I == identity'
<1> HIDE DEF V, I
<1>1. ASSUME NEW r \in Sessions
      PROVE  SessionFine(session[r], V, I, events)
  <2>1. SessionFine(session[r], verdicts, identity, events)
    BY DEF KycInv
  <2> QED
    BY <2>1, StillFine DEF V, I
<1>2. RowsFine(kyc, V, I)
  BY DEF KycInv, RowsFine, RowFine, Grows, WalletsGrow, V, I
<1>3. EventsFine(events, V)
  <2>1. \A e \in DOMAIN events : events[e] \in EventRow
    BY DEF KycInv, EventsFine
  <2>2. \A e \in DOMAIN events : events[e].user \in Users
    BY <2>1 DEF EventRow
  <2> QED
    BY <2>2 DEF KycInv, EventsFine, Given, Grows, V
<1> QED
  BY <1>1, <1>2, <1>3 DEF KycInv, V, I

-----------------------------------------------------------------------------
(* Commits.                                                                *)

LEMMA FlushedFine ==
    ASSUME KycInv, NEW j, j.seen \in [Users -> UserRow],
           RowsFine(j.mine, verdicts, identity)
    PROVE  RowsFine(Flushed(j), verdicts, identity)
<1>1. ASSUME NEW u \in Users
      PROVE  /\ Flushed(j)[u] \in UserRow
             /\ RowFine(Flushed(j)[u], verdicts[u], identity[u])
  <2> DEFINE a == kyc[u]
             b == j.mine[u]
             c == j.seen[u]
             m == [f \in DOMAIN a |-> IF b[f] = c[f] THEN a[f] ELSE b[f]]
  <2>1. /\ a \in UserRow /\ b \in UserRow /\ c \in UserRow
        /\ RowFine(a, verdicts[u], identity[u])
        /\ RowFine(b, verdicts[u], identity[u])
    BY DEF KycInv, RowsFine
  <2>2. m \in UserRow /\ m.status \in {a.status, b.status}
        /\ m.onchain_id \in {a.onchain_id, b.onchain_id}
    BY <2>1 DEF UserRow
  <2>3. Flushed(j)[u] = IF c = Unread THEN a ELSE m
    BY DEF Flushed
  <2> HIDE DEF a, b, c, m
  <2>4. RowFine(m, verdicts[u], identity[u])
    BY <2>1, <2>2 DEF RowFine
  <2> QED
    BY <2>1, <2>2, <2>3, <2>4
<1>2. Flushed(j) \in [Users -> UserRow]
  BY <1>1 DEF Flushed
<1> QED
  BY <1>1, <1>2 DEF RowsFine

LEMMA MarkedFine ==
    ASSUME KycInv, NEW j \in Handler, NEW e \in DOMAIN events
    PROVE  /\ Marked(e, j) \in EventRow
           /\ Marked(e, j).user = events[e].user
           /\ Marked(e, j).answer = events[e].answer
<1>1. events[e] \in EventRow
  BY DEF KycInv, EventsFine
<1>2. CASE e \in DOMAIN j.marks
  <2>1. j.marks[e] \in Note
    <3>1. j.marks \in PerEvent(Note)
      BY DEF Handler
    <3> QED
      BY <1>2, <3>1, PerEventFacts
  <2> DEFINE m == j.marks[e]
             r == events[e]
  <2>2. Marked(e, j) = [f \in DOMAIN r |-> IF f \in DOMAIN m THEN m[f] ELSE r[f]]
    BY <1>2 DEF Marked
  <2> HIDE DEF m, r
  <2> QED
    BY <1>1, <2>1, <2>2 DEF EventRow, Note, m, r
<1>3. CASE e \notin DOMAIN j.marks
  BY <1>1, <1>3 DEF Marked
<1> QED
  BY <1>2, <1>3

LEMMA CommitFine ==
    ASSUME KycInv, NEW j, HandlerFine(j, verdicts, identity, events),
           NEW status \in Marker, NEW attempts \in Nat,
           Commit(j, status, attempts)
    PROVE  /\ RowsFine(kyc', verdicts, identity)
           /\ EventsFine(events', verdicts)
           /\ DOMAIN events \subseteq DOMAIN events'
<1> DEFINE old == [e \in DOMAIN events |-> Marked(e, j)]
           row == Row(j, status, attempts)
<1>1. RowsFine(kyc', verdicts, identity)
  BY FlushedFine DEF Commit, HandlerFine, Handler
<1>2. events \in Seq(EventRow) /\ Len(events) \in Nat
      /\ DOMAIN events = 1..Len(events)
  BY DEF KycInv, EventsFine
<1>3. \A e \in DOMAIN events : /\ old[e] \in EventRow
                               /\ old[e].user = events[e].user
                               /\ old[e].answer = events[e].answer
  BY MarkedFine DEF HandlerFine
<1>4. old \in Seq(EventRow) /\ Len(old) = Len(events) /\ DOMAIN old = DOMAIN events
  BY <1>2, <1>3
<1>5. row \in EventRow /\ row.user = j.user /\ row.answer = j.answer
  BY DEF Row, EventRow, HandlerFine, Handler
<1>6. EventsFine(old, verdicts)
  BY <1>3, <1>4 DEF KycInv, EventsFine
<1> HIDE DEF old, row
<1>7. EventsFine(Append(old, row), verdicts)
  <2>1. Given(row.answer, verdicts[row.user])
    BY <1>5 DEF HandlerFine
  <2>2. /\ Append(old, row) \in Seq(EventRow)
        /\ DOMAIN Append(old, row) = 1..Len(old) + 1
        /\ \A e \in 1..Len(old) : Append(old, row)[e] = old[e]
        /\ Append(old, row)[Len(old) + 1] = row
    BY <1>4, <1>5
  <2>3. \A e \in 1..Len(old) + 1 : e \in 1..Len(old) \/ e = Len(old) + 1
    BY <1>2, <1>4
  <2> QED
    BY <1>2, <1>4, <1>6, <2>1, <2>2, <2>3 DEF EventsFine
<1>8. DOMAIN old \subseteq DOMAIN Append(old, row)
  BY <1>2, <1>4, <1>5
<1>9. events' = old \/ events' = Append(old, row)
  BY DEF Commit, old, row
<1> QED
  BY <1>1, <1>4, <1>6, <1>7, <1>8, <1>9

-----------------------------------------------------------------------------
(* The steps.                                                              *)

LEMMA Handles ==
    ASSUME KycInv, NEW s \in Sessions,
           session[s].kind \in {"webhook", "kyb", "worker"}
    PROVE  HandlerFine(session[s], verdicts, identity, events)
<1>1. SessionFine(session[s], verdicts, identity, events)
  BY DEF KycInv
<1> QED
  BY <1>1 DEF SessionFine, Idle, Redone, Asked

LEMMA Asks ==
    ASSUME KycInv, NEW s \in Sessions, session[s].kind \in {"initiate", "expire"}
    PROVE  session[s] \in Asked /\ RowsFine(session[s].mine, verdicts, identity)
<1>1. SessionFine(session[s], verdicts, identity, events)
  BY DEF KycInv
<1> QED
  BY <1>1 DEF SessionFine, Idle, Redone, Asked, HandlerFine, Handler

LEMMA EndFine ==
    ASSUME KycInv, NEW s \in Sessions, End(s),
           UNCHANGED <<verdicts, kyc, events, identity>>
    PROVE  KycInv'
<1>1. SessionFine(Idle, verdicts, identity, events)
  BY DEF SessionFine
<1> QED
  BY <1>1, OnlySession DEF End

(* The provider's reviews, expiry dates and the deployment task.           *)
LEMMA OutsideFine ==
    ASSUME KycInv, NEW u \in Users,
           \/ \E a \in Answers : Review(u, a)
           \/ SetExpiry(u) \/ ExpiryPasses(u) \/ DeployTask(u)
    PROVE  KycInv'
<1>1. ASSUME NEW a \in Answers, Review(u, a)
      PROVE  KycInv'
  <2>1. /\ verdicts' = [verdicts EXCEPT ![u] = @ \cup {a}]
        /\ UNCHANGED <<kyc, events, session, identity>>
    BY <1>1 DEF Review, kycRows, onchain
  <2>2. a \in Answer
    BY KycAssumption DEF Answer
  <2>3. verdicts \in [Users -> SUBSET Answer] /\ WalletsFine(identity)
    BY DEF KycInv
  <2>4. verdicts' \in [Users -> SUBSET Answer] /\ Grows(verdicts, verdicts')
    BY <2>1, <2>2, <2>3 DEF Grows
  <2> QED
    BY <2>1, <2>3, <2>4, NoSession DEF WalletsGrow
<1>2. CASE SetExpiry(u) \/ ExpiryPasses(u)
  <2>1. UNCHANGED <<kyc, events, session, verdicts, identity>>
    BY <1>2 DEF SetExpiry, ExpiryPasses, kycRows, onchain
  <2> QED
    BY <2>1, NoSession DEF KycInv, Grows, WalletsGrow
<1>3. CASE DeployTask(u)
  <2>1. /\ UNCHANGED <<kyc, events, session, verdicts>>
        /\ identity' \in {identity, [identity EXCEPT ![u] = deploy_identity(@)]}
    BY <1>3 DEF DeployTask, kycRows
  <2>2. identity \in [Users -> Wallet] /\ WalletsFine(identity)
    BY DEF KycInv, WalletsFine
  <2>3. deploy_identity(identity[u]) \in Wallet
        /\ deploy_identity(identity[u]).claims = identity[u].claims
        /\ deploy_identity(identity[u]).registered = identity[u].registered
    BY <2>2 DEF Wallet, deploy_identity
  <2>4. WalletsFine(identity') /\ WalletsGrow(identity, identity')
    BY <2>1, <2>2, <2>3 DEF WalletsFine, WalletsGrow
  <2> QED
    BY <2>1, <2>4, NoSession DEF KycInv, Grows
<1> QED
  BY <1>1, <1>2, <1>3

LEMMA ApplyFine ==
    ASSUME KycInv, NEW s \in Sessions, NEW u \in Users, Apply(s, u)
    PROVE  KycInv'
<1> DEFINE row == [kyc[u] EXCEPT !.status = "pending"]
           seen == [NoUsers EXCEPT ![u] = kyc[u]]
           mine == [NoUsers EXCEPT ![u] = row]
           k == Open("initiate", seen, mine)
<1>1. session' = [session EXCEPT ![s] = k]
      /\ UNCHANGED <<verdicts, kyc, events, identity>>
  BY DEF Apply, Start, kycRows, onchain
<1>2. Unread \in UserRow /\ \A V, I : RowFine(Unread, V, I)
  BY DEF Unread, UserRow, RowFine
<1>3. kyc \in [Users -> UserRow] /\ RowFine(kyc[u], verdicts[u], identity[u])
  BY DEF KycInv, RowsFine
<1>4. row \in UserRow /\ RowFine(row, verdicts[u], identity[u])
  BY <1>3 DEF UserRow, RowFine
<1> HIDE DEF row
<1>5. seen \in [Users -> UserRow] /\ RowsFine(mine, verdicts, identity)
  BY <1>2, <1>3, <1>4 DEF NoUsers, RowsFine
<1> HIDE DEF seen, mine
<1>6. k \in Asked /\ k.mine = mine
  BY <1>5 DEF Open, Asked, RowsFine
<1> QED
  BY <1>1, <1>5, <1>6, OnlySession DEF SessionFine

LEMMA ExpiryReadFine ==
    ASSUME KycInv, NEW s \in Sessions, ExpiryRead(s)
    PROVE  KycInv'
<1> DEFINE seen == [u \in Users |-> IF Expired(u) THEN kyc[u] ELSE Unread]
           mine == [u \in Users |-> IF Expired(u)
                                    THEN [kyc[u] EXCEPT !.status = "expired",
                                                        !.level = 0]
                                    ELSE Unread]
           k == Open("expire", seen, mine)
<1>1. session' = [session EXCEPT ![s] = k]
      /\ UNCHANGED <<verdicts, kyc, events, identity>>
  BY DEF ExpiryRead, Start, kycRows, onchain
<1>2. Unread \in UserRow /\ \A V, I : RowFine(Unread, V, I)
  BY DEF Unread, UserRow, RowFine
<1>3. kyc \in [Users -> UserRow]
      /\ \A u \in Users : RowFine(kyc[u], verdicts[u], identity[u])
  BY DEF KycInv, RowsFine
<1>4. ASSUME NEW u \in Users
      PROVE  mine[u] \in UserRow /\ RowFine(mine[u], verdicts[u], identity[u])
  <2> DEFINE row == [kyc[u] EXCEPT !.status = "expired", !.level = 0]
  <2>1. row \in UserRow /\ RowFine(row, verdicts[u], identity[u])
    BY <1>3 DEF UserRow, RowFine
  <2>2. mine[u] = IF Expired(u) THEN row ELSE Unread
    OBVIOUS
  <2> HIDE DEF row, mine
  <2> QED
    BY <1>2, <2>1, <2>2
<1>5. seen \in [Users -> UserRow] /\ mine \in [Users -> UserRow]
  BY <1>2, <1>3, <1>4
<1>6. RowsFine(mine, verdicts, identity)
  BY <1>4, <1>5 DEF RowsFine
<1> HIDE DEF seen, mine
<1>7. k \in Asked /\ k.mine = mine
  BY <1>5 DEF Open, Asked
<1> QED
  BY <1>1, <1>6, <1>7, OnlySession DEF SessionFine

(* A session that commits its users and ends.                              *)
LEMMA FlushFine ==
    ASSUME KycInv, NEW s \in Sessions, End(s), kyc' = Flushed(session[s]),
           session[s].seen \in [Users -> UserRow],
           RowsFine(session[s].mine, verdicts, identity),
           UNCHANGED <<verdicts, identity>>,
           EventsFine(events', verdicts), DOMAIN events \subseteq DOMAIN events'
    PROVE  KycInv'
<1>1. SessionFine(Idle, verdicts', identity', events')
  BY DEF SessionFine
<1>2. RowsFine(kyc', verdicts', identity')
  BY FlushedFine
<1> QED
  BY <1>1, <1>2, OneSession DEF End, KycInv, Grows, WalletsGrow

LEMMA AskedFine ==
    ASSUME KycInv, NEW s \in Sessions,
           InitiateCommit(s) \/ ExpiryCommit(s) \/ InitiateFails(s)
    PROVE  KycInv'
<1>1. session[s] \in Asked /\ RowsFine(session[s].mine, verdicts, identity)
  BY Asks DEF InitiateCommit, ExpiryCommit, InitiateFails
<1>2. session[s].seen \in [Users -> UserRow]
  BY <1>1 DEF Asked
<1>3. CASE InitiateCommit(s) \/ ExpiryCommit(s)
  <2>1. /\ End(s) /\ kyc' = Flushed(session[s])
        /\ UNCHANGED <<verdicts, identity, events>>
    BY <1>3 DEF InitiateCommit, ExpiryCommit, onchain
  <2> QED
    BY <1>1, <1>2, <2>1, FlushFine DEF KycInv
<1>4. CASE InitiateFails(s)
  BY <1>4, EndFine DEF InitiateFails, kycRows, onchain
<1> QED
  BY <1>3, <1>4

(* A handler that only moves on, to a stage that asks for nothing.         *)
Past == {"notify", "audit", "mark", "raised"}

LEMMA MovesOn ==
    ASSUME NEW V, NEW I, NEW E, NEW j, HandlerFine(j, V, I, E), j.stage # "next",
           NEW stage \in Past
    PROVE  HandlerFine([j EXCEPT !.stage = stage], V, I, E)
<1> DEFINE k == [j EXCEPT !.stage = stage]
<1>1. j \in Handler
  BY DEF HandlerFine
<1>2. /\ k \in Handler /\ k.kind = j.kind /\ k.mine = j.mine /\ k.event = j.event
      /\ k.user = j.user /\ k.answer = j.answer /\ k.todo = j.todo
      /\ k.stage = stage
  BY <1>1 DEF Handler, Past, Stage
<1> HIDE DEF k
<1>3. k.stage # "read" /\ k.stage # "claims"
  BY <1>2 DEF Past
<1>4. HandlerFine(k, V, I, E)
  BY <1>2, <1>3 DEF HandlerFine
<1> QED
  BY <1>4 DEF k

LEMMA ReviewedFine ==
    ASSUME NEW row \in UserRow, NEW a, NEW l \in Nat, NEW answers, NEW wallet,
           RowFine(row, answers, wallet), Given(a, answers)
    PROVE  Reviewed(row, a, l) \in UserRow /\ RowFine(Reviewed(row, a, l), answers, wallet)
<1>1. CASE a = "GREEN"
  BY <1>1 DEF Reviewed, UserRow, RowFine, Given
<1>2. CASE a = "RED"
  BY <1>2 DEF Reviewed, UserRow, RowFine
<1>3. CASE a # "GREEN" /\ a # "RED"
  BY <1>3 DEF Reviewed
<1> QED
  BY <1>1, <1>2, <1>3

LEMMA ReadUserFine ==
    ASSUME KycInv, NEW s \in Sessions, ReadUser(s)
    PROVE  KycInv'
<1> DEFINE j == session[s]
           u == j.user
           k == Load(j, u)
           row == Reviewed(k.mine[u], j.answer, j.level)
           done == [k EXCEPT !.mine[u] = row, !.stage = AfterRead(j)]
<1>1. HandlerFine(j, verdicts, identity, events) /\ j.stage = "read"
  BY Handles DEF ReadUser
<1>2. j \in Handler /\ u \in Users /\ j.mine \in [Users -> UserRow] /\ j.step = 0
      /\ j.seen \in [Users -> UserRow] /\ j.level \in Nat
  BY <1>1 DEF HandlerFine, Handler
<1>3. /\ kyc \in [Users -> UserRow] /\ RowFine(kyc[u], verdicts[u], identity[u])
      /\ \A v \in Users : RowFine(j.mine[v], verdicts[v], identity[v])
  BY <1>1, <1>2 DEF KycInv, HandlerFine, RowsFine
<1>4. /\ k \in Handler /\ k.kind = j.kind /\ k.event = j.event /\ k.user = u
      /\ k.answer = j.answer /\ k.todo = j.todo /\ k.step = j.step
      /\ k.stage = j.stage
      /\ k.mine \in {j.mine, [j.mine EXCEPT ![u] = kyc[u]]}
  <2>1. CASE j.seen[u] # Unread
    BY <1>2, <2>1 DEF Load
  <2>2. CASE ~(j.seen[u] # Unread)
    BY <1>2, <1>3, <2>2 DEF Load, Handler
  <2> QED
    BY <2>1, <2>2
<1>5. k.mine \in [Users -> UserRow]
      /\ \A v \in Users : RowFine(k.mine[v], verdicts[v], identity[v])
  BY <1>2, <1>3, <1>4
<1>6. HandlerFine(k, verdicts, identity, events)
  BY <1>1, <1>4, <1>5 DEF HandlerFine, RowsFine
<1>7. row \in UserRow /\ RowFine(row, verdicts[u], identity[u])
  BY <1>1, <1>2, <1>5, ReviewedFine DEF HandlerFine
<1>8. AfterRead(j) \in {"claims", "audit", "notify"}
  BY DEF AfterRead
<1> HIDE DEF row, k
<1>9. HandlerFine(done, verdicts, identity, events)
  <2>1. /\ done \in Handler /\ done.kind = j.kind /\ done.event = j.event
        /\ done.user = u /\ done.answer = j.answer /\ done.todo = j.todo
        /\ done.step = 0 /\ done.stage = AfterRead(j)
        /\ done.mine = [k.mine EXCEPT ![u] = row]
    BY <1>2, <1>4, <1>7, <1>8 DEF Handler, Stage
  <2> HIDE DEF done
  <2>2. RowsFine(done.mine, verdicts, identity)
    BY <1>2, <1>5, <1>7, <2>1 DEF RowsFine
  <2>3. LastTopic \in Nat /\ \A t \in Topics : ~(t < 0)
    BY KycAssumption DEF Topics
  <2> QED
    BY <1>1, <1>8, <2>1, <2>2, <2>3 DEF HandlerFine
<1>10. HandlerFine([k EXCEPT !.stage = "raised"], verdicts, identity, events)
  BY <1>1, <1>4, <1>6, MovesOn DEF Past
<1>11. /\ UNCHANGED <<verdicts, kyc, events, identity>>
       /\ session' = [session EXCEPT ![s] =
              IF ManyApplications(u) THEN [k EXCEPT !.stage = "raised"] ELSE done]
  BY DEF ReadUser, kycRows, onchain, k, row
<1> HIDE DEF done
<1> QED
  BY <1>9, <1>10, <1>11, OnlySession DEF SessionFine

(* What the k-th transaction of a registration makes of a wallet that has  *)
(* had those before it.                                                    *)
Advanced(i, w, k) ==
    /\ w \in Wallet
    /\ i.claims \subseteq w.claims
    /\ i.registered => w.registered
    /\ w.registered => w.claims = Topics
    /\ \A t \in Topics : t < k + 1 => t \in w.claims
    /\ k = LastTopic + 1 => w.registered

LEMMA TransactionFine ==
    ASSUME KycInv, NEW u \in Users, NEW k \in 0..LastTopic + 1,
           \A t \in Topics : t < k => t \in identity[u].claims
    PROVE  Advanced(identity[u], Transaction(identity[u], k), k)
<1> DEFINE i == identity[u]
           w == Transaction(i, k)
<1>0. LastTopic \in Nat \ {0}
  BY KycAssumption
<1>1. i \in Wallet /\ (i.registered => i.claims = Topics)
  BY DEF KycInv, WalletsFine
<1>2. CASE k = 0
  <2>1. w = deploy_identity(i)
    BY <1>0, <1>2 DEF Transaction, Topics
  <2>2. w \in Wallet /\ w.claims = i.claims /\ w.registered = i.registered
    BY <1>1, <2>1 DEF deploy_identity, Wallet
  <2>3. \A t \in Topics : ~(t < k + 1)
    BY <1>0, <1>2 DEF Topics
  <2>4. k # LastTopic + 1
    BY <1>0, <1>2
  <2> HIDE DEF w
  <2>5. Advanced(i, w, k)
    BY <1>1, <2>2, <2>3, <2>4 DEF Advanced
  <2> QED
    BY <2>5 DEF w
<1>3. CASE k \in Topics
  <2>1. w = issue_claim(i, k)
    BY <1>0, <1>3 DEF Transaction, Topics
  <2>2. /\ w \in Wallet /\ w.claims = i.claims \cup {k}
        /\ w.registered = i.registered
    BY <1>1, <1>3, <2>1 DEF issue_claim, Wallet
  <2>3. \A t \in Topics : t < k + 1 => t < k \/ t = k
    BY <1>0, <1>3 DEF Topics
  <2>4. k # LastTopic + 1
    BY <1>0, <1>3 DEF Topics
  <2> HIDE DEF w
  <2>5. w.claims \subseteq Topics
    BY <2>2 DEF Wallet
  <2>6. Advanced(i, w, k)
    BY <1>1, <1>3, <2>2, <2>3, <2>4, <2>5 DEF Advanced
  <2> QED
    BY <2>6 DEF w
<1>4. CASE k = LastTopic + 1
  <2>1. w = register_identity(i)
    BY <1>0, <1>4 DEF Transaction, Topics
  <2>2. w \in Wallet /\ w.claims = i.claims /\ w.registered
    BY <1>1, <2>1 DEF register_identity, Wallet
  <2>3. \A t \in Topics : t < k
    BY <1>0, <1>4 DEF Topics
  <2>4. i.claims = Topics
    BY <1>1, <2>3 DEF Wallet
  <2> HIDE DEF w
  <2>5. Advanced(i, w, k)
    BY <2>2, <2>4 DEF Advanced
  <2> QED
    BY <2>5 DEF w
<1> QED
  BY <1>0, <1>2, <1>3, <1>4 DEF Topics

LEMMA RegistersFine ==
    ASSUME KycInv, NEW s \in Sessions, Registers(s)
    PROVE  KycInv'
<1> DEFINE j == session[s]
           u == j.user
           w == Transaction(identity[u], j.step)
           next == [j EXCEPT !.step = @ + 1]
           done == [j EXCEPT !.mine[u].onchain_id = TRUE, !.stage = "notify"]
<1>0. LastTopic \in Nat
  BY KycAssumption
<1>1. HandlerFine(j, verdicts, identity, events) /\ j.stage = "claims"
  BY Handles DEF Registers
<1>2. /\ j \in Handler /\ u \in Users /\ j.mine \in [Users -> UserRow]
      /\ j.step \in 0..LastTopic + 1
      /\ \A t \in Topics : t < j.step => t \in identity[u].claims
  BY <1>0, <1>1 DEF HandlerFine, Handler
<1>3. Advanced(identity[u], w, j.step)
  BY <1>2, TransactionFine
<1> HIDE DEF w
<1>4. /\ identity' = [identity EXCEPT ![u] = w]
      /\ UNCHANGED <<verdicts, kyc, events>>
      /\ session' = [session EXCEPT ![s] = IF j.step <= LastTopic THEN next ELSE done]
  BY DEF Registers, kycRows, w
<1>5. /\ WalletsFine(identity') /\ WalletsGrow(identity, identity')
      /\ identity'[u] = w
  BY <1>2, <1>3, <1>4 DEF KycInv, WalletsFine, WalletsGrow, Advanced
<1> DEFINE I == identity'
<1> HIDE DEF I
<1>6. HandlerFine(j, verdicts, I, events) /\ RowsFine(kyc, verdicts, I)
  <2>1. Grows(verdicts, verdicts) /\ WalletsGrow(identity, I)
    BY <1>5 DEF Grows, I
  <2>2. RowsFine(kyc, verdicts, I)
    BY <2>1 DEF KycInv, RowsFine, RowFine, WalletsGrow
  <2>3. SessionFine(j, verdicts, I, events)
    BY <1>1, <2>1, StillFine DEF SessionFine
  <2> QED
    BY <1>2, <2>2, <2>3 DEF SessionFine, Handler, Idle, Asked, Redone
<1>7. CASE j.step <= LastTopic
  <2>1. /\ next \in Handler /\ next.kind = j.kind /\ next.event = j.event
        /\ next.user = u /\ next.answer = j.answer /\ next.todo = j.todo
        /\ next.stage = "claims" /\ next.step = j.step + 1
        /\ next.mine = j.mine
    BY <1>1, <1>2 DEF Handler
  <2> HIDE DEF next
  <2>2. next.step <= LastTopic + 1
    BY <1>0, <1>2, <1>7, <2>1
  <2>3. HandlerFine(next, verdicts, I, events)
    BY <1>1, <1>3, <1>5, <1>6, <2>1, <2>2 DEF HandlerFine, I, Advanced
  <2> QED
    BY <1>4, <1>5, <1>6, <1>7, <2>3, OneSession DEF SessionFine, KycInv, Grows, I
<1>8. CASE ~(j.step <= LastTopic)
  <2> DEFINE row == [j.mine[u] EXCEPT !.onchain_id = TRUE]
  <2>1. w.registered
    BY <1>0, <1>2, <1>3, <1>8 DEF Advanced
  <2>2. row \in UserRow /\ row.status = j.mine[u].status
    BY <1>2 DEF UserRow
  <2>3. RowFine(row, verdicts[u], I[u])
    <3>1. RowFine(j.mine[u], verdicts[u], I[u])
      BY <1>2, <1>6 DEF HandlerFine, RowsFine
    <3> QED
      BY <1>5, <2>1, <2>2, <3>1 DEF RowFine, I
  <2>4. /\ done \in Handler /\ done.kind = j.kind /\ done.event = j.event
        /\ done.user = u /\ done.answer = j.answer /\ done.todo = j.todo
        /\ done.stage = "notify" /\ done.mine = [j.mine EXCEPT ![u] = row]
    BY <1>2, <2>2 DEF Handler, Stage
  <2> HIDE DEF done, row
  <2>5. RowsFine(done.mine, verdicts, I)
    BY <1>2, <1>6, <2>2, <2>3, <2>4 DEF HandlerFine, RowsFine
  <2>6. HandlerFine(done, verdicts, I, events)
    BY <1>1, <1>6, <2>4, <2>5 DEF HandlerFine
  <2> QED
    BY <1>4, <1>5, <1>6, <1>8, <2>6, OneSession DEF SessionFine, KycInv, Grows, I
<1> QED
  BY <1>7, <1>8

LEMMA MovesOnFine ==
    ASSUME KycInv, NEW s \in Sessions, RegisterFails(s) \/ NotifyFails(s)
    PROVE  KycInv'
<1> DEFINE j == session[s]
<1>1. /\ HandlerFine(j, verdicts, identity, events)
      /\ j.stage \in {"claims", "notify"}
      /\ UNCHANGED <<verdicts, kyc, events, identity>>
  BY Handles DEF RegisterFails, NotifyFails, kycRows, onchain
<1>2. PICK stage \in Past : session' = [session EXCEPT ![s] = [j EXCEPT !.stage = stage]]
  BY DEF RegisterFails, NotifyFails, Past
<1>3. HandlerFine([j EXCEPT !.stage = stage], verdicts, identity, events)
  BY <1>1, MovesOn
<1> QED
  BY <1>1, <1>2, <1>3, OnlySession DEF SessionFine

LEMMA CommittedFine ==
    ASSUME KycInv, NEW j, HandlerFine(j, verdicts, identity, events),
           j.stage # "next", NEW stage \in Past
    PROVE  HandlerFine([Committed(j) EXCEPT !.stage = stage],
                       verdicts, identity, events)
<1> DEFINE c == Committed(j)
<1>1. j \in Handler /\ Len(events) + 1 \in Nat /\ NoEvents \in PerEvent(Note)
  BY PerEventFacts DEF KycInv, HandlerFine, EventsFine
<1>2. PICK e \in Nat : /\ j.kind = "worker" => e = j.event
                       /\ c = [j EXCEPT !.seen = j.mine, !.marks = NoEvents, !.event = e]
  <2>1. CASE j.kind = "webhook" /\ j.event = 0
    BY <1>1, <2>1 DEF Committed
  <2>2. CASE ~(j.kind = "webhook" /\ j.event = 0)
    BY <1>1, <2>2 DEF Committed, Handler
  <2> QED
    BY <2>1, <2>2
<1>3. /\ c \in Handler /\ c.kind = j.kind /\ c.mine = j.mine
      /\ c.user = j.user /\ c.answer = j.answer /\ c.todo = j.todo
      /\ c.stage = j.stage /\ c.step = j.step /\ c.event = e
  BY <1>1, <1>2 DEF Handler
<1> HIDE DEF c
<1>4. HandlerFine(c, verdicts, identity, events)
  BY <1>2, <1>3 DEF HandlerFine
<1> QED
  BY <1>3, <1>4, MovesOn DEF c

(* A handler commits; its session goes on or ends.                         *)
LEMMA HandlerCommits ==
    ASSUME KycInv, NEW s \in Sessions, NEW status \in Marker, NEW attempts \in Nat,
           session[s].kind \in {"webhook", "kyb", "worker"},
           Commit(session[s], status, attempts),
           UNCHANGED <<verdicts, identity>>,
           NEW k, k = Idle \/ HandlerFine(k, verdicts, identity, events),
           session' = [session EXCEPT ![s] = k]
    PROVE  KycInv'
<1>1. /\ RowsFine(kyc', verdicts, identity)
      /\ EventsFine(events', verdicts)
      /\ DOMAIN events \subseteq DOMAIN events'
  BY Handles, CommitFine
<1> DEFINE E == events'
<1> HIDE DEF E
<1>2. SessionFine(k, verdicts, identity, E)
  <2>1. SessionFine(k, verdicts, identity, events)
    BY DEF SessionFine
  <2> QED
    BY <1>1, <2>1, StillFine DEF E, Grows, WalletsGrow
<1> QED
  BY <1>1, <1>2, OneSession DEF E, KycInv, Grows, WalletsGrow

LEMMA CommitsFine ==
    ASSUME KycInv, NEW s \in Sessions,
           Notify(s) \/ Handled(s) \/ WebhookRaised(s)
    PROVE  KycInv'
<1> DEFINE j == session[s]
<1>1. /\ j.kind \in {"webhook", "kyb", "worker"}
      /\ j.stage \in {"notify", "audit", "raised"}
      /\ UNCHANGED <<verdicts, identity>>
  BY DEF Notify, Handled, WebhookRaised, onchain
<1>2. HandlerFine(j, verdicts, identity, events)
  BY <1>1, Handles
<1>3. PICK k : /\ session' = [session EXCEPT ![s] = k]
               /\ \/ k = Idle
                  \/ \E stage \in Past : k = [Committed(j) EXCEPT !.stage = stage]
  <2>1. CASE Notify(s)
    BY <2>1 DEF Notify, Past
  <2>2. CASE Handled(s)
    BY <2>2 DEF Handled, Past
  <2>3. CASE WebhookRaised(s)
    BY <2>3 DEF WebhookRaised, End
  <2> QED
    BY <2>1, <2>2, <2>3
<1>4. k = Idle \/ HandlerFine(k, verdicts, identity, events)
  BY <1>1, <1>2, <1>3, CommittedFine
<1>5. \E n \in Nat : Commit(j, "pending", n)
  BY DEF Notify, Handled, WebhookRaised
<1> QED
  BY <1>1, <1>3, <1>4, <1>5, HandlerCommits DEF Marker

(* The endpoints.                                                          *)
LEMMA HandlingFine ==
    ASSUME NEW V, NEW I, NEW E, NEW kind \in {"webhook", "kyb", "worker"},
           NEW u \in Users, NEW a \in Answer, NEW l \in Nat, Given(a, V[u])
    PROVE  LET k == Handling(kind, 0, u, a, l)
           IN  /\ k \in Handler /\ RowsFine(k.mine, V, I)
               /\ kind # "worker" => HandlerFine(k, V, I, E)
<1> DEFINE k == Handling(kind, 0, u, a, l)
<1>1. Unread \in UserRow /\ RowsFine(NoUsers, V, I)
  BY DEF Unread, UserRow, RowFine, RowsFine, NoUsers
<1>2. NoEvents \in PerEvent(Nat) /\ NoEvents \in PerEvent(Note) /\ DOMAIN NoEvents = {}
  BY PerEventFacts DEF NoEvents
<1>3. NoUsers \in [Users -> UserRow]
  BY <1>1 DEF RowsFine
<1>4. /\ k \in Handler /\ k.kind = kind /\ k.mine = NoUsers /\ k.user = u
      /\ k.answer = a /\ k.todo = NoEvents /\ k.stage = "read" /\ k.step = 0
  BY <1>2, <1>3 DEF Handling, Handler, Stage
<1> HIDE DEF k
<1>5. RowsFine(k.mine, V, I) /\ (kind # "worker" => HandlerFine(k, V, I, E))
  BY <1>1, <1>2, <1>4 DEF HandlerFine
<1> QED
  BY <1>4, <1>5 DEF k

LEMMA WebhookFine ==
    ASSUME KycInv, NEW s \in Sessions, NEW u \in Users, NEW a \in Answers,
           Webhook(s, u, a) \/ CorporateWebhook(s, u, a)
    PROVE  KycInv'
<1>1. /\ a \in verdicts[u] /\ a \in Answer
      /\ UNCHANGED <<verdicts, kyc, events, identity>>
  BY KycAssumption DEF Webhook, CorporateWebhook, kycRows, onchain, Answer
<1>2. \E kind \in {"webhook", "kyb"}, l \in Nat :
          session' = [session EXCEPT ![s] = Handling(kind, 0, u, a, l)]
  BY DEF Webhook, CorporateWebhook, Start
<1>3. PICK kind \in {"webhook", "kyb"}, l \in Nat :
          session' = [session EXCEPT ![s] = Handling(kind, 0, u, a, l)]
  BY <1>2
<1>4. HandlerFine(Handling(kind, 0, u, a, l), verdicts, identity, events)
  BY <1>1, HandlingFine DEF Given
<1> QED
  BY <1>1, <1>3, <1>4, OnlySession DEF SessionFine

(* A change of an event's status and attempts.                             *)
LEMMA EventChanged ==
    ASSUME KycInv, NEW e, NEW status \in Marker, NEW attempts \in Nat,
           events' = [events EXCEPT ![e] = [events[e] EXCEPT !.status = status,
                                                             !.attempts = attempts]]
    PROVE  EventsFine(events', verdicts) /\ DOMAIN events = DOMAIN events'
<1>1. events \in Seq(EventRow) /\ DOMAIN events' = DOMAIN events
  BY DEF KycInv, EventsFine
<1>2. CASE e \in DOMAIN events
  <2> DEFINE row == [events[e] EXCEPT !.status = status, !.attempts = attempts]
  <2>1. events[e] \in EventRow
    BY <1>1, <1>2
  <2>2. row \in EventRow /\ row.user = events[e].user /\ row.answer = events[e].answer
    BY <2>1 DEF EventRow
  <2> HIDE DEF row
  <2>3. events' \in Seq(EventRow)
    BY <1>1, <1>2, <2>2 DEF row
  <2>4. \A d \in DOMAIN events : events'[d] = IF d = e THEN row ELSE events[d]
    BY DEF row
  <2> QED
    BY <1>1, <1>2, <2>2, <2>3, <2>4 DEF KycInv, EventsFine
<1>3. CASE e \notin DOMAIN events
  <2>1. events' = events
    BY <1>1, <1>3
  <2> QED
    BY <2>1 DEF KycInv
<1> QED
  BY <1>1, <1>2, <1>3

LEMMA WebhookProcessedFine ==
    ASSUME KycInv, NEW s \in Sessions, WebhookProcessed(s)
    PROVE  KycInv'
<1> DEFINE j == session[s]
<1>1. /\ HandlerFine(j, verdicts, identity, events)
      /\ End(s) /\ kyc' = Flushed(j) /\ UNCHANGED <<verdicts, identity>>
      /\ events' = [events EXCEPT ![j.event].status = "processed",
                                  ![j.event].attempts = 1]
  BY Handles DEF WebhookProcessed, onchain
<1>2. events' = [events EXCEPT ![j.event] = [events[j.event] EXCEPT
                                     !.status = "processed", !.attempts = 1]]
  BY <1>1 DEF KycInv, EventsFine
<1>3. EventsFine(events', verdicts) /\ DOMAIN events = DOMAIN events'
  BY <1>2, EventChanged DEF Marker
<1>4. j.seen \in [Users -> UserRow] /\ RowsFine(j.mine, verdicts, identity)
  BY <1>1 DEF HandlerFine, Handler
<1> QED
  BY <1>1, <1>3, <1>4, FlushFine

(* The worker.                                                             *)
LEMMA WorkerBeginFine ==
    ASSUME KycInv, WorkerBegin
    PROVE  KycInv'
<1> DEFINE u == CHOOSE v \in Users : TRUE
           h == Handling("worker", 0, u, "none", 2)
           todo == [e \in Pending |-> events[e].attempts]
           k == [h EXCEPT !.stage = "next", !.todo = todo]
<1>1. u \in Users
  BY KycAssumption
<1> HIDE DEF u
<1>2. h \in Handler /\ RowsFine(h.mine, verdicts, identity)
  BY <1>1, HandlingFine DEF Given, Answer
<1>3. todo \in PerEvent(Nat) /\ DOMAIN todo \subseteq DOMAIN events
  <2>1. \A e \in DOMAIN events : e \in Nat /\ events[e] \in EventRow
    BY DEF KycInv, EventsFine
  <2>2. Pending \in SUBSET Nat /\ Pending \subseteq DOMAIN events
    BY <2>1 DEF Pending
  <2>3. todo \in [Pending -> Nat]
    BY <2>1, <2>2 DEF EventRow
  <2> HIDE DEF todo
  <2> QED
    BY <2>2, <2>3, PerEventFacts
<1>4. h.answer = "none"
  BY DEF Handling
<1> HIDE DEF h, todo
<1>5. /\ k \in Handler /\ k.mine = h.mine /\ k.answer = "none" /\ k.stage = "next"
      /\ k.todo = todo
  BY <1>2, <1>3, <1>4 DEF Handler, Stage
<1> HIDE DEF k
<1>6. HandlerFine(k, verdicts, identity, events)
  BY <1>2, <1>3, <1>5 DEF HandlerFine, Given
<1>7. /\ session' = [session EXCEPT ![Worker] = k]
      /\ UNCHANGED <<verdicts, kyc, events, identity>>
  BY DEF WorkerBegin, Start, kycRows, onchain, k, h, todo, u
<1> QED
  BY <1>6, <1>7, OnlySession DEF SessionFine, Sessions

LEMMA WorkerNextFine ==
    ASSUME KycInv, WorkerNext
    PROVE  KycInv'
<1> DEFINE j == session[Worker]
<1>1. Worker \in Sessions /\ UNCHANGED <<verdicts, kyc, events, identity>>
  BY DEF Sessions, WorkerNext, kycRows, onchain
<1>2. HandlerFine(j, verdicts, identity, events) /\ j \in Handler
  BY <1>1, Handles DEF WorkerNext, HandlerFine
<1>3. PICK e \in DOMAIN j.todo :
         session' = [session EXCEPT ![Worker] =
             [j EXCEPT !.event = e, !.user = events[e].user,
                       !.answer = events[e].answer, !.stage = "read", !.step = 0]]
  BY DEF WorkerNext
<1> DEFINE k == [j EXCEPT !.event = e, !.user = events[e].user,
                          !.answer = events[e].answer, !.stage = "read", !.step = 0]
<1>4. e \in DOMAIN events
  BY <1>2, <1>3 DEF HandlerFine
<1>5. /\ events[e] \in EventRow /\ e \in Nat
      /\ Given(events[e].answer, verdicts[events[e].user])
  BY <1>4 DEF KycInv, EventsFine
<1>6. events[e].user \in Users /\ events[e].answer \in Answer
  BY <1>5 DEF EventRow
<1>7. /\ k \in Handler /\ k.mine = j.mine /\ k.event = e /\ k.user = events[e].user
      /\ k.answer = events[e].answer /\ k.stage = "read" /\ k.step = 0
      /\ k.todo = j.todo
  BY <1>2, <1>5, <1>6 DEF Handler, Stage
<1> HIDE DEF k
<1>8. HandlerFine(k, verdicts, identity, events)
  BY <1>2, <1>3, <1>5, <1>7 DEF HandlerFine
<1> QED
  BY <1>1, <1>3, <1>8, OnlySession DEF SessionFine, k

LEMMA MarkFine ==
    ASSUME KycInv, session[Worker].kind = "worker", NEW m \in Note, Mark(m),
           UNCHANGED <<verdicts, kyc, events, identity>>
    PROVE  KycInv'
<1> DEFINE j == session[Worker]
           marks == [e \in DOMAIN j.marks \cup {j.event} |->
                        IF e = j.event THEN m ELSE j.marks[e]]
           todo == [e \in DOMAIN j.todo \ {j.event} |-> j.todo[e]]
           k == [j EXCEPT !.marks = marks, !.todo = todo, !.stage = "next"]
<1>1. Worker \in Sessions
  BY DEF Sessions
<1>2. HandlerFine(j, verdicts, identity, events) /\ j \in Handler
  BY <1>1, Handles DEF HandlerFine
<1>3. j.marks \in PerEvent(Note) /\ j.todo \in PerEvent(Nat) /\ j.event \in Nat
  BY <1>2 DEF Handler
<1>4. marks \in PerEvent(Note)
  <2>1. /\ DOMAIN j.marks \cup {j.event} \in SUBSET Nat
        /\ \A e \in DOMAIN j.marks : j.marks[e] \in Note
    BY <1>3, PerEventFacts
  <2>2. marks \in [DOMAIN j.marks \cup {j.event} -> Note]
    BY <2>1
  <2> HIDE DEF marks
  <2> QED
    BY <2>1, <2>2, PerEventFacts
<1>5. todo \in PerEvent(Nat) /\ DOMAIN todo \subseteq DOMAIN events
  <2>1. /\ DOMAIN j.todo \ {j.event} \in SUBSET Nat
        /\ \A e \in DOMAIN j.todo : j.todo[e] \in Nat
    BY <1>3, PerEventFacts
  <2>2. todo \in [DOMAIN j.todo \ {j.event} -> Nat]
    BY <2>1
  <2>3. DOMAIN todo \subseteq DOMAIN events
    BY <1>2 DEF HandlerFine
  <2> HIDE DEF todo
  <2> QED
    BY <2>1, <2>2, <2>3, PerEventFacts
<1> HIDE DEF marks, todo
<1>6. /\ k \in Handler /\ k.mine = j.mine /\ k.user = j.user
      /\ k.answer = j.answer /\ k.stage = "next" /\ k.todo = todo
  BY <1>2, <1>4, <1>5 DEF Handler, Stage
<1> HIDE DEF k
<1>7. HandlerFine(k, verdicts, identity, events)
  BY <1>2, <1>5, <1>6 DEF HandlerFine
<1>8. session' = [session EXCEPT ![Worker] = k]
  BY DEF Mark, k, marks, todo
<1> QED
  BY <1>1, <1>7, <1>8, OnlySession DEF SessionFine

LEMMA WorkerMarksFine ==
    ASSUME KycInv, WorkerProcessed \/ WorkerRaised
    PROVE  KycInv'
<1> DEFINE j == session[Worker]
<1>1. /\ j.kind = "worker" /\ UNCHANGED <<verdicts, kyc, events, identity>>
  BY DEF WorkerProcessed, WorkerRaised, kycRows, onchain
<1>2. CASE WorkerProcessed
  <2>1. [status |-> "processed"] \in Note
    BY DEF Note, Marker
  <2> QED
    BY <1>1, <1>2, <2>1, MarkFine DEF WorkerProcessed
<1>3. CASE WorkerRaised
  <2> DEFINE n == j.todo[j.event] + 1
  <2>1. j.todo[j.event] \in Nat
    <3>1. HandlerFine(j, verdicts, identity, events) /\ j.stage = "raised"
      BY <1>1, <1>3, Handles DEF WorkerRaised, Sessions
    <3>2. j.event \in DOMAIN j.todo /\ j.todo \in PerEvent(Nat)
      BY <1>1, <3>1 DEF HandlerFine, Handler
    <3> QED
      BY <3>2, PerEventFacts
  <2>2. n \in Nat
    BY <2>1
  <2>3. Mark([attempts |-> n, status |-> "failed"]) \/ Mark([attempts |-> n])
    BY <1>3 DEF WorkerRaised
  <2> HIDE DEF n
  <2>4. [attempts |-> n, status |-> "failed"] \in Note /\ [attempts |-> n] \in Note
    BY <2>2 DEF Note, Marker
  <2> QED
    BY <1>1, <2>3, <2>4, MarkFine
<1> QED
  BY <1>2, <1>3

LEMMA WorkerCommitFine ==
    ASSUME KycInv, WorkerCommit
    PROVE  KycInv'
<1>1. /\ Worker \in Sessions /\ session[Worker].kind = "worker"
      /\ Commit(session[Worker], "pending", 0)
      /\ session' = [session EXCEPT ![Worker] = Idle]
      /\ UNCHANGED <<verdicts, identity>>
  BY DEF Sessions, WorkerCommit, End, onchain
<1> QED
  BY <1>1, HandlerCommits DEF Marker

(* Replays and lost sessions.                                              *)
LEMMA ReplayFine ==
    ASSUME KycInv, NEW s \in Sessions, NEW e \in DOMAIN events, Replay(s, e)
    PROVE  KycInv'
<1> DEFINE k == [kind |-> "replay", event |-> e, read |-> events[e]]
<1>1. events[e] \in EventRow /\ e \in Nat
  BY DEF KycInv, EventsFine
<1>2. k \in Redone
  BY <1>1 DEF Redone
<1>3. /\ session' = [session EXCEPT ![s] = k]
      /\ UNCHANGED <<verdicts, kyc, events, identity>>
  BY DEF Replay, Start, kycRows, onchain
<1> QED
  BY <1>2, <1>3, OnlySession DEF SessionFine

LEMMA ReplayCommitFine ==
    ASSUME KycInv, NEW s \in Sessions, ReplayCommit(s)
    PROVE  KycInv'
<1> DEFINE j == session[s]
           e == j.event
           row == events[e]
           status == IF j.read.status = "pending" THEN row.status ELSE "pending"
           attempts == IF j.read.attempts = 0 THEN row.attempts ELSE 0
<1>1. /\ End(s) /\ UNCHANGED <<verdicts, kyc, identity>>
      /\ events' = [events EXCEPT
               ![e].status   = IF j.read.status = "pending" THEN @ ELSE "pending",
               ![e].attempts = IF j.read.attempts = 0 THEN @ ELSE 0]
  BY DEF ReplayCommit, onchain
<1>2. EventsFine(events', verdicts) /\ DOMAIN events = DOMAIN events'
  <2>1. CASE e \in DOMAIN events
    <3>1. row \in EventRow
      BY <2>1 DEF KycInv, EventsFine
    <3>2. status \in Marker /\ attempts \in Nat
      BY <3>1 DEF EventRow, Marker
    <3>3. events' = [events EXCEPT ![e] = [row EXCEPT !.status = status,
                                                      !.attempts = attempts]]
      BY <1>1, <2>1, <3>1 DEF EventRow
    <3> HIDE DEF status, attempts
    <3> QED
      BY <3>2, <3>3, EventChanged
  <2>2. CASE e \notin DOMAIN events
    <3>1. events' = events
      BY <1>1, <2>2 DEF KycInv, EventsFine
    <3> QED
      BY <3>1 DEF KycInv
  <2> QED
    BY <2>1, <2>2
<1>3. SessionFine(Idle, verdicts', identity', events')
  BY DEF SessionFine
<1> QED
  BY <1>1, <1>2, <1>3, OneSession DEF End, KycInv, Grows, WalletsGrow

-----------------------------------------------------------------------------
LEMMA KycInvInit == KycInit => KycInv
<1> SUFFICES ASSUME KycInit PROVE KycInv
  OBVIOUS
<1>1. WalletsFine(identity)
  BY DEF KycInit, WalletsFine, Wallet
<1>2. RowsFine(kyc, verdicts, identity)
  BY DEF KycInit, RowsFine, RowFine, UserRow
<1>3. EventsFine(events, verdicts)
  BY DEF KycInit, EventsFine
<1>4. \A s \in Sessions : session[s] = Idle
  BY DEF KycInit
<1>5. session \in [Sessions -> Handler \cup Asked \cup Redone \cup {Idle}]
  BY DEF KycInit
<1>6. verdicts \in [Users -> SUBSET Answer]
  BY DEF KycInit
<1> QED
  BY <1>1, <1>2, <1>3, <1>4, <1>5, <1>6 DEF KycInv, SessionFine

LEMMA KycInvNext == KycInv /\ [KycNext]_kycVars => KycInv'
<1> SUFFICES ASSUME KycInv, [KycNext]_kycVars PROVE KycInv'
  OBVIOUS
<1>0. Slots \subseteq Sessions /\ Worker \in Sessions
  BY DEF Sessions
<1>1. ASSUME NEW s \in Sessions, HandlerNext(s)
      PROVE  KycInv'
  BY <1>1, ReadUserFine, RegistersFine, MovesOnFine, CommitsFine DEF HandlerNext
<1>2. ASSUME NEW s \in Slots, RequestStart(s)
      PROVE  KycInv'
  BY <1>0, <1>2, ApplyFine, WebhookFine, ReplayFine, ExpiryReadFine
     DEF RequestStart, Initiate, InitiateCorporate
<1>3. ASSUME NEW s \in Slots, CorporateRaised(s)
      PROVE  KycInv'
  BY <1>0, <1>3, EndFine DEF CorporateRaised, kycRows, onchain
<1>4. ASSUME NEW s \in Slots, RequestStep(s)
      PROVE  KycInv'
  BY <1>0, <1>1, <1>3, <1>4, AskedFine, ReplayCommitFine, WebhookProcessedFine,
     CommitsFine DEF RequestStep
<1>5. CASE WorkerStep
  BY <1>0, <1>1, <1>5, WorkerBeginFine, WorkerNextFine, WorkerMarksFine,
     WorkerCommitFine DEF WorkerStep
<1>6. ASSUME NEW s \in Sessions, Crash(s)
      PROVE  KycInv'
  BY <1>6, EndFine DEF Crash, kycRows, onchain
<1>7. CASE UNCHANGED kycVars
  <2>1. UNCHANGED <<kyc, events, session, verdicts, identity>>
    BY <1>7 DEF kycVars, kycRows, onchain
  <2> QED
    BY <2>1, NoSession DEF KycInv, Grows, WalletsGrow
<1> QED
  BY <1>2, <1>4, <1>5, <1>6, <1>7, OutsideFine DEF KycNext

(* A wallet is registered only with all its claims, and a user has an      *)
(* onchain_id only with its wallet registered, whatever the endpoint and   *)
(* the worker do at the same time, and whatever fails or is retried.       *)
THEOREM KycIdentityInOrder == KycSpec => []IdentityInOrder
<1>1. KycInv => IdentityInOrder
  BY DEF KycInv, WalletsFine, RowsFine, RowFine, IdentityInOrder
<1> QED
  BY <1>1, KycInvInit, KycInvNext, PTL DEF KycSpec

(* Whoever is approved was found GREEN by the provider: neither a stale    *)
(* session nor a retried, replayed or out-of-order webhook approves.       *)
THEOREM KycInvestorsWereGreen == KycSpec => []InvestorsWereGreen
<1>1. KycInv => InvestorsWereGreen
  BY DEF KycInv, RowsFine, RowFine, InvestorsWereGreen
<1> QED
  BY <1>1, KycInvInit, KycInvNext, PTL DEF KycSpec
=============================================================================
