-------------------------------- MODULE Auth --------------------------------
(***************************************************************************)
(* Accounts and tokens: registration, login with lockout, token rotation,  *)
(* logout and the blacklist, password reset, e-mail verification and the   *)
(* second factor (both auth_service.py, mfa_service.py, tokens.py,         *)
(* auth_deps.py and the auth endpoints).                                   *)
(*                                                                         *)
(* A request reads the account, then decides on what it has read and       *)
(* commits the fields it changed; other requests run in between.  A token  *)
(* is what it encodes: user, type and expiry in seconds, and nothing else, *)
(* so two tokens made for a user in one second are the same token.         *)
(***************************************************************************)
EXTENDS Naturals, FiniteSets

CONSTANTS
    Users,
    Slots,              \* requests the API serves at a time
    Passwords,
    Redis,              \* "none", "up" or "flaky": what the blacklist is kept in
    MaxAttempts,        \* MAX_ATTEMPTS: failures that lock an account (5)
    Lockout,            \* LOCKOUT_MINUTES
    Lifetime,           \* per token type: seconds until it expires
    Ttl,                \* _BLACKLIST_TTL
    BackupCodes,        \* backup codes made at a time (8)
    MaxNow,             \* bound on the clock
    MaxSecrets,         \* bound on MFA set-ups and batches of backup codes
    MaxRequests         \* bound on requests after registration

TokenTypes == {"access", "refresh", "mfa", "reset", "verify"}

ASSUME AuthAssumption ==
    /\ Redis \in {"none", "up", "flaky"}
    /\ {MaxAttempts, Lockout, Ttl, BackupCodes, MaxNow, MaxSecrets,
        MaxRequests} \subseteq Nat
    /\ MaxAttempts > 0
    /\ Lifetime \in [TokenTypes -> Nat]
    /\ Ttl > Lifetime["refresh"]
    /\ Lifetime["refresh"] >= Lifetime["access"]
    /\ Lifetime["refresh"] >= Lifetime["mfa"]

VARIABLES
    account,            \* per user: the row of users
    tokens,             \* tokens handed out and not expired
    redis,              \* blacklist in Redis: token -> when the entry goes
    memory,             \* blacklist in the process
    now,
    session,            \* per slot: the request it serves
    requests,
    secrets,            \* secrets and batches of backup codes made so far
    (* What happened, for the properties:                                  *)
    failures,           \* per user: failed logins since it was registered
    ended,              \* tokens that logout or rotation has ended
    spent,              \* backup codes accepted, with how often
    overlapped,         \* users two of whose requests ran at the same time
    lapsed              \* Redis has failed, or a process without it restarted

tokenVars == <<tokens, redis, memory, ended, lapsed>>
ghostVars == <<failures, spent>>
authVars  == <<account, tokenVars, now, session, requests, secrets, ghostVars,
               overlapped>>

NoAccount == [exists |-> FALSE, password |-> "", failed |-> 0,
              locked_until |-> 0, verified |-> FALSE, secret |-> 0,
              enabled |-> FALSE, codes |-> {}]
Idle == [kind |-> "idle"]

AuthInit ==
    /\ account = [u \in Users |-> NoAccount]
    /\ tokens = {} /\ ended = {} /\ memory = {}
    /\ redis = [t \in {} |-> 0]
    /\ now = 0 /\ requests = 0 /\ secrets = 0
    /\ session = [s \in Slots |-> Idle]
    /\ failures = [u \in Users |-> 0]
    /\ spent = [c \in {} |-> 0]
    /\ overlapped = {} /\ lapsed = FALSE

-----------------------------------------------------------------------------
(* Tokens and the blacklist.                                               *)

Token(u, type) == [user |-> u, type |-> type, exp |-> now + Lifetime[type]]

Hands(T) == tokens' = tokens \cup T

(* A call to the blacklist finds Redis up or falls back on the process.    *)
RedisAnswers == CASE Redis = "none" -> {FALSE}
                  [] Redis = "up"   -> {TRUE}
                  [] OTHER          -> BOOLEAN

Failed(up) == Redis = "flaky" /\ ~up

Blacklisted(t, up) ==
    IF up THEN t \in DOMAIN redis /\ redis[t] > now ELSE t \in memory

(* Slip: entries that go before the longest token does.                    *)
BlacklistShort(T, up) ==
    IF up THEN /\ redis' = [t \in DOMAIN redis \cup T |->
                              IF t \in T THEN now + 1 ELSE redis[t]]
               /\ UNCHANGED memory
          ELSE memory' = memory \cup T /\ UNCHANGED redis

Blacklist(T, up) ==
    IF up THEN /\ redis' = [t \in DOMAIN redis \cup T |->
                              IF t \in T THEN now + Ttl ELSE redis[t]]
               /\ UNCHANGED memory
          ELSE memory' = memory \cup T /\ UNCHANGED redis

(* decode_token and get_user_id_from_token; the type is the caller's to    *)
(* ask for.                                                                *)
Accepted(t, up) == t \in tokens /\ now < t.exp /\ ~Blacklisted(t, up)

-----------------------------------------------------------------------------
(* Requests.                                                               *)

Busy(u) == \E s \in Slots : session[s] # Idle /\ session[s].user = u

Counted == requests < MaxRequests /\ requests' = requests + 1

(* A request about a user starts: it reads the account.                    *)
Begin(s, kind, u, input) ==
    /\ session[s] = Idle
    /\ overlapped' = IF Busy(u) THEN overlapped \cup {u} ELSE overlapped
    /\ session' = [session EXCEPT ![s] = [kind |-> kind, user |-> u,
                                          input |-> input,
                                          seen |-> account[u]]]

(* One that shows a bearer token first has it checked.                     *)
BeginAs(s, kind, t, input) ==
    \E up \in RedisAnswers :
        /\ t.type \in {"access", "refresh", "mfa"}
        /\ Accepted(t, up)
        /\ Begin(s, kind, t.user, input) /\ Counted
        /\ lapsed' = (lapsed \/ Failed(up))
        /\ UNCHANGED <<tokens, redis, memory, ended>>

End(s) == session' = [session EXCEPT ![s] = Idle] /\ UNCHANGED requests

(* The fields the request changed are written over the row as it is now.   *)
Save(s, mine) ==
    LET j == session[s]
    IN  account' = [account EXCEPT ![j.user] =
            [f \in DOMAIN @ |-> IF mine[f] = j.seen[f] THEN @[f] ELSE mine[f]]]

Running(s, kind) == session[s] # Idle /\ session[s].kind = kind

BeginOnly == UNCHANGED <<account, now, secrets, ghostVars>>
EndOnly   == UNCHANGED <<now, overlapped>>

-----------------------------------------------------------------------------
(* register: looked up, then inserted; the unique e-mail decides.          *)

Register(s, u, p) ==
    /\ ~account[u].exists
    /\ Begin(s, "register", u, p)
    /\ BeginOnly /\ UNCHANGED <<tokenVars, requests>>

RegisterEnd(s) ==
    LET u == session[s].user
    IN  /\ Running(s, "register")
        /\ End(s)
        /\ IF account[u].exists THEN UNCHANGED <<account, tokens>>
           ELSE /\ account' = [account EXCEPT ![u] =
                      [NoAccount EXCEPT !.exists = TRUE,
                                        !.password = session[s].input]]
                /\ Hands({Token(u, "access"), Token(u, "refresh"),
                          Token(u, "verify")})
        /\ EndOnly
        /\ UNCHANGED <<redis, memory, ended, lapsed, secrets, ghostVars>>

(* login: refused while locked; a failure is counted, a success clears.    *)
IsLocked(a) == now < a.locked_until

Login(s, u, p) ==
    /\ account[u].exists
    /\ ~IsLocked(account[u])
    /\ Begin(s, "login", u, p) /\ Counted
    /\ BeginOnly /\ UNCHANGED tokenVars

(* Slip: one failure too few locks the account.                            *)
RecordFailedEarly(a) ==
    [a EXCEPT !.failed = @ + 1,
              !.locked_until = IF a.failed + 2 >= MaxAttempts
                               THEN now + Lockout ELSE @]

RecordFailed(a) ==
    [a EXCEPT !.failed = @ + 1,
              !.locked_until = IF a.failed + 1 >= MaxAttempts
                               THEN now + Lockout ELSE @]

ClearFailed(a) == [a EXCEPT !.failed = 0, !.locked_until = 0]

LoginEnd(s) ==
    LET j == session[s]
        u == j.user
    IN  /\ Running(s, "login")
        /\ End(s)
        /\ IF j.input = j.seen.password
           THEN /\ Save(s, ClearFailed(j.seen))
                /\ Hands(IF j.seen.enabled THEN {Token(u, "mfa")}
                         ELSE {Token(u, "access"), Token(u, "refresh")})
                /\ UNCHANGED failures
           ELSE /\ Save(s, RecordFailed(j.seen))
                /\ failures' = [failures EXCEPT ![u] = @ + 1]
                /\ UNCHANGED tokens
        /\ EndOnly
        /\ UNCHANGED <<redis, memory, ended, lapsed, secrets, spent>>

(* refresh: checked, the user read, then ended and replaced.               *)
Refresh(s, t) ==
    /\ t.type = "refresh"
    /\ BeginAs(s, "refresh", t, t)
    /\ BeginOnly

RefreshEnd(s) ==
    LET t == session[s].input
    IN  /\ Running(s, "refresh")
        /\ End(s)
        /\ \E up \in RedisAnswers : /\ Blacklist({t}, up)
                                    /\ lapsed' = (lapsed \/ Failed(up))
        /\ ended' = ended \cup {t}
        /\ Hands({Token(t.user, "access"), Token(t.user, "refresh")})
        /\ EndOnly
        /\ UNCHANGED <<account, secrets, ghostVars>>

(* logout: checked and ended at once, with the cookie's token if one came. *)
Logout(t, r) ==
    LET T == {t} \cup r
    IN  /\ t.type # "verify" /\ t.type # "reset"
        /\ Counted
        /\ \E up1, up2 \in RedisAnswers :
               /\ Accepted(t, up1)
               /\ Blacklist(T, up2)
               /\ lapsed' = (lapsed \/ Failed(up1) \/ Failed(up2))
        /\ ended' = ended \cup T
        /\ UNCHANGED <<account, tokens, now, session, secrets, ghostVars,
                       overlapped>>

(* forgot-password and reset-password; the link works until it expires.    *)
ForgotPassword(u) ==
    /\ account[u].exists
    /\ Counted
    /\ Hands({Token(u, "reset")})
    /\ UNCHANGED <<account, redis, memory, ended, lapsed, now, session, secrets,
                   ghostVars, overlapped>>

ResetPassword(s, t, p) ==
    /\ t.type = "reset" /\ t \in tokens /\ now <= t.exp
    /\ Begin(s, "reset", t.user, p) /\ Counted
    /\ BeginOnly /\ UNCHANGED tokenVars

ResetPasswordEnd(s) ==
    /\ Running(s, "reset")
    /\ End(s)
    /\ Save(s, ClearFailed([session[s].seen EXCEPT !.password =
                                                     session[s].input]))
    /\ EndOnly
    /\ UNCHANGED <<tokenVars, secrets, ghostVars>>

VerifyEmail(s, t) ==
    /\ t.type = "verify" /\ t \in tokens /\ now <= t.exp
    /\ Begin(s, "verify", t.user, t) /\ Counted
    /\ BeginOnly /\ UNCHANGED tokenVars

VerifyEmailEnd(s) ==
    /\ Running(s, "verify")
    /\ End(s)
    /\ Save(s, [session[s].seen EXCEPT !.verified = TRUE])
    /\ EndOnly
    /\ UNCHANGED <<tokenVars, secrets, ghostVars>>

-----------------------------------------------------------------------------
(* The second factor.  Secrets and batches of backup codes are numbered in *)
(* the order they are made: <<n, 0>> is a code made from secret n, <<n, i>>*)
(* the i-th backup code of batch n.                                        *)

Codes == (1..MaxSecrets) \X (0..BackupCodes)

GenerateBackupCodes(n) == {<<n, i>> : i \in 1..BackupCodes}

(* Slip: an accepted backup code stays on the list.                        *)
VerifyMfaKeeps(a, c) ==
    IF a.secret # 0 /\ (c = <<a.secret, 0>> \/ c \in a.codes) THEN {a} ELSE {}

(* verify_mfa: the account as it is left, or nothing.                      *)
VerifyMfa(a, c) ==
    IF a.secret = 0 THEN {}
    ELSE IF c = <<a.secret, 0>> THEN {a}
    ELSE IF c \in a.codes THEN {[a EXCEPT !.codes = @ \ {c}]}
    ELSE {}

Spends(c) ==
    spent' = IF c[2] = 0 THEN spent
             ELSE [d \in DOMAIN spent \cup {c} |->
                      (IF d \in DOMAIN spent THEN spent[d] ELSE 0)
                          + (IF d = c THEN 1 ELSE 0)]

MfaSetup(s, t) ==
    /\ secrets < MaxSecrets
    /\ BeginAs(s, "setup", t, secrets + 1)
    /\ secrets' = secrets + 1
    /\ UNCHANGED <<account, now, ghostVars>>

MfaSetupEnd(s) ==
    /\ Running(s, "setup")
    /\ End(s)
    /\ Save(s, [session[s].seen EXCEPT !.secret = session[s].input])
    /\ EndOnly
    /\ UNCHANGED <<tokenVars, secrets, ghostVars>>

MfaEnable(s, t, c) ==
    /\ secrets < MaxSecrets
    /\ VerifyMfa(account[t.user], c) # {}
    /\ BeginAs(s, "enable", t, secrets + 1)
    /\ secrets' = secrets + 1
    /\ UNCHANGED <<account, now, ghostVars>>

MfaEnableEnd(s) ==
    LET j == session[s]
    IN  /\ Running(s, "enable")
        /\ End(s)
        /\ Save(s, [j.seen EXCEPT !.codes = GenerateBackupCodes(j.input),
                                  !.enabled = TRUE])
        /\ EndOnly
        /\ UNCHANGED <<tokenVars, secrets, ghostVars>>

MfaDisable(s, t, c) ==
    /\ VerifyMfa(account[t.user], c) # {}
    /\ BeginAs(s, "disable", t, c)
    /\ BeginOnly

(* Slip: the flag is forgotten.                                            *)
DisabledKeepsFlag(a) == [a EXCEPT !.secret = 0, !.codes = {}]

Disabled(a) == [a EXCEPT !.enabled = FALSE, !.secret = 0, !.codes = {}]

MfaDisableEnd(s) ==
    /\ Running(s, "disable")
    /\ End(s)
    /\ Save(s, Disabled(session[s].seen))
    /\ EndOnly
    /\ UNCHANGED <<tokenVars, secrets, ghostVars>>

(* mfa/verify: the partial token is decoded without the blacklist.         *)
MfaVerify(s, t, c) ==
    /\ t.type = "mfa" /\ t \in tokens /\ now < t.exp
    /\ VerifyMfa(account[t.user], c) # {}
    /\ Begin(s, "mfa", t.user, c) /\ Counted
    /\ BeginOnly /\ UNCHANGED tokenVars

MfaVerifyEnd(s) ==
    LET j == session[s]
    IN  /\ Running(s, "mfa")
        /\ End(s)
        /\ \E a \in VerifyMfa(j.seen, j.input) : Save(s, a)
        /\ Spends(j.input)
        /\ Hands({Token(j.user, "access"), Token(j.user, "refresh")})
        /\ EndOnly
        /\ UNCHANGED <<redis, memory, ended, lapsed, secrets, failures>>

-----------------------------------------------------------------------------
(* Time passes; tokens that have expired are forgotten by the model.       *)
Tick ==
    /\ now < MaxNow
    /\ now' = now + 1
    /\ tokens' = {t \in tokens : t.exp > now}
    /\ ended' = {t \in ended : t.exp > now}
    /\ redis' = [t \in {r \in DOMAIN redis : redis[r] > now + 1} |-> redis[t]]
    /\ UNCHANGED <<account, memory, lapsed, session, requests, secrets,
                   ghostVars, overlapped>>

(* The process restarts: its sessions and its blacklist are gone.          *)
Restart ==
    /\ Counted
    /\ memory' = {}
    /\ session' = [s \in Slots |-> Idle]
    /\ lapsed' = (lapsed \/ memory # {})
    /\ UNCHANGED <<account, tokens, redis, ended, now, secrets, ghostVars,
                   overlapped>>

AuthNext ==
    \/ \E s \in Slots, u \in Users, p \in Passwords :
           Register(s, u, p) \/ Login(s, u, p)
    \/ \E s \in Slots, t \in tokens :
           \/ Refresh(s, t) \/ VerifyEmail(s, t) \/ MfaSetup(s, t)
           \/ \E p \in Passwords : ResetPassword(s, t, p)
           \/ \E c \in Codes : \/ MfaEnable(s, t, c) \/ MfaDisable(s, t, c)
                               \/ MfaVerify(s, t, c)
    \/ \E t \in tokens : \/ Logout(t, {})
                         \/ \E r \in tokens : r.type = "refresh" /\ Logout(t, {r})
    \/ \E u \in Users : ForgotPassword(u)
    \/ \E s \in Slots :
           \/ RegisterEnd(s) \/ LoginEnd(s) \/ RefreshEnd(s)
           \/ ResetPasswordEnd(s) \/ VerifyEmailEnd(s) \/ MfaSetupEnd(s)
           \/ MfaEnableEnd(s) \/ MfaDisableEnd(s) \/ MfaVerifyEnd(s)
    \/ Tick \/ Restart

AuthSpec == AuthInit /\ [][AuthNext]_authVars

-----------------------------------------------------------------------------
(* A token that logout or rotation has ended is not on the blacklist only  *)
(* where the blacklist itself was lost: Redis failed at some call, or a    *)
(* process that keeps it in memory restarted.  In particular no entry      *)
(* leaves Redis before its token expires.                                  *)
EndedStaysEnded ==
    \A t \in ended : ~lapsed => ~Accepted(t, Redis # "none")

(* An account is locked only after MaxAttempts failed logins, also when    *)
(* requests overlap and count on top of stale counters.                    *)
LockedAfterFailures ==
    \A u \in Users : account[u].locked_until > 0 => failures[u] >= MaxAttempts

(* Unless two of a user's requests ran at the same time, a backup code     *)
(* signs in once.                                                          *)
BackupCodeOnce ==
    overlapped = {} => \A c \in DOMAIN spent : spent[c] <= 1

(* ... and an account that asks for a second factor has a secret to check  *)
(* it with, so its owner can pass.                                         *)
MfaUsable ==
    \A u \in Users : account[u].enabled /\ u \notin overlapped =>
                     account[u].secret # 0
=============================================================================
