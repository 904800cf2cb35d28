----------------------------- MODULE AuthProofs -----------------------------
(* Theorems about accounts and tokens, for any number of users, of         *)
(* requests at a time, of attempts, and any lifetimes.                     *)
EXTENDS Auth, TLAPS

-----------------------------------------------------------------------------
(* Types.  A request under way has an input of its kind.                   *)

Account == [exists : BOOLEAN, password : Passwords \cup {""}, failed : Nat,
            locked_until : Nat, verified : BOOLEAN, secret : Nat,
            enabled : BOOLEAN, codes : SUBSET (Nat \X Nat)]

BearerToken == [user : Users, type : TokenTypes, exp : Nat]

Job(j, made) ==
    /\ j.user \in Users
    /\ j.seen \in Account
    /\ j.kind \in {"register", "reset"} => j.input \in Passwords
    /\ j.kind = "refresh" => j.input \in BearerToken /\ j.input.type = "refresh"
    /\ j.kind \in {"setup", "enable"} => j.input \in 1..made
    /\ j.kind = "enable" => j.seen.secret # 0
    /\ j.kind = "mfa" => j.input \in Codes

AuthTyped ==
    /\ account \in [Users -> Account]
    /\ tokens \subseteq BearerToken
    /\ ended \subseteq BearerToken
    /\ \A t \in DOMAIN redis : redis[t] \in Nat
    /\ now \in Nat
    /\ secrets \in Nat
    /\ failures \in [Users -> Nat]
    /\ \A c \in DOMAIN spent : c \in Nat \X Nat /\ spent[c] \in Nat
    /\ DOMAIN session = Slots
    /\ \A s \in Slots : session[s] # Idle => Job(session[s], secrets)

(* What a saved row is made of.                                            *)
Merged(a, seen, mine) ==
    [f \in DOMAIN a |-> IF mine[f] = seen[f] THEN a[f] ELSE mine[f]]

LEMMA MergedFacts ==
    ASSUME NEW a \in Account, NEW seen \in Account, NEW mine \in Account
    PROVE  /\ Merged(a, seen, mine) \in Account
           /\ Merged(a, seen, mine).failed \in {a.failed, mine.failed}
           /\ Merged(a, seen, mine).locked_until
                  \in {a.locked_until, mine.locked_until}
           /\ a = seen => Merged(a, seen, mine) = mine
  BY DEF Merged, Account

-----------------------------------------------------------------------------
(* The steps by what they do to requests and accounts.                     *)

(* A request starts: all it writes down is itself.                         *)
Starts(s, kind, u, input) ==
    /\ Begin(s, kind, u, input)
    /\ UNCHANGED <<account, now, failures, spent, tokens, redis, memory, ended>>
    /\ secrets' \in {secrets, secrets + 1}
    /\ lapsed => lapsed'
    /\ kind \in {"register", "reset"} => input \in Passwords
    /\ kind = "refresh" => input \in tokens /\ input.type = "refresh"
    /\ kind \in {"setup", "enable"} => secrets' = secrets + 1 /\ input = secrets'
    /\ kind = "enable" => account[u].secret # 0
    /\ kind = "mfa" => input \in Codes

(* A request ends and leaves its user's row as a.                          *)
Ends(s, a) ==
    /\ session[s] # Idle
    /\ session' = [session EXCEPT ![s] = Idle]
    /\ account' = [account EXCEPT ![session[s].user] = a]
    /\ UNCHANGED <<now, overlapped, secrets>>

(* A saved row: what the request has not changed is as it is now.          *)
Saves(s, mine) ==
    /\ mine \in Account
    /\ Ends(s, Merged(account[session[s].user], session[s].seen, mine))

(* No request starts or ends and no account changes.                       *)
Keeps ==
    UNCHANGED <<account, session, overlapped, secrets, failures, spent>>

LEMMA EveryStart ==
    ASSUME AuthTyped, NEW s \in Slots,
           \/ \E u \in Users, p \in Passwords : Register(s, u, p) \/ Login(s, u, p)
           \/ \E t \in tokens :
                 \/ Refresh(s, t) \/ VerifyEmail(s, t) \/ MfaSetup(s, t)
                 \/ \E p \in Passwords : ResetPassword(s, t, p)
                 \/ \E c \in Codes : \/ MfaEnable(s, t, c) \/ MfaDisable(s, t, c)
                                     \/ MfaVerify(s, t, c)
    PROVE  \E kind, input : \E u \in Users : Starts(s, kind, u, input)
<1> USE DEF Starts, BeginOnly, BeginAs, tokenVars, ghostVars, Failed
<1>1. ASSUME NEW u \in Users, NEW p \in Passwords, Register(s, u, p)
      PROVE  Starts(s, "register", u, p)
  BY <1>1 DEF Register
<1>2. ASSUME NEW u \in Users, NEW p \in Passwords, Login(s, u, p)
      PROVE  Starts(s, "login", u, p)
  BY <1>2 DEF Login
<1>3. ASSUME NEW t \in tokens
      PROVE  /\ t.user \in Users
             /\ Refresh(s, t) => Starts(s, "refresh", t.user, t)
             /\ VerifyEmail(s, t) => Starts(s, "verify", t.user, t)
             /\ MfaSetup(s, t) => Starts(s, "setup", t.user, secrets + 1)
             /\ \A p \in Passwords : ResetPassword(s, t, p) =>
                                         Starts(s, "reset", t.user, p)
             /\ \A c \in Codes :
                   /\ MfaEnable(s, t, c) =>
                          Starts(s, "enable", t.user, secrets + 1)
                   /\ MfaDisable(s, t, c) => Starts(s, "disable", t.user, c)
                   /\ MfaVerify(s, t, c) => Starts(s, "mfa", t.user, c)
  <2>1. t.user \in Users
    BY DEF AuthTyped, BearerToken
  <2>2. Refresh(s, t) => Starts(s, "refresh", t.user, t)
    BY DEF Refresh
  <2>3. VerifyEmail(s, t) => Starts(s, "verify", t.user, t)
    BY DEF VerifyEmail
  <2>4. MfaSetup(s, t) => Starts(s, "setup", t.user, secrets + 1)
    BY DEF MfaSetup
  <2>5. ASSUME NEW p \in Passwords, ResetPassword(s, t, p)
        PROVE  Starts(s, "reset", t.user, p)
    BY <2>5 DEF ResetPassword
  <2>6. ASSUME NEW c \in Codes, MfaEnable(s, t, c)
        PROVE  Starts(s, "enable", t.user, secrets + 1)
    <3>1. account[t.user].secret # 0
      BY <2>6 DEF MfaEnable, VerifyMfa
    <3> QED
      BY <2>6, <3>1 DEF MfaEnable
  <2>7. ASSUME NEW c \in Codes, MfaDisable(s, t, c)
        PROVE  Starts(s, "disable", t.user, c)
    BY <2>7 DEF MfaDisable
  <2>8. ASSUME NEW c \in Codes, MfaVerify(s, t, c)
        PROVE  Starts(s, "mfa", t.user, c)
    BY <2>8 DEF MfaVerify
  <2> QED
    BY <2>1, <2>2, <2>3, <2>4, <2>5, <2>6, <2>7, <2>8
<1> QED
  <2> HIDE DEF Starts
  <2> QED
    BY <1>1, <1>2, <1>3

LEMMA SaveIsMerged ==
    ASSUME AuthTyped, NEW s \in Slots, session[s] # Idle, End(s),
           UNCHANGED <<now, overlapped, secrets>>,
           NEW mine \in Account, Save(s, mine)
    PROVE  Saves(s, mine)
  BY DEF Save, Saves, Ends, End, Merged

(* What the end of a request that leaves the row as a may do: to the       *)
(* counter and the lock, ...                                               *)
Counts(s, a) ==
    LET j == session[s]
        b == account[j.user]
    IN  /\ failures' \in [Users -> Nat]
        /\ \A v \in Users : failures[v] <= failures'[v]
        /\ \/ /\ a.failed \in {b.failed, 0}
              /\ a.locked_until \in {b.locked_until, 0}
           \/ /\ failures'[j.user] = failures[j.user] + 1
              /\ a.failed \in {b.failed, j.seen.failed + 1}
              /\ \/ a.locked_until = b.locked_until
                 \/ j.seen.failed + 1 >= MaxAttempts
                 \/ a.locked_until = j.seen.locked_until

(* ... to the second factor ...                                            *)
Factors(s, a) ==
    LET j == session[s]
    IN  \/ ~a.enabled \/ a.secret # 0
        \/ a.enabled = j.seen.enabled /\ a.secret = j.seen.secret

(* ... and to the backup codes, of which a sign-in may accept one.         *)
Uses(s) == session[s].kind = "mfa" /\ Spends(session[s].input)

Spending(s, a) ==
    LET j == session[s]
    IN  \/ a.codes \subseteq j.seen.codes /\ UNCHANGED spent
        \/ /\ j.kind = "enable" /\ UNCHANGED spent
           /\ a.codes = GenerateBackupCodes(j.input)
        \/ /\ j.input[2] # 0 /\ j.input \in j.seen.codes
           /\ a.codes = j.seen.codes \ {j.input}
           /\ Uses(s)

(* The last two hold when the row is still the one the request has seen.   *)
Effect(s, a) ==
    /\ a \in Account
    /\ Ends(s, a)
    /\ Counts(s, a)
    /\ UNCHANGED spent \/ Uses(s)
    /\ account[session[s].user] = session[s].seen => Factors(s, a) /\ Spending(s, a)

(* A saved row that touches neither failures nor codes it may not touch.   *)
LEMMA QuietSave ==
    ASSUME AuthTyped, NEW s \in Slots, session[s] # Idle, End(s),
           UNCHANGED <<now, overlapped, secrets, failures>>,
           NEW mine \in Account, Save(s, mine),
           mine.failed \in {session[s].seen.failed, 0},
           mine.locked_until \in {session[s].seen.locked_until, 0},
           Factors(s, mine), Spending(s, mine)
    PROVE  \E a : Effect(s, a)
<1> DEFINE j == session[s]
           b == account[j.user]
           a == Merged(b, j.seen, mine)
<1>1. b \in Account /\ j.seen \in Account /\ j.user \in Users
  BY DEF AuthTyped, Job
<1>2. Ends(s, a)
  BY SaveIsMerged DEF Saves
<1>3. /\ a \in Account
      /\ a.failed \in {b.failed, 0} /\ a.locked_until \in {b.locked_until, 0}
  BY <1>1 DEF Merged, Account
<1>4. b = j.seen => a = mine
  BY <1>1, MergedFacts
<1> HIDE DEF a
<1>5. Counts(s, a)
  BY <1>3 DEF AuthTyped, Counts
<1>6. UNCHANGED spent \/ Uses(s)
  BY DEF Spending
<1> QED
  BY <1>2, <1>3, <1>4, <1>5, <1>6 DEF Effect

(* A request that leaves the row as it is.                                 *)
LEMMA NoSave ==
    ASSUME AuthTyped, NEW s \in Slots, session[s] # Idle, End(s),
           UNCHANGED <<now, overlapped, secrets, failures, account, spent>>
    PROVE  \E a : Effect(s, a)
<1> DEFINE j == session[s]
           b == account[j.user]
<1>1. b \in Account /\ j.user \in Users /\ account \in [Users -> Account]
  BY DEF AuthTyped, Job
<1>2. Ends(s, b)
  BY <1>1 DEF Ends, End
<1>3. Counts(s, b)
  BY DEF AuthTyped, Counts
<1>4. b = j.seen => Factors(s, b) /\ Spending(s, b)
  BY DEF Factors, Spending
<1> QED
  BY <1>1, <1>2, <1>3, <1>4 DEF Effect

LEMMA EveryEnd ==
    ASSUME AuthTyped, NEW s \in Slots,
           \/ RegisterEnd(s) \/ LoginEnd(s) \/ RefreshEnd(s)
           \/ ResetPasswordEnd(s) \/ VerifyEmailEnd(s) \/ MfaSetupEnd(s)
           \/ MfaEnableEnd(s) \/ MfaDisableEnd(s) \/ MfaVerifyEnd(s)
    PROVE  \E a : Effect(s, a)
<1> DEFINE j == session[s]
           u == j.user
           b == account[u]
<1>1. session[s] # Idle /\ End(s) /\ UNCHANGED <<now, overlapped, secrets>>
  BY DEF RegisterEnd, LoginEnd, RefreshEnd, ResetPasswordEnd, VerifyEmailEnd,
         MfaSetupEnd, MfaEnableEnd, MfaDisableEnd, MfaVerifyEnd, EndOnly, Running
<1>2. b \in Account /\ j.seen \in Account /\ u \in Users /\ Job(j, secrets)
      /\ account \in [Users -> Account]
  BY <1>1 DEF AuthTyped, Job
<1>3. failures \in [Users -> Nat]
  BY DEF AuthTyped
<1>4. ASSUME RegisterEnd(s) PROVE \E a : Effect(s, a)
  <2> DEFINE fresh == [NoAccount EXCEPT !.exists = TRUE, !.password = j.input]
  <2>1. /\ j.input \in Passwords /\ UNCHANGED <<failures, spent>>
        /\ UNCHANGED account \/ account' = [account EXCEPT ![u] = fresh]
    BY <1>2, <1>4 DEF RegisterEnd, Running, Job, ghostVars
  <2>2. fresh \in Account /\ fresh.failed = 0 /\ fresh.locked_until = 0
        /\ ~fresh.enabled /\ fresh.codes = {}
    BY <2>1 DEF NoAccount, Account
  <2>3. CASE UNCHANGED account
    BY <1>1, <2>1, <2>3, NoSave
  <2>4. CASE account' = [account EXCEPT ![u] = fresh]
    <3> HIDE DEF fresh
    <3>1. Ends(s, fresh)
      BY <1>1, <2>4 DEF Ends, End
    <3>2. Counts(s, fresh)
      BY <1>3, <2>1, <2>2 DEF Counts
    <3>3. Factors(s, fresh) /\ Spending(s, fresh)
      BY <2>1, <2>2 DEF Factors, Spending
    <3> QED
      BY <2>1, <2>2, <3>1, <3>2, <3>3 DEF Effect
  <2> QED
    BY <2>1, <2>3, <2>4
<1>5. ASSUME RefreshEnd(s) PROVE \E a : Effect(s, a)
  <2>1. UNCHANGED <<account, failures, spent>>
    BY <1>5 DEF RefreshEnd, ghostVars
  <2> QED
    BY <1>1, <2>1, NoSave
<1>6. ASSUME LoginEnd(s) PROVE \E a : Effect(s, a)
  <2>0. UNCHANGED spent
    BY <1>6 DEF LoginEnd
  <2>1. CASE Save(s, ClearFailed(j.seen)) /\ UNCHANGED failures
    <3> DEFINE mine == ClearFailed(j.seen)
    <3>1. /\ mine \in Account /\ mine.failed = 0 /\ mine.locked_until = 0
          /\ mine.enabled = j.seen.enabled /\ mine.secret = j.seen.secret
          /\ mine.codes = j.seen.codes
      BY <1>2 DEF ClearFailed, Account
    <3>2. Factors(s, mine) /\ Spending(s, mine)
      <4> HIDE DEF mine
      <4> QED
        BY <2>0, <3>1 DEF Factors, Spending
    <3> QED
      BY <1>1, <2>1, <3>1, <3>2, QuietSave
  <2>2. CASE Save(s, RecordFailed(j.seen)) /\ failures' = [failures EXCEPT ![u] = @ + 1]
    <3> DEFINE mine == RecordFailed(j.seen)
               a == Merged(b, j.seen, mine)
    <3>1. /\ mine \in Account /\ mine.failed = j.seen.failed + 1
          /\ \/ mine.locked_until = j.seen.locked_until
             \/ j.seen.failed + 1 >= MaxAttempts
          /\ mine.enabled = j.seen.enabled /\ mine.secret = j.seen.secret
          /\ mine.codes = j.seen.codes
      <4>1. now + Lockout \in Nat
        BY AuthAssumption DEF AuthTyped
      <4>2. PICK until \in Nat :
               /\ \/ until = j.seen.locked_until \/ j.seen.failed + 1 >= MaxAttempts
               /\ mine = [j.seen EXCEPT !.failed = @ + 1, !.locked_until = until]
        <5>1. j.seen.locked_until \in Nat
          BY <1>2 DEF Account
        <5>2. CASE j.seen.failed + 1 >= MaxAttempts
          BY <4>1, <5>2 DEF RecordFailed
        <5>3. CASE ~(j.seen.failed + 1 >= MaxAttempts)
          BY <5>1, <5>3 DEF RecordFailed
        <5> QED
          BY <5>2, <5>3
      <4> HIDE DEF mine
      <4>3. j.seen.failed + 1 \in Nat
        <5>1. j.seen.failed \in Nat
          BY <1>2 DEF Account
        <5> QED
          BY <5>1
      <4>4. mine \in Account
        BY <1>2, <4>2, <4>3 DEF Account
      <4> QED
        BY <1>2, <4>2, <4>4 DEF Account
    <3>3. /\ failures' \in [Users -> Nat] /\ failures'[u] = failures[u] + 1
          /\ \A v \in Users : failures[v] <= failures'[v]
      BY <1>2, <1>3, <2>2
    <3> HIDE DEF mine
    <3>4. Ends(s, a)
      BY <1>1, <2>2, <3>1, SaveIsMerged DEF Saves, mine
    <3>5. /\ a \in Account
          /\ a.failed \in {b.failed, mine.failed}
          /\ a.locked_until \in {b.locked_until, mine.locked_until}
          /\ b = j.seen => a = mine
      BY <1>2, <3>1, MergedFacts
    <3> HIDE DEF a
    <3>6. Counts(s, a)
      BY <3>1, <3>3, <3>5 DEF Counts
    <3>7. Factors(s, mine) /\ Spending(s, mine)
      BY <2>0, <3>1 DEF Factors, Spending
    <3> QED
      BY <2>0, <3>4, <3>5, <3>6, <3>7 DEF Effect
  <2> QED
    BY <1>6, <2>1, <2>2 DEF LoginEnd
<1>7. ASSUME ResetPasswordEnd(s) PROVE \E a : Effect(s, a)
  <2> DEFINE mine == ClearFailed([j.seen EXCEPT !.password = j.input])
  <2>1. j.input \in Passwords
    BY <1>2, <1>7 DEF ResetPasswordEnd, Running, Job
  <2>2. /\ mine \in Account /\ mine.failed = 0 /\ mine.locked_until = 0
        /\ mine.enabled = j.seen.enabled /\ mine.secret = j.seen.secret
        /\ mine.codes = j.seen.codes
    BY <1>2, <2>1 DEF ClearFailed, Account
  <2>3. Save(s, mine) /\ UNCHANGED <<failures, spent>>
    BY <1>7 DEF ResetPasswordEnd, ghostVars
  <2> HIDE DEF mine
  <2>4. Factors(s, mine) /\ Spending(s, mine)
    BY <2>2, <2>3 DEF Factors, Spending
  <2> QED
    BY <1>1, <2>2, <2>3, <2>4, QuietSave
<1>8. ASSUME VerifyEmailEnd(s) PROVE \E a : Effect(s, a)
  <2> DEFINE mine == [j.seen EXCEPT !.verified = TRUE]
  <2>1. /\ mine \in Account /\ mine.failed = j.seen.failed
        /\ mine.locked_until = j.seen.locked_until
        /\ mine.enabled = j.seen.enabled /\ mine.secret = j.seen.secret
        /\ mine.codes = j.seen.codes
    BY <1>2 DEF Account
  <2>2. Save(s, mine) /\ UNCHANGED <<failures, spent>>
    BY <1>8 DEF VerifyEmailEnd, ghostVars
  <2> HIDE DEF mine
  <2>3. Factors(s, mine) /\ Spending(s, mine)
    BY <2>1, <2>2 DEF Factors, Spending
  <2> QED
    BY <1>1, <2>1, <2>2, <2>3, QuietSave
<1>9. ASSUME MfaSetupEnd(s) PROVE \E a : Effect(s, a)
  <2> DEFINE mine == [j.seen EXCEPT !.secret = j.input]
  <2>1. j.input \in Nat \ {0}
    BY <1>2, <1>9 DEF MfaSetupEnd, Running, Job, AuthTyped
  <2>2. /\ mine \in Account /\ mine.failed = j.seen.failed
        /\ mine.locked_until = j.seen.locked_until
        /\ mine.secret # 0 /\ mine.codes = j.seen.codes
    BY <1>2, <2>1 DEF Account
  <2>3. Save(s, mine) /\ UNCHANGED <<failures, spent>>
    BY <1>9 DEF MfaSetupEnd, ghostVars
  <2> HIDE DEF mine
  <2>4. Factors(s, mine) /\ Spending(s, mine)
    BY <2>2, <2>3 DEF Factors, Spending
  <2> QED
    BY <1>1, <2>2, <2>3, <2>4, QuietSave
<1>10. ASSUME MfaEnableEnd(s) PROVE \E a : Effect(s, a)
  <2> DEFINE mine == [j.seen EXCEPT !.codes = GenerateBackupCodes(j.input),
                                    !.enabled = TRUE]
  <2>1. j.kind = "enable" /\ j.input \in Nat /\ j.seen.secret # 0
    BY <1>2, <1>10 DEF MfaEnableEnd, Running, Job, AuthTyped
  <2>2. GenerateBackupCodes(j.input) \subseteq Nat \X Nat
    BY <2>1, AuthAssumption DEF GenerateBackupCodes
  <2>3. /\ mine \in Account /\ mine.failed = j.seen.failed
        /\ mine.locked_until = j.seen.locked_until
        /\ mine.secret # 0 /\ mine.codes = GenerateBackupCodes(j.input)
    BY <1>2, <2>1, <2>2 DEF Account
  <2>4. Save(s, mine) /\ UNCHANGED <<failures, spent>>
    BY <1>10 DEF MfaEnableEnd, ghostVars
  <2> HIDE DEF mine
  <2>5. Factors(s, mine) /\ Spending(s, mine)
    BY <2>1, <2>3, <2>4 DEF Factors, Spending
  <2> QED
    BY <1>1, <2>3, <2>4, <2>5, QuietSave
<1>11. ASSUME MfaDisableEnd(s) PROVE \E a : Effect(s, a)
  <2> DEFINE mine == Disabled(j.seen)
  <2>1. /\ mine \in Account /\ mine.failed = j.seen.failed
        /\ mine.locked_until = j.seen.locked_until
        /\ ~mine.enabled /\ mine.codes = {}
    BY <1>2 DEF Account, Disabled
  <2>2. Save(s, mine) /\ UNCHANGED <<failures, spent>>
    BY <1>11 DEF MfaDisableEnd, ghostVars
  <2> HIDE DEF mine
  <2>3. Factors(s, mine) /\ Spending(s, mine)
    BY <2>1, <2>2 DEF Factors, Spending
  <2> QED
    BY <1>1, <2>1, <2>2, <2>3, QuietSave
<1>12. ASSUME MfaVerifyEnd(s) PROVE \E a : Effect(s, a)
  <2>1. PICK mine \in VerifyMfa(j.seen, j.input) : Save(s, mine)
    BY <1>12 DEF MfaVerifyEnd
  <2>2. Uses(s) /\ UNCHANGED failures
    BY <1>12 DEF MfaVerifyEnd, Running, Uses
  <2>3. j.input[2] = 0 => UNCHANGED spent
    BY <2>2 DEF Uses, Spends
  <2>4. CASE mine = j.seen /\ j.input = <<j.seen.secret, 0>>
    <3>1. UNCHANGED spent
      BY <2>3, <2>4
    <3>2. mine \in Account /\ Factors(s, mine) /\ Spending(s, mine)
      BY <1>2, <2>4, <3>1 DEF Factors, Spending
    <3> QED
      BY <1>1, <2>1, <2>2, <2>4, <3>2, QuietSave
  <2>5. CASE j.input \in j.seen.codes
             /\ mine = [j.seen EXCEPT !.codes = j.seen.codes \ {j.input}]
    <3>1. /\ mine \in Account /\ mine.failed = j.seen.failed
          /\ mine.locked_until = j.seen.locked_until
          /\ mine.enabled = j.seen.enabled /\ mine.secret = j.seen.secret
          /\ mine.codes = j.seen.codes \ {j.input}
      BY <1>2, <2>5 DEF Account
    <3>2. Factors(s, mine) /\ Spending(s, mine)
      BY <2>2, <2>3, <2>5, <3>1 DEF Factors, Spending
    <3> QED
      BY <1>1, <2>1, <2>2, <3>1, <3>2, QuietSave
  <2> QED
    BY <2>1, <2>4, <2>5 DEF VerifyMfa
<1> QED
  BY <1>4, <1>5, <1>6, <1>7, <1>8, <1>9, <1>10, <1>11, <1>12

-----------------------------------------------------------------------------
(* The steps by what they do to tokens and to the blacklist.               *)

(* The tokens there are after a step were there or are new.                *)
Issues ==
    \A t \in tokens' : \/ t \in tokens
                       \/ t \in BearerToken /\ t.exp = now + Lifetime[t.type]

Issuing ==
    /\ Issues
    /\ UNCHANGED <<redis, memory, ended, now>>
    /\ lapsed => lapsed'

(* Tokens of which each was handed out, or shown by a request, are ended.  *)
Ending(T) ==
    /\ Issues
    /\ UNCHANGED now
    /\ \A t \in T :
          \/ t \in tokens /\ t.type # "verify" /\ t.type # "reset"
          \/ \E s \in Slots : /\ session[s] # Idle
                              /\ session[s].kind = "refresh"
                              /\ session[s].input = t
    /\ ended' = ended \cup T
    /\ \E up \in RedisAnswers : Blacklist(T, up) /\ (lapsed \/ Failed(up) => lapsed')

LEMMA NewTokens ==
    ASSUME AuthTyped, NEW u \in Users, NEW type \in TokenTypes
    PROVE  /\ Token(u, type) \in BearerToken
           /\ Token(u, type).exp = now + Lifetime[Token(u, type).type]
<1>1. now + Lifetime[type] \in Nat
  BY AuthAssumption DEF AuthTyped
<1> QED
  BY <1>1 DEF Token, BearerToken

LEMMA TokenStep ==
    ASSUME AuthTyped, [AuthNext]_authVars
    PROVE  Issuing \/ (\E T : Ending(T)) \/ Tick \/ Restart
<1>1. ASSUME NEW s \in Slots, NEW kind, NEW u, NEW input,
             Starts(s, kind, u, input)
      PROVE  Issuing
  BY <1>1 DEF Starts, Issuing, Issues
<1>2. ASSUME NEW s \in Slots, session[s] # Idle
      PROVE  session[s].user \in Users
  BY <1>2 DEF AuthTyped, Job
<1>3. ASSUME NEW s \in Slots, RegisterEnd(s) \/ LoginEnd(s) \/ MfaVerifyEnd(s)
      PROVE  Issuing
  <2> DEFINE u == session[s].user
  <2>1. u \in Users
    BY <1>2, <1>3 DEF RegisterEnd, LoginEnd, MfaVerifyEnd, Running
  <2>2. \A t \in tokens' : t \in tokens \/ t \in {Token(u, "access"),
              Token(u, "refresh"), Token(u, "verify"), Token(u, "mfa")}
    BY <1>3 DEF RegisterEnd, LoginEnd, MfaVerifyEnd, Hands
  <2>3. Issues
    BY <2>1, <2>2, NewTokens DEF Issues, TokenTypes
  <2>4. UNCHANGED <<redis, memory, ended, now, lapsed>>
    BY <1>3 DEF RegisterEnd, LoginEnd, MfaVerifyEnd, EndOnly
  <2> QED
    BY <2>3, <2>4 DEF Issuing
<1>4. ASSUME NEW s \in Slots,
             \/ ResetPasswordEnd(s) \/ VerifyEmailEnd(s) \/ MfaSetupEnd(s)
             \/ MfaEnableEnd(s) \/ MfaDisableEnd(s)
      PROVE  Issuing
  BY <1>4 DEF ResetPasswordEnd, VerifyEmailEnd, MfaSetupEnd, MfaEnableEnd,
              MfaDisableEnd, EndOnly, tokenVars, Issuing, Issues
<1>5. ASSUME NEW s \in Slots, RefreshEnd(s)
      PROVE  \E T : Ending(T)
  <2> DEFINE t == session[s].input
  <2>1. session[s] # Idle /\ session[s].kind = "refresh"
    BY <1>5 DEF RefreshEnd, Running
  <2>2. t.user \in Users
    BY <2>1 DEF AuthTyped, Job, BearerToken
  <2>3. \A x \in tokens' : x \in tokens \/ x \in {Token(t.user, "access"),
                                                  Token(t.user, "refresh")}
    BY <1>5 DEF RefreshEnd, Hands
  <2>4. Issues
    BY <2>2, <2>3, NewTokens DEF Issues, TokenTypes
  <2>5. Ending({t})
    BY <1>5, <2>1, <2>4 DEF Ending, RefreshEnd, EndOnly
  <2> QED
    BY <2>5
<1>6. ASSUME NEW t \in tokens, NEW r \in SUBSET tokens, Logout(t, r),
             \A x \in r : x.type = "refresh"
      PROVE  \E T : Ending(T)
  <2>1. Issues /\ UNCHANGED now /\ ended' = ended \cup ({t} \cup r)
    BY <1>6 DEF Issues, Logout
  <2>2. \E up \in RedisAnswers : Blacklist({t} \cup r, up)
                                   /\ (lapsed \/ Failed(up) => lapsed')
    BY <1>6 DEF Logout
  <2>3. \A x \in {t} \cup r : x \in tokens /\ x.type # "verify" /\ x.type # "reset"
    BY <1>6 DEF Logout
  <2> QED
    BY <2>1, <2>2, <2>3 DEF Ending
<1>7. ASSUME NEW u \in Users, ForgotPassword(u)
      PROVE  Issuing
  <2>1. \A t \in tokens' : t \in tokens \/ t = Token(u, "reset")
    BY <1>7 DEF ForgotPassword, Hands
  <2>2. Issues
    BY <2>1, NewTokens DEF Issues, TokenTypes
  <2> QED
    BY <1>7, <2>2 DEF Issuing, ForgotPassword
<1>8. CASE UNCHANGED authVars
  BY <1>8 DEF authVars, tokenVars, Issuing, Issues
<1>9. CASE \E s \in Slots :
              \/ \E u \in Users, p \in Passwords : Register(s, u, p) \/ Login(s, u, p)
              \/ \E t \in tokens :
                    \/ Refresh(s, t) \/ VerifyEmail(s, t) \/ MfaSetup(s, t)
                    \/ \E p \in Passwords : ResetPassword(s, t, p)
                    \/ \E c \in Codes : \/ MfaEnable(s, t, c) \/ MfaDisable(s, t, c)
                                        \/ MfaVerify(s, t, c)
  BY <1>1, <1>9, EveryStart
<1>10. CASE \E t \in tokens : \/ Logout(t, {})
                              \/ \E r \in tokens : r.type = "refresh" /\ Logout(t, {r})
  <2>1. PICK t \in tokens : \/ Logout(t, {})
                            \/ \E r \in tokens : r.type = "refresh" /\ Logout(t, {r})
    BY <1>10
  <2>2. CASE Logout(t, {})
    BY <1>6, <2>2
  <2>3. ASSUME NEW r \in tokens, r.type = "refresh", Logout(t, {r})
        PROVE  \E T : Ending(T)
    <3>1. {r} \in SUBSET tokens /\ \A x \in {r} : x.type = "refresh"
      BY <2>3
    <3> QED
      BY <1>6, <2>3, <3>1
  <2> QED
    BY <2>1, <2>2, <2>3
<1> QED
  BY <1>3, <1>4, <1>5, <1>7, <1>8, <1>9, <1>10 DEF AuthNext

-----------------------------------------------------------------------------
(* Every step starts a request, ends one, or leaves requests and accounts  *)
(* alone, except that a restart forgets the requests.                      *)

LEMMA RequestStep ==
    ASSUME AuthTyped, [AuthNext]_authVars
    PROVE  \/ \E s \in Slots : \E kind, input : \E u \in Users : Starts(s, kind, u, input)
           \/ \E s \in Slots : \E a : Effect(s, a)
           \/ Keeps
           \/ Restart
<1>1. CASE UNCHANGED authVars
  BY <1>1 DEF authVars, ghostVars, Keeps
<1>2. CASE \E s \in Slots :
              \/ \E u \in Users, p \in Passwords : Register(s, u, p) \/ Login(s, u, p)
              \/ \E t \in tokens :
                    \/ Refresh(s, t) \/ VerifyEmail(s, t) \/ MfaSetup(s, t)
                    \/ \E p \in Passwords : ResetPassword(s, t, p)
                    \/ \E c \in Codes : \/ MfaEnable(s, t, c) \/ MfaDisable(s, t, c)
                                        \/ MfaVerify(s, t, c)
  BY <1>2, EveryStart
<1>3. CASE \E s \in Slots :
              \/ RegisterEnd(s) \/ LoginEnd(s) \/ RefreshEnd(s)
              \/ ResetPasswordEnd(s) \/ VerifyEmailEnd(s) \/ MfaSetupEnd(s)
              \/ MfaEnableEnd(s) \/ MfaDisableEnd(s) \/ MfaVerifyEnd(s)
  BY <1>3, EveryEnd
<1>4. ASSUME NEW t, NEW r, Logout(t, r)
      PROVE  Keeps
  BY <1>4 DEF Logout, Keeps, ghostVars
<1>5. ASSUME NEW u, ForgotPassword(u)
      PROVE  Keeps
  BY <1>5 DEF ForgotPassword, Keeps, ghostVars
<1>6. Tick => Keeps
  BY DEF Tick, Keeps, ghostVars
<1> QED
  BY <1>1, <1>2, <1>3, <1>4, <1>5, <1>6 DEF AuthNext

-----------------------------------------------------------------------------
(* The types are kept.                                                     *)

LEMMA AuthTypedInit == AuthInit => AuthTyped
<1> SUFFICES ASSUME AuthInit PROVE AuthTyped
  OBVIOUS
<1>1. NoAccount \in Account
  BY DEF NoAccount, Account
<1> QED
  BY <1>1 DEF AuthInit, AuthTyped

LEMMA AuthTypedTokens ==
    ASSUME AuthTyped, [AuthNext]_authVars
    PROVE  /\ tokens' \subseteq BearerToken
           /\ ended' \subseteq BearerToken
           /\ \A t \in DOMAIN redis' : redis'[t] \in Nat
           /\ now' \in Nat
<1> USE DEF AuthTyped
<1>1. CASE Issuing
  BY <1>1 DEF Issuing, Issues
<1>2. ASSUME NEW T, Ending(T)
      PROVE  /\ tokens' \subseteq BearerToken
             /\ ended' \subseteq BearerToken
             /\ \A t \in DOMAIN redis' : redis'[t] \in Nat
             /\ now' \in Nat
  <2>1. T \subseteq BearerToken
    BY <1>2 DEF Ending, Job
  <2>2. now + Ttl \in Nat
    BY AuthAssumption
  <2>3. \A t \in DOMAIN redis' : redis'[t] \in Nat
    BY <1>2, <2>2 DEF Ending, Blacklist
  <2> QED
    BY <1>2, <2>1, <2>3 DEF Ending, Issues
<1>3. CASE Tick
  BY <1>3 DEF Tick
<1>4. CASE Restart
  BY <1>4 DEF Restart
<1> QED
  BY <1>1, <1>2, <1>3, <1>4, TokenStep

LEMMA AuthTypedNext == AuthTyped /\ [AuthNext]_authVars => AuthTyped'
<1> SUFFICES ASSUME AuthTyped, [AuthNext]_authVars PROVE AuthTyped'
  OBVIOUS
<1> DEFINE Rest == /\ account' \in [Users -> Account]
                   /\ secrets' \in Nat
                   /\ failures' \in [Users -> Nat]
                   /\ \A c \in DOMAIN spent' : c \in Nat \X Nat /\ spent'[c] \in Nat
                   /\ DOMAIN session' = Slots
                   /\ \A s \in Slots : session'[s] # Idle => Job(session'[s], secrets')
<1>1. ASSUME NEW s \in Slots, NEW kind, NEW input, NEW u \in Users,
             Starts(s, kind, u, input)
      PROVE  Rest
  <2> DEFINE j == [kind |-> kind, user |-> u, input |-> input, seen |-> account[u]]
  <2>1. secrets' \in Nat /\ secrets <= secrets'
    BY <1>1 DEF Starts, AuthTyped
  <2>2. /\ session' = [session EXCEPT ![s] = j]
        /\ UNCHANGED <<account, failures, spent>>
    BY <1>1 DEF Starts, Begin
  <2>3. Job(j, secrets')
    <3>1. j.kind = kind /\ j.user = u /\ j.input = input /\ j.seen = account[u]
      OBVIOUS
    <3>2. account[u] \in Account
      BY DEF AuthTyped
    <3>3. kind \in {"setup", "enable"} => input \in 1..secrets'
      BY <1>1 DEF Starts, AuthTyped
    <3>4. kind = "refresh" => input \in BearerToken /\ input.type = "refresh"
      BY <1>1 DEF Starts, AuthTyped
    <3> HIDE DEF j
    <3> QED
      BY <1>1, <3>1, <3>2, <3>3, <3>4 DEF Starts, Job
  <2>4. \A r \in Slots : session[r] # Idle => Job(session[r], secrets')
    BY <2>1 DEF AuthTyped, Job
  <2> HIDE DEF j
  <2> QED
    BY <2>1, <2>2, <2>3, <2>4 DEF AuthTyped
<1>2. ASSUME NEW s \in Slots, NEW a, Effect(s, a)
      PROVE  Rest
  <2> DEFINE j == session[s]
  <2>1. /\ j # Idle /\ j.user \in Users
        /\ session' = [session EXCEPT ![s] = Idle]
        /\ account' = [account EXCEPT ![j.user] = a]
        /\ UNCHANGED secrets
        /\ a \in Account
        /\ failures' \in [Users -> Nat]
    BY <1>2 DEF Effect, Ends, Counts, AuthTyped, Job
  <2>2. \A c \in DOMAIN spent' : c \in Nat \X Nat /\ spent'[c] \in Nat
    <3>1. CASE UNCHANGED spent
      BY <3>1 DEF AuthTyped
    <3>2. CASE Uses(s)
      <4>1. j.input \in Nat \X Nat
        BY <2>1, <3>2, AuthAssumption DEF AuthTyped, Job, Codes, Uses
      <4>2. \A c \in DOMAIN spent' : \/ c \in DOMAIN spent /\ spent'[c] \in Nat
                                     \/ c = j.input /\ spent'[c] \in Nat
        <5>1. CASE j.input[2] = 0
          BY <3>2, <5>1 DEF AuthTyped, Uses, Spends
        <5>2. CASE j.input[2] # 0
          BY <3>2, <5>2 DEF AuthTyped, Uses, Spends
        <5> QED
          BY <5>1, <5>2
      <4> QED
        BY <4>1, <4>2 DEF AuthTyped
    <3> QED
      BY <1>2, <3>1, <3>2 DEF Effect
  <2> HIDE DEF j
  <2> QED
    BY <2>1, <2>2 DEF AuthTyped
<1>3. ASSUME Keeps PROVE Rest
  BY <1>3 DEF Keeps, AuthTyped
<1>4. ASSUME Restart PROVE Rest
  BY <1>4 DEF Restart, AuthTyped, ghostVars
<1>5. Rest
  BY <1>1, <1>2, <1>3, <1>4, RequestStep
<1> QED
  BY <1>5, AuthTypedTokens DEF AuthTyped, Job

-----------------------------------------------------------------------------
(* Locks.  No counter, in a row or in what a request has read of it, is    *)
(* above the failures there were, and no lock precedes MaxAttempts.        *)

Earned(a, n) ==
    /\ a.failed <= n
    /\ a.locked_until > 0 => n >= MaxAttempts

LocksEarned ==
    /\ \A u \in Users : Earned(account[u], failures[u])
    /\ \A s \in Slots : session[s] # Idle =>
           Earned(session[s].seen, failures[session[s].user])

LockInv == AuthTyped /\ LocksEarned

LEMMA LocksEarnedNext ==
    ASSUME LockInv, [AuthNext]_authVars
    PROVE  LocksEarned'
<1> USE DEF LockInv
<1>1. ASSUME NEW s \in Slots, NEW kind, NEW input, NEW u \in Users,
             Starts(s, kind, u, input)
      PROVE  LocksEarned'
  <2> DEFINE j == [kind |-> kind, user |-> u, input |-> input, seen |-> account[u]]
  <2>1. /\ session' = [session EXCEPT ![s] = j]
        /\ UNCHANGED <<account, failures>>
    BY <1>1 DEF Starts, Begin
  <2>2. Earned(j.seen, failures[j.user])
    BY DEF LocksEarned
  <2> HIDE DEF j
  <2> QED
    BY <2>1, <2>2 DEF LocksEarned, AuthTyped
<1>2. ASSUME NEW s \in Slots, NEW a, Effect(s, a)
      PROVE  LocksEarned'
  <2> DEFINE j == session[s]
             b == account[j.user]
             n == failures[j.user]
             m == failures'[j.user]
  <2>1. /\ j # Idle /\ j.user \in Users /\ a \in Account
        /\ b \in Account /\ j.seen \in Account
        /\ session' = [session EXCEPT ![s] = Idle]
        /\ account' = [account EXCEPT ![j.user] = a]
        /\ failures' \in [Users -> Nat]
        /\ \A v \in Users : failures[v] <= failures'[v]
    BY <1>2 DEF Effect, Ends, Counts, AuthTyped, Job
  <2>2. MaxAttempts \in Nat
    BY AuthAssumption
  <2>3. ASSUME NEW x \in Account, NEW v \in Users, Earned(x, failures[v])
        PROVE  Earned(x, failures'[v])
    <3>1. /\ x.failed \in Nat /\ failures[v] \in Nat /\ failures'[v] \in Nat
          /\ failures[v] <= failures'[v]
      BY <2>1 DEF AuthTyped, Account
    <3> QED
      BY <2>2, <2>3, <3>1 DEF Earned
  <2>4. Earned(a, m)
    <3>1. n \in Nat /\ m \in Nat /\ n <= m
      BY <2>1 DEF AuthTyped
    <3>2. /\ a.failed \in Nat /\ b.failed \in Nat /\ j.seen.failed \in Nat
          /\ a.locked_until \in Nat /\ b.locked_until \in Nat
          /\ j.seen.locked_until \in Nat
      BY <2>1 DEF Account
    <3>3. /\ b.failed <= n /\ (b.locked_until > 0 => n >= MaxAttempts)
          /\ j.seen.failed <= n /\ (j.seen.locked_until > 0 => n >= MaxAttempts)
      BY <2>1 DEF LocksEarned, Earned
    <3>4. \/ /\ a.failed \in {b.failed, 0}
             /\ a.locked_until \in {b.locked_until, 0}
          \/ /\ m = n + 1
             /\ a.failed \in {b.failed, j.seen.failed + 1}
             /\ \/ a.locked_until = b.locked_until
                \/ j.seen.failed + 1 >= MaxAttempts
                \/ a.locked_until = j.seen.locked_until
      BY <1>2 DEF Effect, Counts
    <3> HIDE DEF j, b, n, m
    <3> QED
      BY <2>2, <3>1, <3>2, <3>3, <3>4 DEF Earned
  <2>5. ASSUME NEW v \in Users
        PROVE  Earned(account'[v], failures'[v])
    <3>1. account[v] \in Account /\ Earned(account[v], failures[v])
      BY DEF AuthTyped, LocksEarned
    <3>2. account'[v] = IF v = j.user THEN a ELSE account[v]
      BY <2>1 DEF AuthTyped
    <3> QED
      BY <2>3, <2>4, <3>1, <3>2
  <2>6. ASSUME NEW r \in Slots, session'[r] # Idle
        PROVE  Earned(session'[r].seen, failures'[session'[r].user])
    <3>1. session'[r] = session[r]
      BY <2>1, <2>6 DEF AuthTyped
    <3>2. /\ session[r].seen \in Account /\ session[r].user \in Users
          /\ Earned(session[r].seen, failures[session[r].user])
      BY <2>6, <3>1 DEF AuthTyped, Job, LocksEarned
    <3> QED
      BY <2>3, <3>1, <3>2
  <2> QED
    BY <2>5, <2>6 DEF LocksEarned
<1>3. CASE Keeps
  BY <1>3 DEF Keeps, LocksEarned
<1>4. CASE Restart
  BY <1>4 DEF Restart, LocksEarned, ghostVars
<1> QED
  BY <1>1, <1>2, <1>3, <1>4, RequestStep

(* An account is locked only after MaxAttempts failed logins, however its  *)
(* requests overlap (login, record_failed_attempt, clear_failed_attempts). *)
THEOREM AuthLockedAfterFailures == AuthSpec => []LockedAfterFailures
<1>1. AuthInit => LockInv
  <2> SUFFICES ASSUME AuthInit PROVE LocksEarned
    BY AuthTypedInit DEF LockInv
  <2>1. \A u \in Users : account[u] = NoAccount /\ failures[u] = 0
    BY DEF AuthInit
  <2>2. Earned(NoAccount, 0)
    BY DEF Earned, NoAccount
  <2>3. \A s \in Slots : session[s] = Idle
    BY DEF AuthInit
  <2> QED
    BY <2>1, <2>2, <2>3 DEF LocksEarned
<1>2. LockInv /\ [AuthNext]_authVars => LockInv'
  BY AuthTypedNext, LocksEarnedNext DEF LockInv
<1>3. LockInv => LockedAfterFailures
  BY DEF LockInv, LocksEarned, Earned, LockedAfterFailures
<1> QED
  BY <1>1, <1>2, <1>3, PTL DEF AuthSpec

-----------------------------------------------------------------------------
(* Overlap.  As long as a user's requests do not overlap, a request's user *)
(* has no other, and the row is the one the request has read.              *)

AloneUnless ==
    /\ \A s \in Slots : session[s] # Idle =>
           \/ session[s].user \in overlapped
           \/ account[session[s].user] = session[s].seen
    /\ \A s, r \in Slots : session[s] # Idle /\ session[r] # Idle /\ s # r =>
           \/ session[s].user # session[r].user
           \/ session[s].user \in overlapped

LEMMA AloneNext ==
    ASSUME AuthTyped, AloneUnless, [AuthNext]_authVars
    PROVE  AloneUnless' /\ overlapped \subseteq overlapped'
<1>1. ASSUME NEW s \in Slots, NEW kind, NEW input, NEW u \in Users,
             Starts(s, kind, u, input)
      PROVE  AloneUnless' /\ overlapped \subseteq overlapped'
  <2> DEFINE j == [kind |-> kind, user |-> u, input |-> input, seen |-> account[u]]
  <2>1. /\ session[s] = Idle
        /\ session' = [session EXCEPT ![s] = j]
        /\ account' = account
        /\ overlapped' = IF Busy(u) THEN overlapped \cup {u} ELSE overlapped
    BY <1>1 DEF Starts, Begin
  <2>2. j.user = u /\ j.seen = account[u]
    OBVIOUS
  <2> HIDE DEF j
  <2>3. overlapped \subseteq overlapped'
    BY <2>1
  <2>4. ASSUME NEW r \in Slots, r # s, session[r] # Idle, session[r].user = u
        PROVE  u \in overlapped'
    BY <2>1, <2>4 DEF Busy
  <2>5. \A r \in Slots : session'[r] = IF r = s THEN j ELSE session[r]
    BY <2>1 DEF AuthTyped
  <2> QED
    BY <2>1, <2>2, <2>3, <2>4, <2>5 DEF AloneUnless
<1>2. ASSUME NEW s \in Slots, NEW a, Effect(s, a)
      PROVE  AloneUnless' /\ overlapped \subseteq overlapped'
  <2>1. /\ session[s] # Idle /\ session[s].user \in Users
        /\ \A r \in Slots : session'[r] = IF r = s THEN Idle ELSE session[r]
        /\ \A u \in Users : u # session[s].user => account'[u] = account[u]
        /\ overlapped' = overlapped
    BY <1>2 DEF Effect, Ends, AuthTyped, Job
  <2>2. \A r \in Slots : session[r] # Idle => session[r].user \in Users
    BY DEF AuthTyped, Job
  <2> QED
    BY <2>1, <2>2 DEF AloneUnless
<1>3. CASE Keeps
  BY <1>3 DEF Keeps, AloneUnless
<1>4. CASE Restart
  BY <1>4 DEF Restart, AloneUnless
<1> QED
  BY <1>1, <1>2, <1>3, <1>4, RequestStep

-----------------------------------------------------------------------------
(* The second factor.                                                      *)

FactorInv == AuthTyped /\ AloneUnless /\ MfaUsable

LEMMA MfaUsableNext ==
    ASSUME FactorInv, [AuthNext]_authVars
    PROVE  MfaUsable'
<1> USE DEF FactorInv
<1>1. ASSUME NEW s \in Slots, NEW a, Effect(s, a)
      PROVE  MfaUsable'
  <2> DEFINE j == session[s]
             u == j.user
  <2>1. /\ u \in Users /\ j # Idle
        /\ \A v \in Users : account'[v] = IF v = u THEN a ELSE account[v]
        /\ overlapped' = overlapped
    BY <1>1 DEF Effect, Ends, AuthTyped, Job
  <2>2. ASSUME a.enabled, u \notin overlapped
        PROVE  a.secret # 0
    <3>1. account[u] = j.seen
      BY <2>1, <2>2 DEF AloneUnless
    <3>2. Factors(s, a)
      BY <1>1, <3>1 DEF Effect
    <3> QED
      BY <2>1, <2>2, <3>1, <3>2 DEF Factors, MfaUsable
  <2> QED
    BY <2>1, <2>2 DEF MfaUsable
<1>2. ASSUME UNCHANGED account
      PROVE  MfaUsable'
  BY <1>2, AloneNext DEF MfaUsable
<1> QED
  BY <1>1, <1>2, RequestStep DEF Starts, Keeps, Restart

(* An account that asks for a second factor has the secret to check it     *)
(* with, unless two of its user's requests overlapped (mfa_service's       *)
(* setup, enable and disable between their read and their commit).         *)
THEOREM AuthMfaUsable == AuthSpec => []MfaUsable
<1>1. AuthInit => FactorInv
  <2> SUFFICES ASSUME AuthInit PROVE AloneUnless /\ MfaUsable
    BY AuthTypedInit DEF FactorInv
  <2> QED
    BY DEF AuthInit, AloneUnless, MfaUsable, NoAccount
<1>2. FactorInv /\ [AuthNext]_authVars => FactorInv'
  BY AuthTypedNext, AloneNext, MfaUsableNext DEF FactorInv
<1>3. FactorInv => MfaUsable
  BY DEF FactorInv
<1> QED
  BY <1>1, <1>2, <1>3, PTL DEF AuthSpec

-----------------------------------------------------------------------------
(* Backup codes.  While no requests overlapped: a code is on one list at   *)
(* most and comes from a batch already made; a spent code is on none; and  *)
(* the batch of a request that is enabling the factor is nobody else's.    *)

ListedOnce ==
    \A u \in Users : \A c \in account[u].codes :
        /\ c[1] <= secrets
        /\ \A v \in Users : c \in account[v].codes => u = v

SpentIsGone ==
    \A c \in DOMAIN spent :
        /\ spent[c] <= 1
        /\ c[1] <= secrets
        /\ \A u \in Users : c \notin account[u].codes

Enabling(s) == session[s] # Idle /\ session[s].kind = "enable"

BatchIsNew ==
    \A s \in Slots : Enabling(s) =>
        /\ \A u \in Users : \A c \in account[u].codes : c[1] # session[s].input
        /\ \A c \in DOMAIN spent : c[1] # session[s].input
        /\ \A r \in Slots : Enabling(r) /\ r # s =>
               session[r].input # session[s].input

CodesOnce == overlapped = {} => ListedOnce /\ SpentIsGone /\ BatchIsNew

CodeInv == AuthTyped /\ AloneUnless /\ CodesOnce

LEMMA CodesOnceNext ==
    ASSUME CodeInv, [AuthNext]_authVars
    PROVE  CodesOnce'
<1> SUFFICES ASSUME overlapped' = {}
             PROVE  (ListedOnce /\ SpentIsGone /\ BatchIsNew)'
  BY DEF CodesOnce
<1>1. overlapped = {} /\ ListedOnce /\ SpentIsGone /\ BatchIsNew
  BY AloneNext DEF CodeInv, CodesOnce
<1>2. AuthTyped /\ AloneUnless
  BY DEF CodeInv
<1>3. /\ \A u \in Users : \A c \in account[u].codes : c \in Nat \X Nat
      /\ \A c \in DOMAIN spent : c \in Nat \X Nat
  BY <1>2 DEF AuthTyped, Account
<1>4. ASSUME NEW s \in Slots, NEW kind, NEW input, NEW u \in Users,
             Starts(s, kind, u, input)
      PROVE  (ListedOnce /\ SpentIsGone /\ BatchIsNew)'
  <2> DEFINE j == [kind |-> kind, user |-> u, input |-> input, seen |-> account[u]]
  <2>1. /\ session' = [session EXCEPT ![s] = j]
        /\ UNCHANGED <<account, spent>>
        /\ secrets \in Nat /\ secrets' \in Nat /\ secrets <= secrets'
        /\ kind = "enable" => secrets' = secrets + 1 /\ input = secrets + 1
    BY <1>2, <1>4 DEF Starts, Begin, AuthTyped
  <2>2. j.kind = kind /\ j.input = input
    OBVIOUS
  <2> HIDE DEF j
  <2>3. ListedOnce' /\ SpentIsGone'
    BY <1>1, <1>3, <2>1 DEF ListedOnce, SpentIsGone
  <2>4. \A r \in Slots : session'[r] = IF r = s THEN j ELSE session[r]
    BY <1>2, <2>1 DEF AuthTyped
  <2>5. ASSUME kind = "enable"
        PROVE  /\ \A v \in Users : \A c \in account[v].codes : c[1] # input
               /\ \A c \in DOMAIN spent : c[1] # input
               /\ \A r \in Slots : Enabling(r) => session[r].input # input
    <3>1. \A r \in Slots : Enabling(r) => session[r].input \in 1..secrets
      BY <1>2 DEF Enabling, AuthTyped, Job
    <3>2. input = secrets + 1
      BY <2>1, <2>5
    <3> QED
      BY <1>1, <1>3, <2>1, <3>1, <3>2 DEF ListedOnce, SpentIsGone
  <2>6. BatchIsNew'
    BY <1>1, <2>1, <2>2, <2>4, <2>5 DEF BatchIsNew, Enabling
  <2> QED
    BY <2>3, <2>6
<1>5. ASSUME NEW s \in Slots, NEW a, Effect(s, a)
      PROVE  (ListedOnce /\ SpentIsGone /\ BatchIsNew)'
  <2> DEFINE j == session[s]
             u == j.user
             b == account[u]
  <2>1. /\ j # Idle /\ u \in Users /\ a \in Account /\ b \in Account
        /\ \A r \in Slots : session'[r] = IF r = s THEN Idle ELSE session[r]
        /\ \A v \in Users : account'[v] = IF v = u THEN a ELSE account[v]
        /\ UNCHANGED secrets /\ secrets \in Nat
    BY <1>2, <1>5 DEF Effect, Ends, AuthTyped, Job
  <2>2. b = j.seen
    BY <1>1, <1>2, <2>1 DEF AloneUnless
  <2>3. Spending(s, a)
    BY <1>5, <2>2 DEF Effect
  <2>4. CASE a.codes \subseteq b.codes /\ UNCHANGED spent
    <3>1. ListedOnce' /\ SpentIsGone'
      BY <1>1, <2>1, <2>4 DEF ListedOnce, SpentIsGone
    <3>2. BatchIsNew'
      BY <1>1, <2>1, <2>4 DEF BatchIsNew, Enabling
    <3> QED
      BY <3>1, <3>2
  <2>5. CASE /\ j.kind = "enable" /\ UNCHANGED spent
             /\ a.codes = GenerateBackupCodes(j.input)
    <3>1. /\ \A c \in a.codes : c[1] = j.input
          /\ j.input <= secrets
      BY <1>2, <2>1, <2>5 DEF GenerateBackupCodes, AuthTyped, Job
    <3>2. Enabling(s)
      BY <2>1, <2>5 DEF Enabling
    <3>3. ListedOnce' /\ SpentIsGone'
      BY <1>1, <2>1, <2>5, <3>1, <3>2 DEF ListedOnce, SpentIsGone, BatchIsNew
    <3>4. BatchIsNew'
      BY <1>1, <2>1, <2>5, <3>1, <3>2 DEF BatchIsNew, Enabling
    <3> QED
      BY <3>3, <3>4
  <2>6. CASE /\ j.input[2] # 0 /\ j.input \in b.codes
             /\ a.codes = b.codes \ {j.input}
             /\ Uses(s)
    <3> DEFINE c == j.input
    <3>1. c \notin DOMAIN spent /\ c[1] <= secrets
      BY <1>1, <2>1, <2>6 DEF SpentIsGone, ListedOnce
    <3>2. /\ DOMAIN spent' = DOMAIN spent \cup {c}
          /\ spent'[c] = 1
          /\ \A d \in DOMAIN spent : spent'[d] = spent[d]
      BY <1>2, <2>6, <3>1 DEF Uses, Spends, AuthTyped
    <3>3. ListedOnce'
      BY <1>1, <2>1, <2>6 DEF ListedOnce
    <3>4. \A v \in Users : c \notin account'[v].codes
      BY <1>1, <2>1, <2>6 DEF ListedOnce
    <3>5. SpentIsGone'
      BY <1>1, <2>1, <2>6, <3>1, <3>2, <3>4 DEF SpentIsGone
    <3>6. BatchIsNew'
      BY <1>1, <2>1, <2>6, <3>2 DEF BatchIsNew, Enabling
    <3> QED
      BY <3>3, <3>5, <3>6
  <2> QED
    BY <2>2, <2>3, <2>4, <2>5, <2>6 DEF Spending
<1>6. CASE Keeps
  BY <1>1, <1>6 DEF Keeps, ListedOnce, SpentIsGone, BatchIsNew, Enabling
<1>7. CASE Restart
  BY <1>1, <1>7 DEF Restart, ListedOnce, SpentIsGone, BatchIsNew, Enabling, ghostVars
<1> QED
  BY <1>2, <1>4, <1>5, <1>6, <1>7, RequestStep

(* Unless two of a user's requests overlapped, a backup code signs in once *)
(* (verify_mfa removes it from the list it commits).                       *)
THEOREM AuthBackupCodeOnce == AuthSpec => []BackupCodeOnce
<1>1. AuthInit => CodeInv
  <2> SUFFICES ASSUME AuthInit PROVE AloneUnless /\ CodesOnce
    BY AuthTypedInit DEF CodeInv
  <2>1. /\ \A u \in Users : account[u].codes = {}
        /\ \A s \in Slots : session[s] = Idle
        /\ DOMAIN spent = {}
    BY DEF AuthInit, NoAccount
  <2> QED
    BY <2>1 DEF AloneUnless, CodesOnce, ListedOnce, SpentIsGone, BatchIsNew, Enabling
<1>2. CodeInv /\ [AuthNext]_authVars => CodeInv'
  BY AuthTypedNext, AloneNext, CodesOnceNext DEF CodeInv
<1>3. CodeInv => BackupCodeOnce
  BY DEF CodeInv, CodesOnce, SpentIsGone, BackupCodeOnce
<1> QED
  BY <1>1, <1>2, <1>3, PTL DEF AuthSpec

-----------------------------------------------------------------------------
(* Tokens.  No token runs past the lifetime of its type, counted from now; *)
(* and unless the blacklist was lost, a token that was ended is on it with *)
(* an entry that outlives the token.                                       *)

WithinLifetime ==
    /\ \A t \in tokens : t.exp <= now + Lifetime[t.type]
    /\ \A s \in Slots : session[s] # Idle /\ session[s].kind = "refresh" =>
           session[s].input.exp <= now + Lifetime["refresh"]

OnTheList ==
    \A t \in ended :
        IF Redis = "none" THEN t \in memory
                          ELSE t \in DOMAIN redis /\ redis[t] > t.exp

EndedInv == AuthTyped /\ WithinLifetime /\ (~lapsed => OnTheList)

LEMMA WithinLifetimeNext ==
    ASSUME AuthTyped, WithinLifetime, [AuthNext]_authVars
    PROVE  WithinLifetime'
<1>0. /\ now \in Nat /\ now' \in Nat /\ now <= now'
      /\ \A type \in TokenTypes : Lifetime[type] \in Nat
  <2>1. now' \in Nat /\ now' \in {now, now + 1}
    BY TokenStep, AuthTypedTokens DEF Issuing, Ending, Tick, Restart
  <2> QED
    BY <2>1, AuthAssumption DEF AuthTyped
<1>1. ASSUME NEW t \in tokens'
      PROVE  t.exp <= now' + Lifetime[t.type]
  <2>1. \/ t \in tokens
        \/ t \in BearerToken /\ t.exp = now + Lifetime[t.type]
    BY <1>1, TokenStep DEF Issuing, Ending, Issues, Tick, Restart
  <2>2. t \in BearerToken /\ t.exp <= now + Lifetime[t.type]
    <3>1. CASE t \in tokens
      BY <3>1 DEF WithinLifetime, AuthTyped
    <3>2. CASE t \in BearerToken /\ t.exp = now + Lifetime[t.type]
      BY <1>0, <3>2 DEF BearerToken
    <3> QED
      BY <2>1, <3>1, <3>2
  <2>3. t.exp \in Nat /\ Lifetime[t.type] \in Nat
    BY <1>0, <2>2 DEF BearerToken
  <2> QED
    BY <1>0, <2>2, <2>3
<1>2. ASSUME NEW s \in Slots, session'[s] # Idle, session'[s].kind = "refresh"
      PROVE  session'[s].input.exp <= now' + Lifetime["refresh"]
  <2>1. \/ session'[s] = session[s]
        \/ session'[s].input \in tokens /\ session'[s].input.type = "refresh"
    <3>1. ASSUME NEW r \in Slots, NEW kind, NEW input, NEW u \in Users,
                 Starts(r, kind, u, input)
          PROVE  \/ session'[s] = session[s]
                 \/ session'[s].input \in tokens /\ session'[s].input.type = "refresh"
      BY <1>2, <3>1 DEF Starts, Begin, AuthTyped
    <3>2. ASSUME NEW r \in Slots, NEW a, Effect(r, a)
          PROVE  session'[s] = session[s]
      BY <1>2, <3>2 DEF Effect, Ends, AuthTyped
    <3>3. Keeps => session'[s] = session[s]
      BY DEF Keeps
    <3>4. ~Restart
      BY <1>2 DEF Restart
    <3> QED
      BY <3>1, <3>2, <3>3, <3>4, RequestStep
  <2> DEFINE t == session'[s].input
  <2>2. t \in BearerToken /\ t.exp <= now + Lifetime["refresh"]
    <3>1. CASE session'[s] = session[s]
      BY <1>2, <3>1 DEF WithinLifetime, AuthTyped, Job
    <3>2. CASE t \in tokens /\ t.type = "refresh"
      BY <3>2 DEF WithinLifetime, AuthTyped
    <3> QED
      BY <2>1, <3>1, <3>2
  <2> HIDE DEF t
  <2>3. t.exp \in Nat /\ Lifetime["refresh"] \in Nat
    BY <1>0, <2>2 DEF BearerToken, TokenTypes
  <2>4. t.exp <= now' + Lifetime["refresh"]
    BY <1>0, <2>2, <2>3
  <2> QED
    BY <2>4 DEF t
<1> QED
  BY <1>1, <1>2 DEF WithinLifetime

LEMMA OnTheListNext ==
    ASSUME EndedInv, [AuthNext]_authVars, ~lapsed'
    PROVE  OnTheList'
<1>0. AuthTyped /\ WithinLifetime
  BY DEF EndedInv
<1>1. CASE Issuing
  BY <1>1 DEF Issuing, EndedInv, OnTheList
<1>2. ASSUME NEW T, Ending(T)
      PROVE  OnTheList'
  <2>1. PICK up \in RedisAnswers : Blacklist(T, up) /\ ~lapsed /\ ~Failed(up)
    BY <1>2 DEF Ending
  <2>2. OnTheList
    BY <2>1 DEF EndedInv
  <2>3. up = (Redis # "none")
    BY <2>1, AuthAssumption DEF RedisAnswers, Failed
  <2>4. ASSUME NEW t \in T
        PROVE  t.exp \in Nat /\ t.exp < now + Ttl
    <3>1. t \in BearerToken /\ t.exp <= now + Lifetime["refresh"]
      <4>1. CASE t \in tokens /\ t.type # "verify" /\ t.type # "reset"
        <5>1. t \in BearerToken /\ t.exp <= now + Lifetime[t.type]
          BY <1>0, <4>1 DEF AuthTyped, WithinLifetime
        <5>2. t.type \in {"access", "refresh", "mfa"}
          BY <4>1, <5>1 DEF BearerToken, TokenTypes
        <5>3. /\ Lifetime["access"] \in Nat /\ Lifetime["refresh"] \in Nat
              /\ Lifetime["mfa"] \in Nat /\ t.exp \in Nat /\ now \in Nat
          BY <1>0, <5>1, AuthAssumption DEF TokenTypes, BearerToken, AuthTyped
        <5> QED
          BY <5>1, <5>2, <5>3, AuthAssumption
      <4>2. CASE \E s \in Slots : /\ session[s] # Idle
                                  /\ session[s].kind = "refresh"
                                  /\ session[s].input = t
        BY <1>0, <4>2 DEF AuthTyped, Job, WithinLifetime
      <4> QED
        BY <1>2, <4>1, <4>2 DEF Ending
    <3>2. /\ t.exp \in Nat /\ now \in Nat /\ Lifetime["refresh"] \in Nat
          /\ Ttl \in Nat
      BY <1>0, <3>1, AuthAssumption DEF BearerToken, AuthTyped, TokenTypes
    <3> QED
      BY <3>1, <3>2, AuthAssumption
  <2>5. ended' = ended \cup T
    BY <1>2 DEF Ending
  <2>6. CASE up
    <3>1. /\ DOMAIN redis' = DOMAIN redis \cup T
          /\ \A t \in DOMAIN redis' :
                redis'[t] = IF t \in T THEN now + Ttl ELSE redis[t]
      BY <2>1, <2>6 DEF Blacklist
    <3>2. /\ now + Ttl \in Nat
      BY <1>0, AuthAssumption DEF AuthTyped
    <3> QED
      BY <2>2, <2>3, <2>4, <2>5, <2>6, <3>1, <3>2 DEF OnTheList
  <2>7. CASE ~up
    BY <2>1, <2>2, <2>3, <2>5, <2>7 DEF OnTheList, Blacklist
  <2> QED
    BY <2>3, <2>6, <2>7
<1>3. CASE Tick
  <2>1. OnTheList
    BY <1>3 DEF Tick, EndedInv
  <2>2. ASSUME NEW t \in ended', t \in DOMAIN redis, redis[t] > t.exp
        PROVE  t \in DOMAIN redis' /\ redis'[t] > t.exp
    <3>1. t \in BearerToken /\ t.exp > now
      BY <1>0, <1>3, <2>2 DEF Tick, AuthTyped
    <3>2. t.exp \in Nat /\ now \in Nat /\ redis[t] \in Nat
      BY <1>0, <2>2, <3>1 DEF AuthTyped, BearerToken
    <3>3. redis[t] > now + 1
      BY <2>2, <3>1, <3>2
    <3> QED
      BY <1>3, <2>2, <3>3 DEF Tick
  <2> QED
    BY <1>3, <2>1, <2>2 DEF OnTheList, Tick
<1>4. CASE Restart
  BY <1>4 DEF Restart, EndedInv, OnTheList
<1> QED
  BY <1>0, <1>1, <1>2, <1>3, <1>4, TokenStep

(* Unless Redis failed at some call, or a process that keeps the blacklist *)
(* in memory restarted, no token that logout or rotation has ended is      *)
(* accepted again (blacklist_token, is_token_blacklisted).                 *)
THEOREM AuthEndedStaysEnded == AuthSpec => []EndedStaysEnded
<1>1. AuthInit => EndedInv
  <2> SUFFICES ASSUME AuthInit PROVE WithinLifetime /\ OnTheList
    BY AuthTypedInit DEF EndedInv
  <2> QED
    BY DEF AuthInit, WithinLifetime, OnTheList
<1>2. EndedInv /\ [AuthNext]_authVars => EndedInv'
  BY AuthTypedNext, WithinLifetimeNext, OnTheListNext DEF EndedInv
<1>3. EndedInv => EndedStaysEnded
  <2> SUFFICES ASSUME EndedInv, ~lapsed, NEW t \in ended, Accepted(t, Redis # "none")
               PROVE  FALSE
    BY DEF EndedStaysEnded
  <2>1. /\ IF Redis = "none" THEN t \in memory
                             ELSE t \in DOMAIN redis /\ redis[t] > t.exp
        /\ t.exp \in Nat /\ now \in Nat /\ (t \in DOMAIN redis => redis[t] \in Nat)
    BY DEF EndedInv, OnTheList, AuthTyped, BearerToken
  <2> QED
    BY <2>1 DEF Accepted, Blacklisted
<1> QED
  BY <1>1, <1>2, <1>3, PTL DEF AuthSpec
=============================================================================
