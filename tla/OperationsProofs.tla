-------------------------- MODULE OperationsProofs --------------------------
(* Theorems about the parts of the API that share no state: the way to the *)
(* chain, the rate limit, wallets and vesting claims, issuance, and        *)
(* compliance actions.                                                     *)
EXTENDS Compliance, Issuance, Portfolio, Platform, Gateway, SumTheorems,
        FiniteSetTheorems, SequenceTheorems, TLAPS

-----------------------------------------------------------------------------
(* The breaker.  From the MAX_FAILURES-th failure on, each one opened it,  *)
(* so that the next came OPEN_DURATION later at least.                     *)

Spread(f) ==
    \A i, j \in MaxFailures..Len(f) :
      i <= j => f[j] >= f[i] + (j - i) * OpenDuration

BreakerInv ==
    /\ failures \in Seq(Nat) /\ clock \in Nat
    /\ \A i \in 1..Len(failures) :
         /\ failures[i] <= clock
         /\ failures[Len(failures)] < failures[i] + Window
    /\ Spread(failures)
    /\ Len(failures) >= MaxFailures =>
         state = "open" /\ opened_at = failures[Len(failures)]

LEMMA AtMost ==
    ASSUME NEW x \in Nat, NEW y \in Nat, x <= y
    PROVE  (x < y \/ x = y) /\ y - x \in Nat
OBVIOUS

(* A failure at time c, after which the first n failures are dropped.      *)
LEMMA SpreadKept ==
    ASSUME NEW f, NEW g, NEW L \in Nat, NEW K \in Nat, NEW n \in Nat, NEW c \in Nat,
           L = Len(f), K = Len(g), n <= L, K = (L + 1) - n,
           \A i \in 1..L : f[i] \in Nat,
           \A i \in 1..K : i < K => g[i] = f[n + i],
           g[K] = c, Spread(f),
           L >= MaxFailures => c >= f[L] + OpenDuration
    PROVE  Spread(g)
<1>0. MaxFailures \in Nat \ {0} /\ OpenDuration \in Nat \ {0}
  BY PlatformAssumption
<1> SUFFICES ASSUME NEW i \in MaxFailures..K, NEW j \in MaxFailures..K, i <= j
             PROVE  g[j] >= g[i] + (j - i) * OpenDuration
  BY DEF Spread
<1>1. i \in Nat /\ j \in Nat /\ i >= 1 /\ j >= 1 /\ i <= K /\ j <= K /\ i >= MaxFailures
  BY <1>0
<1>2. PICK a \in Nat : a = n + i
  BY <1>1
<1>3. PICK d \in Nat : d = j - i
  BY <1>1
<1>4. PICK p \in Nat : p = d * OpenDuration
  BY <1>0
<1>5. ASSUME i = K PROVE g[j] >= g[i] + p
  <2>1. j = K /\ d = 0
    BY <1>1, <1>3, <1>5
  <2>2. p = 0
    BY <1>0, <1>4, <2>1
  <2>3. g[j] = c /\ g[i] = c
    BY <1>5, <2>1
  <2> QED
    BY <2>2, <2>3
<1>6. ASSUME i < K PROVE g[j] >= g[i] + p
  <2>1. /\ a \in 1..L /\ a \in MaxFailures..L /\ L \in MaxFailures..L /\ L \in 1..L
        /\ i \in 1..K
    BY <1>0, <1>1, <1>2, <1>6
  <2>2. g[i] = f[a] /\ f[a] \in Nat /\ f[L] \in Nat
    BY <1>2, <1>6, <2>1
  <2>3. ASSUME j < K PROVE g[j] >= g[i] + p
    <3>1. PICK b \in Nat : b = n + j
      BY <1>1
    <3>2. b \in MaxFailures..L /\ a <= b /\ b - a = d /\ j \in 1..K
      BY <1>0, <1>1, <1>2, <1>3, <2>1, <2>3, <3>1
    <3>3. g[j] = f[b]
      BY <2>3, <3>1, <3>2
    <3>4. f[b] >= f[a] + (b - a) * OpenDuration
      BY <2>1, <3>2 DEF Spread
    <3> QED
      BY <1>4, <2>2, <3>2, <3>3, <3>4
  <2>4. ASSUME j = K PROVE g[j] >= g[i] + p
    <3>1. PICK m \in Nat : m = L - a
      <4>1. a <= L
        BY <2>1
      <4>2. L - a \in Nat
        BY <4>1, AtMost
      <4> QED
        BY <4>2
    <3>2. PICK q \in Nat : q = m * OpenDuration
      BY <1>0
    <3>3. f[L] >= f[a] + q
      <4>1. f[L] >= f[a] + (L - a) * OpenDuration
        BY <2>1 DEF Spread
      <4> QED
        BY <3>1, <3>2, <4>1
    <3>4. c >= f[L] + OpenDuration
      BY <1>0, <2>1
    <3>5. d = m + 1 /\ g[j] = c
      BY <1>1, <1>2, <1>3, <2>4, <3>1
    <3>6. (m + 1) * OpenDuration = m * OpenDuration + OpenDuration
      BY <1>0
    <3>7. p = q + OpenDuration
      BY <1>4, <3>2, <3>5, <3>6
    <3> QED
      BY <1>0, <2>2, <3>3, <3>4, <3>5, <3>7
  <2>5. j < K \/ j = K
    BY <1>1, AtMost
  <2> QED
    BY <2>3, <2>4, <2>5
<1>7. i < K \/ i = K
  BY <1>1, AtMost
<1>8. g[j] >= g[i] + p
  BY <1>5, <1>6, <1>7
<1> QED
  BY <1>3, <1>4, <1>8

LEMMA FailureKept ==
    ASSUME BreakerInv, NEW s \in {"closed", "half_open"}, allow_request(s),
           record_failure(s), UNCHANGED clock
    PROVE  BreakerInv'
<1>0. /\ MaxFailures \in Nat \ {0} /\ Window \in Nat \ {0} /\ OpenDuration \in Nat \ {0}
      /\ failures \in Seq(Nat) /\ clock \in Nat
  BY PlatformAssumption DEF BreakerInv
<1>1. PICK L \in Nat : L = Len(failures)
  BY <1>0
<1> DEFINE all == Append(failures, clock)
<1>2. /\ all \in Seq(Nat) /\ Len(all) = L + 1 /\ all[L + 1] = clock
      /\ \A i \in 1..L : all[i] = failures[i] /\ failures[i] \in Nat
  BY <1>0, <1>1
<1>3. PICK n \in 0..L :
        /\ \A i \in 1..Len(all) : Recent(all[i]) <=> i > n
        /\ failures' = SubSeq(all, n + 1, Len(all))
        /\ Len(SubSeq(all, n + 1, Len(all))) >= MaxFailures
             => state' = "open" /\ opened_at' = clock
  BY <1>1 DEF record_failure
<1> HIDE DEF all
<1> DEFINE kept == SubSeq(all, n + 1, L + 1)
<1>4. PICK K \in Nat : K = (L + 1) - n /\ K >= 1
  BY <1>1
<1>5. kept \in Seq(Nat) /\ Len(kept) = K /\ \A i \in 1..K : kept[i] = all[n + i]
  <2>1. n \in Nat /\ n <= L /\ n + 1 \in 1..(L + 2) /\ L + 1 \in 0..Len(all)
    BY <1>2
  <2>2. /\ kept \in Seq(Nat)
        /\ Len(kept) = IF n + 1 <= L + 1 THEN (L + 1) - (n + 1) + 1 ELSE 0
        /\ \A i \in 1..((L + 1) - (n + 1) + 1) : kept[i] = all[(n + 1) + i - 1]
    <3>1. n + 1 \in Int /\ L + 1 \in Int /\ \A i \in (n + 1)..(L + 1) : all[i] \in Nat
      BY <1>2, <2>1
    <3> QED
      BY <3>1, SubSeqProperties
  <2> HIDE DEF kept
  <2>3. ((L + 1) - (n + 1)) + 1 = K
    BY <1>4, <2>1
  <2>4. ASSUME NEW i \in 1..K PROVE kept[i] = all[n + i]
    <3>1. i \in 1..((L + 1) - (n + 1) + 1) /\ (n + 1) + i - 1 = n + i
      BY <2>1, <2>3
    <3> QED
      BY <2>2, <3>1
  <2> QED
    BY <2>1, <2>2, <2>3, <2>4
<1>6. /\ failures' = kept /\ clock' = clock
      /\ K >= MaxFailures => state' = "open" /\ opened_at' = clock
  BY <1>2, <1>3, <1>5
<1> HIDE DEF kept
<1>7. \A i \in 1..(L + 1) : i > n => all[i] <= clock /\ clock < all[i] + Window
  <2> SUFFICES ASSUME NEW i \in 1..(L + 1), i > n
               PROVE  all[i] <= clock /\ clock < all[i] + Window
    OBVIOUS
  <2>1. all[i] \in Nat /\ i \in 1..Len(all)
    BY <1>2
  <2>2. clock - all[i] < Window
    BY <1>3, <2>1 DEF Recent
  <2>3. i = L + 1 \/ i \in 1..L
    OBVIOUS
  <2>4. all[i] <= clock
    BY <1>0, <1>1, <1>2, <2>3 DEF BreakerInv
  <2> QED
    BY <1>0, <2>1, <2>2, <2>4
<1>8. kept[K] = clock
  BY <1>2, <1>4, <1>5
<1>9. ASSUME NEW i \in 1..K
      PROVE  kept[i] <= clock /\ kept[K] < kept[i] + Window
  <2>1. n + i \in 1..(L + 1) /\ n + i > n /\ kept[i] = all[n + i]
    BY <1>4, <1>5
  <2> QED
    BY <1>7, <1>8, <2>1
<1>10. Spread(kept)
  <2>1. \A i \in 1..K : i < K => kept[i] = failures[n + i]
    <3> SUFFICES ASSUME NEW i \in 1..K, i < K PROVE kept[i] = failures[n + i]
      OBVIOUS
    <3>1. n + i \in 1..L
      BY <1>4
    <3> QED
      BY <1>2, <1>5, <3>1
  <2>2. L >= MaxFailures => clock >= failures[L] + OpenDuration
    <3> SUFFICES ASSUME L >= MaxFailures PROVE clock >= failures[L] + OpenDuration
      OBVIOUS
    <3>1. state = "open" /\ opened_at = failures[L] /\ L \in 1..L
      BY <1>0, <1>1 DEF BreakerInv
    <3>2. clock - failures[L] >= OpenDuration /\ failures[L] \in Nat
      BY <1>2, <3>1 DEF allow_request
    <3> QED
      BY <1>0, <3>2
  <2>3. Spread(failures) /\ n <= L /\ n \in Nat
    BY DEF BreakerInv
  <2> QED
    BY <1>0, <1>1, <1>2, <1>4, <1>5, <1>8, <2>1, <2>2, <2>3, SpreadKept
<1> QED
  BY <1>0, <1>5, <1>6, <1>8, <1>9, <1>10 DEF BreakerInv, Spread

LEMMA BreakerInvNext == BreakerInv /\ [PlatformNext]_platformVars => BreakerInv'
<1> SUFFICES ASSUME BreakerInv, [PlatformNext]_platformVars PROVE BreakerInv'
  OBVIOUS
<1>1. CASE UNCHANGED breakerVars /\ (clock' = clock \/ clock' = clock + 1)
  <2>1. /\ UNCHANGED <<state, failures, opened_at>> /\ clock \in Nat
        /\ clock' \in Nat /\ clock <= clock'
    BY <1>1 DEF breakerVars, BreakerInv
  <2>2. \A i \in 1..Len(failures) : failures[i] \in Nat
    BY DEF BreakerInv
  <2> QED
    BY <2>1, <2>2 DEF BreakerInv, Spread
<1>2. CASE record_success /\ UNCHANGED clock
  <2>1. /\ failures' = <<>> /\ clock' \in Nat /\ MaxFailures \in Nat \ {0}
        /\ Len(failures') = 0 /\ failures' \in Seq(Nat)
    BY <1>2, PlatformAssumption DEF record_success, BreakerInv
  <2>2. MaxFailures..Len(failures') = {} /\ 1..Len(failures') = {}
    BY <2>1
  <2> QED
    BY <2>1, <2>2 DEF BreakerInv, Spread
<1>3. ASSUME NEW s \in {"closed", "half_open"}, allow_request(s), record_failure(s),
             UNCHANGED clock
      PROVE  BreakerInv'
  BY <1>3, FailureKept
<1>4. CASE BreakerNext
  BY <1>1, <1>2, <1>3, <1>4 DEF BreakerNext, get_web3_provider, Tick
<1>5. CASE SubmitNext \/ UNCHANGED platformVars
  BY <1>1, <1>5 DEF SubmitNext, platformVars
<1> QED
  BY <1>4, <1>5 DEF PlatformNext

(* The breaker lets at most MAX_FAILURES failing calls through within      *)
(* FAILURE_WINDOW, and one test for every OPEN_DURATION that fits in, for  *)
(* every setting of the three and however long the node is down.           *)
THEOREM PlatformFailuresBounded == PlatformSpec => []FailuresBounded
<1>1. PlatformInit => BreakerInv
  <2> SUFFICES ASSUME PlatformInit PROVE BreakerInv
    OBVIOUS
  <2>1. /\ failures = <<>> /\ clock = 0 /\ MaxFailures \in Nat \ {0}
        /\ Len(failures) = 0 /\ failures \in Seq(Nat)
    BY PlatformAssumption DEF PlatformInit
  <2>2. MaxFailures..Len(failures) = {} /\ 1..Len(failures) = {}
    BY <2>1
  <2> QED
    BY <2>1, <2>2 DEF BreakerInv, Spread
<1>2. BreakerInv => FailuresBounded
  <2> SUFFICES ASSUME BreakerInv PROVE FailuresBounded
    OBVIOUS
  <2> DEFINE L == Len(failures)
             q == (Window - 1) \div OpenDuration
  <2>0. /\ MaxFailures \in Nat \ {0} /\ Window \in Nat \ {0} /\ OpenDuration \in Nat \ {0}
        /\ L \in Nat /\ Window - 1 \in Nat
    BY PlatformAssumption DEF BreakerInv
  <2>1. q \in Nat
    BY <2>0
  <2>2. CASE L <= MaxFailures
    BY <2>0, <2>1, <2>2 DEF FailuresBounded
  <2>3. CASE L > MaxFailures
    <3> DEFINE m == L - MaxFailures
    <3>1. m \in Nat /\ L \in MaxFailures..L /\ MaxFailures \in MaxFailures..L
          /\ L \in 1..L /\ MaxFailures \in 1..L
      BY <2>0, <2>3
    <3>2. /\ failures[L] >= failures[MaxFailures] + m * OpenDuration
          /\ failures[L] < failures[MaxFailures] + Window
          /\ failures[L] \in Nat /\ failures[MaxFailures] \in Nat
      BY <2>0, <2>3, <3>1 DEF BreakerInv, Spread
    <3>3. m * OpenDuration \in Nat
      BY <2>0, <3>1
    <3> HIDE DEF m
    <3>4. m * OpenDuration <= Window - 1
      BY <2>0, <3>2, <3>3
    <3>5. m <= q
      <4>1. (m * OpenDuration) \div OpenDuration <= q
        BY <2>0, <3>3, <3>4, DivMonotone
      <4>2. ASSUME NEW x \in Nat, NEW d \in Nat \ {0} PROVE (x * d) \div d = x
        BY SMT
      <4> QED
        BY <2>0, <3>1, <4>1, <4>2 DEF m
    <3> QED
      BY <2>0, <2>1, <3>1, <3>5 DEF FailuresBounded, m
  <2> QED
    BY <2>0, <2>2, <2>3
<1> QED
  BY <1>1, <1>2, BreakerInvNext, PTL DEF PlatformSpec

-----------------------------------------------------------------------------
(* Submissions.  With every attempt that found its nonce taken another     *)
(* transaction of the account has gone through.                            *)

Submission == [stage : {"start", "built", "sent", "raised", "failed"},
               nonce : Nat, attempt : Nat, since : Nat]

Crowded(r, count) ==
    /\ r.stage = "start" => r.attempt = 0 \/ r.since + r.attempt <= count
    /\ r.stage = "built" => r.since + r.attempt <= r.nonce /\ r.nonce <= count
    /\ r.stage = "raised" => r.since + r.attempt <= count /\ r.attempt >= MaxRetries

SubmitInv ==
    /\ pending \in Nat
    /\ submission \in [Submissions -> Submission]
    /\ \A x \in Submissions : Crowded(submission[x], pending)

LEMMA CrowdedLater ==
    ASSUME NEW r \in Submission, NEW n \in Nat, Crowded(r, n)
    PROVE  Crowded(r, n + 1)
<1>1. r.since \in Nat /\ r.attempt \in Nat /\ r.nonce \in Nat
  BY DEF Submission
<1> QED
  BY <1>1 DEF Crowded

(* One submission changes, the count may grow.                             *)
LEMMA OneSubmission ==
    ASSUME SubmitInv, NEW x \in Submissions, NEW r \in Submission,
           submission' = [submission EXCEPT ![x] = r],
           pending' = pending \/ pending' = pending + 1,
           Crowded(r, pending')
    PROVE  SubmitInv'
<1> DEFINE n == pending'
<1>1. n \in Nat /\ (n = pending \/ n = pending + 1)
  BY DEF SubmitInv
<1> HIDE DEF n
<1>2. \A y \in Submissions : Crowded(submission[y], n)
  BY <1>1, CrowdedLater DEF SubmitInv
<1>3. \A y \in Submissions : Crowded(submission'[y], n)
  BY <1>2 DEF SubmitInv, n
<1> QED
  BY <1>1, <1>3 DEF SubmitInv, n

LEMMA SubmitInvNext == SubmitInv /\ [PlatformNext]_platformVars => SubmitInv'
<1> SUFFICES ASSUME SubmitInv, [PlatformNext]_platformVars PROVE SubmitInv'
  OBVIOUS
<1>0. MaxRetries \in Nat
  BY PlatformAssumption
<1>1. CASE UNCHANGED platformVars \/ BreakerNext
  BY <1>1 DEF platformVars, submitVars, BreakerNext, SubmitInv
<1>2. ASSUME NEW x \in Submissions,
             ReadNonce(x) \/ Accept(x) \/ Conflict(x) \/ Fail(x)
      PROVE  SubmitInv'
  <2> DEFINE r == submission[x]
  <2>1. /\ r \in Submission /\ pending \in Nat /\ Crowded(r, pending)
        /\ r.nonce \in Nat /\ r.attempt \in Nat /\ r.since \in Nat
    BY DEF SubmitInv, Submission
  <2>2. CASE ReadNonce(x)
    <3> DEFINE q == [r EXCEPT !.stage = "built", !.nonce = pending, !.since = Since(x)]
    <3>1. Since(x) \in Nat /\ Since(x) + r.attempt <= pending
      BY <2>1, <2>2 DEF Since, ReadNonce, Crowded
    <3>2. /\ q \in Submission /\ q.stage = "built" /\ q.nonce = pending
          /\ q.since = Since(x) /\ q.attempt = r.attempt
      BY <2>1, <3>1 DEF Submission
    <3>3. submission' = [submission EXCEPT ![x] = q] /\ UNCHANGED pending
      BY <2>1, <2>2 DEF ReadNonce, SubmitInv, Submission
    <3> HIDE DEF q
    <3>4. Crowded(q, pending')
      BY <2>1, <3>1, <3>2, <3>3 DEF Crowded
    <3> QED
      BY <3>2, <3>3, <3>4, OneSubmission
  <2>3. CASE Accept(x) \/ Fail(x)
    <3>1. PICK stage \in {"sent", "failed"} :
             /\ submission' = [submission EXCEPT ![x] = [r EXCEPT !.stage = stage]]
             /\ pending' = pending \/ pending' = pending + 1
      BY <2>3 DEF Accept, Fail
    <3> DEFINE q == [r EXCEPT !.stage = stage]
    <3>2. q \in Submission /\ q.stage \in {"sent", "failed"}
      BY <2>1 DEF Submission
    <3> HIDE DEF q
    <3>3. Crowded(q, pending')
      BY <3>2 DEF Crowded
    <3> QED
      BY <3>1, <3>2, <3>3, OneSubmission DEF q
  <2>4. CASE Conflict(x)
    <3> DEFINE stage == IF r.attempt + 1 < MaxRetries THEN "start" ELSE "raised"
               more  == r.attempt + 1
               q == [r EXCEPT !.attempt = more, !.stage = stage]
    <3>1. submission' = [submission EXCEPT ![x] = q] /\ UNCHANGED pending
      BY <2>1, <2>4 DEF Conflict, SubmitInv, Submission
    <3>2. /\ q \in Submission /\ q.stage = stage /\ q.since = r.since
          /\ q.attempt = more
      <4>1. stage \in {"start", "raised"} /\ more \in Nat
        BY <2>1
      <4> HIDE DEF stage, more
      <4> QED
        BY <2>1, <4>1 DEF Submission
    <3>3. r.since + q.attempt <= pending
      BY <2>1, <2>4, <3>2 DEF Conflict, Crowded
    <3> HIDE DEF q
    <3>4. Crowded(q, pending')
      BY <1>0, <2>1, <3>1, <3>2, <3>3 DEF Crowded
    <3> QED
      BY <3>1, <3>2, <3>4, OneSubmission
  <2> QED
    BY <1>2, <2>2, <2>3, <2>4
<1>3. CASE Rival
  <2>1. UNCHANGED submission /\ pending' = pending + 1 /\ pending' \in Nat
    BY <1>3 DEF Rival, SubmitInv
  <2> QED
    BY <2>1, CrowdedLater DEF SubmitInv
<1> QED
  BY <1>1, <1>2, <1>3 DEF PlatformNext, SubmitNext

(* A submission gives up on its nonce only after MAX_NONCE_RETRIES other   *)
(* transactions of the account went through while it tried, whatever the   *)
(* number of submissions (submit_transaction reads the nonce again).       *)
THEOREM PlatformGivesUpInACrowd == PlatformSpec => []GivesUpInACrowd
<1>1. PlatformInit => SubmitInv
  BY DEF PlatformInit, SubmitInv, Submission, Unsent, Crowded
<1>2. SubmitInv => GivesUpInACrowd
  <2> SUFFICES ASSUME SubmitInv, NEW x \in Submissions, submission[x].stage = "raised"
               PROVE  pending - submission[x].since >= MaxRetries
    BY DEF GivesUpInACrowd
  <2>1. /\ submission[x].since \in Nat /\ submission[x].attempt \in Nat
        /\ pending \in Nat /\ MaxRetries \in Nat
    BY PlatformAssumption DEF SubmitInv, Submission
  <2>2. /\ submission[x].since + submission[x].attempt <= pending
        /\ submission[x].attempt >= MaxRetries
    BY DEF SubmitInv, Crowded
  <2> QED
    BY <2>1, <2>2
<1> QED
  BY <1>1, <1>2, SubmitInvNext, PTL DEF PlatformSpec

-----------------------------------------------------------------------------
(* The rate limit.  A key's window holds every call of the key that was    *)
(* let through and is still recent; a key has one limit.                   *)

CallTo(c, p, id, at) == [id |-> id, key |-> rate_key(c, p), path |-> p, at |-> at]

Calls == {CallTo(c, p, id, at) : c \in Clients, p \in Paths, id \in Nat, at \in Nat}

InWindow(x, t) == x.at <= t /\ t < x.at + window_size

LoadOf(S, k, t) == {x \in S : x.key = k /\ InWindow(x, t)}

(* At most the limit in the windows that end at calls let through, at      *)
(* least the limit in those that end at calls turned away; neither is in   *)
(* the future, nor numbered beyond the count.                              *)
LimitInv ==
    /\ second \in Nat /\ calls \in Nat
    /\ passed \subseteq Calls /\ turnedAway \subseteq Calls
    /\ IsFiniteSet(passed)
    /\ \A k \in DOMAIN windows : windows[k] \subseteq passed
    /\ \A x \in passed : x.id <= calls
    /\ \A x \in passed \cup turnedAway : x.at <= second
    /\ \A k : RecentCalls(k) = {x \in passed : x.key = k /\ InWindow(x, second)}
    /\ LimitExact

LEMMA AdmittedFacts ==
    ASSUME NEW x \in Calls
    PROVE  /\ x.id \in Nat /\ x.at \in Nat /\ x.path \in Paths
           /\ \E c \in Clients : x.key = rate_key(c, x.path)
BY DEF Calls, CallTo

(* Calls of one key are held to one limit.                                 *)
LEMMA OneLimit ==
    ASSUME NEW x \in Calls, NEW y \in Calls, x.key = y.key
    PROVE  effective_limit(x.path) = effective_limit(y.path)
<1>1. PICK c \in Clients : x.key = rate_key(c, x.path)
  BY AdmittedFacts
<1>2. PICK d \in Clients : y.key = rate_key(d, y.path)
  BY AdmittedFacts
<1>3. \A a, b, q : <<a>> # <<b, q>>
  <2> SUFFICES ASSUME NEW q, NEW a, NEW b, <<a>> = <<b, q>> PROVE FALSE
    OBVIOUS
  <2>1. Len(<<a>>) = 1 /\ Len(<<b, q>>) = 2
    OBVIOUS
  <2> QED
    BY <2>1
<1>4. \A a, b, p, q : <<a, p>> = <<b, q>> => p = q
  OBVIOUS
<1> DEFINE n(p) == get_limit_for_path(p)
<1> HIDE DEF n
<1>5. /\ rate_key(c, x.path) = rate_key(d, y.path)
      /\ \A e, p : n(p) # requests_per_minute => rate_key(e, p) = <<e, p>>
      /\ \A e, p : n(p) = requests_per_minute => rate_key(e, p) = <<e>>
  BY <1>1, <1>2 DEF rate_key, n
<1>6. n(x.path) = n(y.path)
  <2>1. CASE n(x.path) # requests_per_minute /\ n(y.path) # requests_per_minute
    BY <1>4, <1>5, <2>1
  <2>2. CASE n(x.path) = requests_per_minute /\ n(y.path) # requests_per_minute
    BY <1>3, <1>5, <2>2
  <2>3. CASE n(x.path) # requests_per_minute /\ n(y.path) = requests_per_minute
    BY <1>3, <1>5, <2>3
  <2> QED
    BY <2>1, <2>2, <2>3
<1> QED
  BY <1>6 DEF effective_limit, n

(* The limit seen from a call: passed is what counts.                      *)
LEMMA LoadFacts ==
    ASSUME LimitInv, NEW k, NEW t
    PROVE  IsFiniteSet(Load(k, t)) /\ Cardinality(Load(k, t)) \in Nat
<1>1. Load(k, t) \subseteq passed
  BY DEF Load
<1> QED
  BY <1>1, FS_Subset, FS_CardinalityType DEF LimitInv

LEMMA LimitAtCheck ==
    ASSUME LimitInv, NEW k
    PROVE  RecentCalls(k) = Load(k, second)
BY DEF LimitInv, Load, InWindow

(* A call let through, or turned away, now.                                *)
LEMMA LimitInvDispatch ==
    ASSUME LimitInv, NEW c \in Clients, NEW p \in Paths, dispatch(c, p)
    PROVE  LimitInv'
<1> DEFINE k == rate_key(c, p)
           now == ThisCall(c, p)
           recent == RecentCalls(k)
           m == effective_limit(p)
<1>1. /\ second \in Nat /\ calls \in Nat /\ passed \subseteq Calls
      /\ turnedAway \subseteq Calls /\ IsFiniteSet(passed) /\ window_size \in Nat
      /\ m \in Nat
  BY GatewayAssumption DEF LimitInv, effective_limit, get_limit_for_path, burst_size
<1>2. /\ now \in Calls /\ now.key = k /\ now.at = second /\ now.path = p
      /\ now.id = calls + 1 /\ now \notin passed
  <2>1. now \in Calls
    BY <1>1 DEF ThisCall, Calls, CallTo
  <2>2. now.key = k /\ now.at = second /\ now.path = p /\ now.id = calls + 1
    BY DEF ThisCall
  <2> HIDE DEF now
  <2>3. now \notin passed
    BY <1>1, <2>2 DEF LimitInv
  <2> QED
    BY <2>1, <2>2, <2>3
<1>3. /\ recent = Load(k, second) /\ Cardinality(recent) \in Nat
      /\ IsFiniteSet(recent)
  BY LimitAtCheck, LoadFacts
<1>4. calls' = calls + 1 /\ second' = second
  BY DEF dispatch, Counted
<1>5. CASE Cardinality(recent) < m
  <2>1. /\ passed' = passed \cup {now} /\ turnedAway' = turnedAway
        /\ windows' = [x \in DOMAIN windows \cup {k} |->
                         IF x = k THEN recent \cup {now} ELSE windows[x]]
    BY <1>5 DEF dispatch, Stored
  <2> HIDE DEF now
  <2>2. IsFiniteSet(recent \cup {now}) /\ Cardinality(recent \cup {now}) <= m
    <3> HIDE DEF recent, m
    <3>1. /\ IsFiniteSet(recent \cup {now})
          /\ Cardinality(recent \cup {now}) = Cardinality(recent)
             \/ Cardinality(recent \cup {now}) = Cardinality(recent) + 1
      BY <1>3, FS_AddElement
    <3> QED
      BY <1>1, <1>3, <1>5, <3>1
  <2>3. \A j : RecentCalls(j)' = LoadOf(passed \cup {now}, j, second)
    <3> SUFFICES ASSUME NEW j
                 PROVE  RecentCalls(j)' = LoadOf(passed \cup {now}, j, second)
      OBVIOUS
    <3>1. CASE j = k
      <4>1. RecentCalls(k)' = {x \in recent \cup {now} : x.at + window_size > second}
        BY <1>4, <2>1 DEF RecentCalls
      <4>2. recent = LoadOf(passed, k, second)
        BY <1>3 DEF Load, LoadOf, InWindow
      <4> HIDE DEF recent, k
      <4> QED
        BY <1>1, <1>2, <3>1, <4>1, <4>2, AdmittedFacts DEF LoadOf, InWindow
    <3>2. CASE j # k
      <4>1. RecentCalls(j)' = RecentCalls(j)
        BY <1>4, <2>1, <3>2 DEF RecentCalls
      <4>2. RecentCalls(j) = LoadOf(passed, j, second)
        BY LimitAtCheck DEF Load, LoadOf, InWindow
      <4> QED
        BY <1>2, <3>2, <4>1, <4>2 DEF LoadOf
    <3> QED
      BY <3>1, <3>2
  <2>4. ASSUME NEW x \in passed \cup {now}
        PROVE  Cardinality(LoadOf(passed \cup {now}, x.key, x.at))
                 <= effective_limit(x.path)
    <3>1. x \in Calls /\ x.at \in Nat /\ x.at <= second
      BY <1>1, <1>2, AdmittedFacts DEF LimitInv
    <3>2. CASE x.key = k /\ x.at = second
      <4>1. LoadOf(passed \cup {now}, k, second) \subseteq recent \cup {now}
        BY <1>3 DEF Load, LoadOf, InWindow
      <4>2. effective_limit(x.path) = m
        BY <1>2, <3>1, <3>2, OneLimit
      <4>3. Cardinality(LoadOf(passed \cup {now}, k, second))
              <= Cardinality(recent \cup {now})
        BY <2>2, <4>1, FS_Subset
      <4>4. Cardinality(LoadOf(passed \cup {now}, k, second)) \in Nat
        BY <2>2, <4>1, FS_Subset, FS_CardinalityType
      <4>5. Cardinality(recent \cup {now}) \in Nat
        BY <2>2, FS_CardinalityType
      <4> QED
        BY <1>1, <2>2, <3>2, <4>2, <4>3, <4>4, <4>5
    <3>3. CASE ~(x.key = k /\ x.at = second)
      <4>1. ~(now.key = x.key /\ InWindow(now, x.at))
        BY <1>1, <1>2, <3>1, <3>3 DEF InWindow
      <4>2. LoadOf(passed \cup {now}, x.key, x.at) = Load(x.key, x.at) /\ x \in passed
        <5>1. x # now
          BY <1>2, <3>3
        <5> QED
          BY <4>1, <5>1 DEF Load, LoadOf, InWindow
      <4> QED
        BY <4>2 DEF LimitInv, LimitExact
    <3> QED
      BY <3>2, <3>3
  <2>5. ASSUME NEW x \in turnedAway
        PROVE  Cardinality(LoadOf(passed \cup {now}, x.key, x.at))
                 >= effective_limit(x.path)
    <3>1. Load(x.key, x.at) \subseteq LoadOf(passed \cup {now}, x.key, x.at)
      BY DEF Load, LoadOf, InWindow
    <3>2. IsFiniteSet(LoadOf(passed \cup {now}, x.key, x.at))
      <4>1. LoadOf(passed \cup {now}, x.key, x.at) \subseteq passed \cup {now}
        BY DEF LoadOf
      <4>2. IsFiniteSet(passed \cup {now})
        BY <1>1, FS_AddElement
      <4> QED
        BY <4>1, <4>2, FS_Subset
    <3>3. /\ Cardinality(Load(x.key, x.at))
                <= Cardinality(LoadOf(passed \cup {now}, x.key, x.at))
          /\ Cardinality(Load(x.key, x.at)) \in Nat
          /\ Cardinality(LoadOf(passed \cup {now}, x.key, x.at)) \in Nat
      BY <3>1, <3>2, FS_Subset, FS_CardinalityType
    <3>4. Cardinality(Load(x.key, x.at)) >= effective_limit(x.path)
      BY DEF LimitInv, LimitExact
    <3>5. effective_limit(x.path) \in Nat
      BY GatewayAssumption
         DEF effective_limit, get_limit_for_path, burst_size
    <3> QED
      BY <3>3, <3>4, <3>5
  <2>6. LimitExact'
    BY <2>1, <2>4, <2>5 DEF LimitExact, Load, LoadOf, InWindow
  <2>7. IsFiniteSet(passed')
    BY <1>1, <2>1, FS_AddElement
  <2>8. /\ passed' \subseteq Calls /\ turnedAway' \subseteq Calls
        /\ second' \in Nat /\ calls' \in Nat
        /\ \A x \in passed' : x.id <= calls'
        /\ \A x \in passed' \cup turnedAway' : x.at <= second'
    BY <1>1, <1>2, <1>4, <2>1, AdmittedFacts DEF LimitInv
  <2>9. \A j : RecentCalls(j)' = {x \in passed' : x.key = j /\ InWindow(x, second')}
    BY <1>4, <2>1, <2>3 DEF LoadOf
  <2>10. \A j \in DOMAIN windows' : windows'[j] \subseteq passed'
    BY <1>3, <2>1 DEF LimitInv, Load
  <2> QED
    BY <2>6, <2>7, <2>8, <2>9, <2>10 DEF LimitInv, InWindow
<1>6. CASE ~(Cardinality(recent) < m)
  <2>1. /\ passed' = passed /\ turnedAway' = turnedAway \cup {now}
        /\ windows' = [x \in DOMAIN windows \cup {k} |->
                         IF x = k THEN recent ELSE windows[x]]
    BY <1>6 DEF dispatch, Stored
  <2> HIDE DEF now
  <2>2. \A j : RecentCalls(j)' = LoadOf(passed, j, second)
    <3> SUFFICES ASSUME NEW j
                 PROVE  RecentCalls(j)' = LoadOf(passed, j, second)
      OBVIOUS
    <3>1. CASE j = k
      <4>1. RecentCalls(k)' = {x \in recent : x.at + window_size > second}
        BY <1>4, <2>1 DEF RecentCalls
      <4>2. recent = LoadOf(passed, k, second)
        BY <1>3 DEF Load, LoadOf, InWindow
      <4> HIDE DEF recent, k
      <4> QED
        BY <3>1, <4>1, <4>2 DEF LoadOf, InWindow
    <3>2. CASE j # k
      <4>1. RecentCalls(j)' = RecentCalls(j)
        BY <1>4, <2>1, <3>2 DEF RecentCalls
      <4> QED
        BY <4>1, LimitAtCheck DEF Load, LoadOf, InWindow
    <3> QED
      BY <3>1, <3>2
  <2>3. ASSUME NEW x \in turnedAway \cup {now}
        PROVE  Cardinality(Load(x.key, x.at)) >= effective_limit(x.path)
    <3>1. CASE x = now
      BY <1>1, <1>2, <1>3, <1>6, <3>1
    <3> QED
      BY <3>1 DEF LimitInv, LimitExact
  <2>4. LimitExact'
    BY <2>1, <2>3 DEF LimitInv, LimitExact, Load
  <2>5. /\ passed' \subseteq Calls /\ turnedAway' \subseteq Calls
        /\ second' \in Nat /\ calls' \in Nat /\ IsFiniteSet(passed')
        /\ \A x \in passed' : x.id <= calls'
        /\ \A x \in passed' \cup turnedAway' : x.at <= second'
    BY <1>1, <1>2, <1>4, <2>1, AdmittedFacts DEF LimitInv
  <2>6. \A j : RecentCalls(j)' = {x \in passed' : x.key = j /\ InWindow(x, second')}
    BY <1>4, <2>1, <2>2 DEF LoadOf
  <2>7. \A j \in DOMAIN windows' : windows'[j] \subseteq passed'
    BY <1>3, <2>1 DEF LimitInv, Load
  <2> QED
    BY <2>4, <2>5, <2>6, <2>7 DEF LimitInv, InWindow
<1> QED
  BY <1>5, <1>6

LEMMA LimitInvNext == LimitInv /\ [GatewayNext]_gatewayVars => LimitInv'
<1> SUFFICES ASSUME LimitInv, [GatewayNext]_gatewayVars PROVE LimitInv'
  OBVIOUS
<1>1. CASE UNCHANGED <<windows, passed, turnedAway, second>>
           /\ (calls' = calls \/ calls' = calls + 1)
  <2>1. LimitExact'
    BY <1>1 DEF LimitInv, LimitExact, Load
  <2>2. \A j : RecentCalls(j)' = {x \in passed' : x.key = j /\ InWindow(x, second')}
    BY <1>1 DEF LimitInv, RecentCalls
  <2>3. \A x \in passed' : x.id <= calls'
    BY <1>1, AdmittedFacts DEF LimitInv
  <2> QED
    BY <1>1, <2>1, <2>2, <2>3 DEF LimitInv, InWindow
<1>2. CASE \E c \in Clients, p \in Paths : dispatch(c, p)
  BY <1>2, LimitInvDispatch
<1>3. CASE Second
  <2>1. second' = second + 1 /\ UNCHANGED <<windows, calls, passed, turnedAway>>
    BY <1>3 DEF Second
  <2>2. LimitExact'
    BY <2>1 DEF LimitInv, LimitExact, Load
  <2>3. ASSUME NEW j
        PROVE  RecentCalls(j)' = {x \in passed' : x.key = j /\ InWindow(x, second')}
    <3>1. second \in Nat /\ window_size \in Nat
      BY GatewayAssumption DEF LimitInv
    <3>2. RecentCalls(j)' = {x \in RecentCalls(j) : x.at + window_size > second + 1}
      <4>1. \A x \in RecentCalls(j) : x \in Calls
        BY DEF LimitInv
      <4>2. CASE j \in DOMAIN windows
        <5>1. \A x \in windows[j] : x.at + window_size > second + 1
                                     => x.at + window_size > second
          BY <3>1, <4>2, AdmittedFacts DEF LimitInv
        <5> QED
          BY <2>1, <4>2, <5>1 DEF RecentCalls
      <4> QED
        BY <2>1, <4>2 DEF RecentCalls
    <3> QED
      BY <2>1, <3>1, <3>2, AdmittedFacts DEF LimitInv, InWindow
  <2>4. \A x \in passed' \cup turnedAway' : x.at <= second'
    BY <2>1, AdmittedFacts DEF LimitInv
  <2> QED
    BY <2>1, <2>2, <2>3, <2>4 DEF LimitInv, InWindow
<1>4. CASE NewProcess
  <2>1. /\ windows' = [k \in {} |-> {}] /\ passed' = {} /\ turnedAway' = {}
        /\ UNCHANGED <<second, calls>>
    BY <1>4 DEF NewProcess
  <2>2. \A j : RecentCalls(j)' = {}
    BY <2>1 DEF RecentCalls
  <2> QED
    BY <2>1, <2>2, FS_EmptySet DEF LimitInv, LimitExact
<1> QED
  BY <1>1, <1>2, <1>3, <1>4 DEF GatewayNext, gatewayVars, Unlimited, Counted

(* The limit is exact for any clients, paths, limits and window: however   *)
(* calls are spread, no window of window_size seconds sees more of a key's *)
(* calls let through than limit and burst, and none is refused before they *)
(* are used up (is_allowed drops what has left the window, then counts).   *)
THEOREM GatewayLimitExact == GatewaySpec => []LimitExact
<1>1. GatewayInit => LimitInv
  <2> SUFFICES ASSUME GatewayInit PROVE LimitInv
    OBVIOUS
  <2>1. \A j : RecentCalls(j) = {}
    BY DEF GatewayInit, RecentCalls
  <2> QED
    BY <2>1, FS_EmptySet DEF GatewayInit, LimitInv, LimitExact
<1>2. LimitInv => LimitExact
  BY DEF LimitInv
<1> QED
  BY <1>1, <1>2, LimitInvNext, PTL DEF GatewaySpec

-----------------------------------------------------------------------------
(* Requests of investors.                                                  *)

LinkJob    == [kind : {"link"}, user : Investors, arg : Addresses,
               read : {"checked", "first", "other"}]
UnlinkJob  == [kind : {"unlink"}, user : Investors, arg : Nat, read : {"checked"}]
PrimaryJob == [kind : {"primary"}, user : Investors, arg : Nat, read : SUBSET Nat]
ClaimJob   == [kind : {"claim"}, user : Investors, arg : Nat, read : Nat]

Job == {Waiting} \cup LinkJob \cup UnlinkJob \cup PrimaryJob \cup ClaimJob

LEMMA JobFacts ==
    ASSUME NEW j \in Job
    PROVE  /\ j.kind = "link" => j \in LinkJob
           /\ j.kind = "unlink" => j \in UnlinkJob
           /\ j.kind = "primary" => j \in PrimaryJob
           /\ j.kind = "claim" => j \in ClaimJob
           /\ j.kind = "none" \/ j.kind \in WalletKinds \/ j.kind = "claim"
           /\ j = Waiting => j.kind = "none"
BY DEF Job, Waiting, LinkJob, UnlinkJob, PrimaryJob, ClaimJob, WalletKinds

Wallet == [user : Investors, address : Addresses, is_primary : BOOLEAN]

(* Ids of rows are numbers given so far.                                   *)
PortfolioTypes ==
    /\ links \in Nat /\ DOMAIN wallets \subseteq 1..links
    /\ \A i \in DOMAIN wallets : wallets[i] \in Wallet
    /\ day \in Nat
    /\ claimed \in [Investors -> Nat] /\ told \in [Investors -> Nat]
    /\ handler \in [Handlers -> Job]

LEMMA JobTypeServe ==
    ASSUME handler \in [Handlers -> Job], NEW h \in Handlers,
           NEW kind, NEW u, NEW arg, NEW read,
           [kind |-> kind, user |-> u, arg |-> arg, read |-> read] \in Job,
           Serve(h, kind, u, arg, read)
    PROVE  /\ handler' \in [Handlers -> Job]
           /\ handler'[h] = [kind |-> kind, user |-> u, arg |-> arg, read |-> read]
           /\ \A g \in Handlers \ {h} : handler'[g] = handler[g]
           /\ handler[h].kind = "none"
BY DEF Serve, Waiting

LEMMA JobTypeAnswer ==
    ASSUME handler \in [Handlers -> Job], NEW h \in Handlers, Answer(h)
    PROVE  /\ handler' \in [Handlers -> Job]
           /\ handler'[h].kind = "none"
           /\ \A g \in Handlers \ {h} : handler'[g] = handler[g]
<1>1. Waiting \in Job /\ Waiting.kind = "none"
  BY DEF Job, Waiting
<1> QED
  BY <1>1 DEF Answer

-----------------------------------------------------------------------------
(* Vesting claims.                                                         *)

VestedAt(d) == IF d < Cliff THEN 0
               ELSE IF d >= End THEN Total
               ELSE (Total * (d - Cliff)) \div (End - Cliff)

LEMMA VestedGrows ==
    ASSUME NEW d \in Nat
    PROVE  VestedAt(d) \in Nat /\ VestedAt(d) <= VestedAt(d + 1)
<1>1. Total \in Nat /\ Cliff \in Nat /\ End \in Nat /\ Cliff <= End
  BY PortfolioAssumption
<1> DEFINE Linear(e) == (Total * (e - Cliff)) \div (End - Cliff)
<1>2. ASSUME NEW e \in Nat, ~(e < Cliff), ~(e >= End)
      PROVE  Linear(e) \in Nat /\ Linear(e) <= Total
  <2>1. End - Cliff \in Nat \ {0} /\ e - Cliff \in Nat /\ e - Cliff <= End - Cliff
    BY <1>1, <1>2
  <2>2. Total * (e - Cliff) \in Nat
    BY <1>1, <2>1, MulMonotone
  <2>3. Linear(e) \in Nat
    BY <2>1, <2>2, DivFacts
  <2>4. Linear(e) <= Total
    <3> DEFINE past == e - Cliff
               span == End - Cliff
    <3>1. past \in Nat /\ span \in Nat \ {0} /\ past <= span
      BY <2>1
    <3> HIDE DEF past, span
    <3>2. (Total * past) \div span <= Total
      BY <1>1, <3>1, DivAtMost
    <3> QED
      BY <3>2 DEF past, span
  <2> QED
    BY <2>3, <2>4
<1>3. ASSUME ~(d < Cliff), ~(d + 1 >= End)
      PROVE  Linear(d) <= Linear(d + 1)
  <2>1. /\ End - Cliff \in Nat \ {0} /\ d - Cliff \in Nat /\ (d + 1) - Cliff \in Nat
        /\ d - Cliff <= (d + 1) - Cliff
    BY <1>1, <1>3
  <2>2. /\ Total * (d - Cliff) \in Nat /\ Total * ((d + 1) - Cliff) \in Nat
        /\ Total * (d - Cliff) <= Total * ((d + 1) - Cliff)
    BY <1>1, <2>1, MulMonotone
  <2> DEFINE before == Total * (d - Cliff)
             after == Total * ((d + 1) - Cliff)
             span == End - Cliff
  <2>3. /\ before \in Nat /\ after \in Nat /\ before <= after
        /\ span \in Nat \ {0}
    BY <2>1, <2>2
  <2> HIDE DEF before, after, span
  <2>4. before \div span <= after \div span
    BY <2>3, DivMonotone
  <2>5. Linear(d) = before \div span /\ Linear(d + 1) = after \div span
    BY DEF before, after, span
  <2> QED
    BY <2>4, <2>5, Zenon
<1> HIDE DEF Linear
<1>4. \A e \in Nat : VestedAt(e) = IF e < Cliff THEN 0
                                  ELSE IF e >= End THEN Total ELSE Linear(e)
  BY DEF VestedAt, Linear
<1> QED
  BY <1>1, <1>2, <1>3, <1>4

(* The requests that start, and the rows they name.                        *)
LEMMA CheckedFacts ==
    ASSUME PortfolioTypes, NEW h \in Handlers, NEW u \in Investors,
           NEW a \in Addresses
    PROVE  /\ CheckLink(h, u, a) => Serve(h, "link", u, a, "checked")
           /\ CheckUnlink(h, u, a) =>
                 \E i \in Of(u) : /\ i \in Nat /\ ~wallets[i].is_primary
                                 /\ Serve(h, "unlink", u, i, "checked")
           /\ CheckPrimary(h, u, a) =>
                 \E i \in Of(u) : /\ i \in Nat /\ Primary(u) \in SUBSET Nat
                                 /\ Serve(h, "primary", u, i, Primary(u))
<1>1. Of(u) \subseteq Nat /\ Primary(u) \subseteq Nat
  BY DEF PortfolioTypes, Of, Primary
<1> QED
  BY <1>1 DEF CheckLink, CheckUnlink, CheckPrimary

LEMMA JobTypes ==
    ASSUME NEW u \in Investors
    PROVE  /\ \A a \in Addresses, r \in {"checked", "first", "other"} :
                [kind |-> "link", user |-> u, arg |-> a, read |-> r] \in Job
           /\ \A i \in Nat :
                [kind |-> "unlink", user |-> u, arg |-> i, read |-> "checked"] \in Job
           /\ \A i \in Nat, S \in SUBSET Nat :
                [kind |-> "primary", user |-> u, arg |-> i, read |-> S] \in Job
           /\ \A n, r \in Nat :
                [kind |-> "claim", user |-> u, arg |-> n, read |-> r] \in Job
BY DEF Job, LinkJob, UnlinkJob, PrimaryJob, ClaimJob

(* A request that starts, of a kind whose job has its type.                *)
LEMMA PortfolioTypesServe ==
    ASSUME PortfolioTypes, NEW h \in Handlers,
           NEW kind, NEW u, NEW arg, NEW read,
           [kind |-> kind, user |-> u, arg |-> arg, read |-> read] \in Job,
           Serve(h, kind, u, arg, read)
    PROVE  PortfolioTypes'
<1>1. handler' \in [Handlers -> Job]
  BY JobTypeServe DEF PortfolioTypes
<1> QED
  BY <1>1 DEF PortfolioTypes, Serve

LEMMA ClaimableTypes ==
    ASSUME PortfolioTypes, NEW u \in Investors
    PROVE  /\ claimable_amount(u) \in Nat /\ claimed[u] \in Nat
           /\ claimable_amount(u) > 0 =>
                claimed[u] + claimable_amount(u) = VestedAt(day)
<1>1. vested_amount = VestedAt(day) /\ VestedAt(day) \in Nat /\ claimed[u] \in Nat
  BY VestedGrows DEF vested_amount, VestedAt, PortfolioTypes
<1> QED
  BY <1>1 DEF claimable_amount

(* A link request counts: its job with what it read.                       *)
LEMMA CountLinkFacts ==
    ASSUME PortfolioTypes, NEW h \in Handlers, CountLink(h)
    PROVE  /\ handler' \in [Handlers -> Job]
           /\ handler[h].kind = "link" /\ handler'[h].kind = "link"
           /\ handler'[h].user = handler[h].user /\ handler'[h].arg = handler[h].arg
           /\ handler'[h].read = IF Of(handler[h].user) = {} THEN "first" ELSE "other"
           /\ \A g \in Handlers \ {h} : handler'[g] = handler[g]
<1> DEFINE r == IF Of(handler[h].user) = {} THEN "first" ELSE "other"
           q == [handler[h] EXCEPT !.read = r]
<1>1. r \in {"checked", "first", "other"} /\ handler[h].kind = "link"
  BY DEF CountLink
<1>2. handler[h] \in LinkJob
  BY <1>1, JobFacts DEF PortfolioTypes
<1>3. handler' = [handler EXCEPT ![h] = q]
  BY DEF CountLink, PortfolioTypes
<1>4. /\ q \in LinkJob /\ q.kind = "link" /\ q.user = handler[h].user
      /\ q.arg = handler[h].arg /\ q.read = r
  <2> HIDE DEF r
  <2> QED
    BY <1>1, <1>2 DEF LinkJob
<1> HIDE DEF q, r
<1>5. q \in Job
  BY <1>4 DEF Job
<1> QED
  BY <1>1, <1>3, <1>4, <1>5 DEF PortfolioTypes, r

LEMMA PortfolioTypesNext ==
    PortfolioTypes /\ [PortfolioNext]_portfolioVars => PortfolioTypes'
<1> SUFFICES ASSUME PortfolioTypes, [PortfolioNext]_portfolioVars
             PROVE  PortfolioTypes'
  OBVIOUS
<1>1. CASE UNCHANGED portfolioVars
  BY <1>1 DEF portfolioVars, PortfolioTypes
<1>2. ASSUME NEW h \in Handlers, NEW u \in Investors, NEW a \in Addresses,
             CheckLink(h, u, a) \/ CheckUnlink(h, u, a) \/ CheckPrimary(h, u, a)
      PROVE  PortfolioTypes'
  BY <1>2, CheckedFacts, JobTypes, PortfolioTypesServe
<1>3. ASSUME NEW h \in Handlers, CountLink(h) PROVE PortfolioTypes'
  BY <1>3, CountLinkFacts DEF CountLink, PortfolioTypes
<1>4. ASSUME NEW h \in Handlers, ScreenLink(h) PROVE PortfolioTypes'
  <2> DEFINE row == [user |-> handler[h].user, address |-> handler[h].arg,
                     is_primary |-> handler[h].read = "first"]
  <2>1. handler[h] \in LinkJob
    BY <1>4, JobFacts DEF ScreenLink, PortfolioTypes
  <2>2. row \in Wallet
    BY <2>1 DEF LinkJob, Wallet
  <2>3. /\ links' = links + 1
        /\ wallets' = [i \in DOMAIN wallets \cup {links + 1} |->
                         IF i = links + 1 THEN row ELSE wallets[i]]
        /\ UNCHANGED <<claimed, day, told>>
    BY <1>4 DEF ScreenLink
  <2> HIDE DEF row
  <2>4. links' \in Nat /\ DOMAIN wallets' \subseteq 1..links'
    BY <2>3 DEF PortfolioTypes
  <2>5. \A i \in DOMAIN wallets' : wallets'[i] \in Wallet
    BY <2>2, <2>3 DEF PortfolioTypes
  <2>6. handler' \in [Handlers -> Job]
    BY <1>4, JobTypeAnswer DEF ScreenLink, PortfolioTypes
  <2> QED
    BY <2>3, <2>4, <2>5, <2>6 DEF PortfolioTypes
<1>5. ASSUME NEW h \in Handlers, Blocked(h) \/ Unlink(h) PROVE PortfolioTypes'
  <2>1. handler' \in [Handlers -> Job]
    BY <1>5, JobTypeAnswer DEF Blocked, Unlink, PortfolioTypes
  <2> QED
    BY <1>5, <2>1 DEF Blocked, Unlink, PortfolioTypes
<1>6. ASSUME NEW h \in Handlers, SetPrimary(h) PROVE PortfolioTypes'
  <2>1. handler' \in [Handlers -> Job] /\ UNCHANGED <<links, claimed, day, told>>
    BY <1>6, JobTypeAnswer DEF SetPrimary, PortfolioTypes
  <2>2. /\ DOMAIN wallets' = DOMAIN wallets
        /\ \A i \in DOMAIN wallets : wallets'[i] \in Wallet
    BY <1>6 DEF SetPrimary, PortfolioTypes, Wallet
  <2> QED
    BY <2>1, <2>2 DEF PortfolioTypes
<1>7. ASSUME NEW h \in Handlers, NEW u \in Investors, CheckClaim(h, u)
      PROVE  PortfolioTypes'
  BY <1>7, ClaimableTypes, JobTypes, PortfolioTypesServe DEF CheckClaim
<1>8. ASSUME NEW h \in Handlers, Claim(h) PROVE PortfolioTypes'
  <2>1. handler[h] \in ClaimJob
    BY <1>8, JobFacts DEF Claim, PortfolioTypes
  <2>2. /\ handler[h].user \in Investors /\ handler[h].arg \in Nat
        /\ handler[h].read \in Nat
    BY <2>1 DEF ClaimJob
  <2>3. handler' \in [Handlers -> Job]
    BY <1>8, JobTypeAnswer DEF Claim, PortfolioTypes
  <2> QED
    BY <1>8, <2>2, <2>3 DEF Claim, PortfolioTypes
<1>9. CASE Day
  BY <1>9 DEF Day, PortfolioTypes
<1> QED
  BY <1>1, <1>2, <1>3, <1>4, <1>5, <1>6, <1>7, <1>8, <1>9
     DEF PortfolioNext, WalletNext, ClaimNext

(* A claim writes no more than has vested, even over another one's; where  *)
(* an investor's claims never overlapped, it read what is there.           *)
ClaimFits(j, v) == j.kind = "claim" => j.read + j.arg <= v

ClaimsInOrder(u) ==
    /\ told[u] = claimed[u]
    /\ \A h \in Serving(u, {"claim"}) : handler[h].read = claimed[u]
    /\ \A h, g \in Serving(u, {"claim"}) : h = g

TrancheInv ==
    /\ PortfolioTypes
    /\ \A u \in Investors : claimed[u] <= VestedAt(day)
    /\ \A h \in Handlers : ClaimFits(handler[h], VestedAt(day))
    /\ \A u \in Investors \ claimRace : ClaimsInOrder(u)

(* Whatever other requests do, no claim is disturbed.                      *)
LEMMA TrancheKept ==
    ASSUME TrancheInv, PortfolioTypes',
           \A h \in Handlers :
              handler'[h].kind = "claim" => handler'[h] = handler[h],
           UNCHANGED <<claimed, told, day>>, claimRace \subseteq claimRace'
    PROVE  TrancheInv'
<1>1. \A h \in Handlers : ClaimFits(handler'[h], VestedAt(day))
  BY DEF TrancheInv, ClaimFits
<1>2. ASSUME NEW u \in Investors \ claimRace'
      PROVE  ClaimsInOrder(u)'
  <2>1. ClaimsInOrder(u)
    BY DEF TrancheInv
  <2>2. \A h \in Serving(u, {"claim"})' : h \in Serving(u, {"claim"})
    BY DEF Serving
  <2>3. \A h \in Serving(u, {"claim"})' : handler'[h] = handler[h]
    BY DEF Serving
  <2> QED
    BY <2>1, <2>2, <2>3 DEF ClaimsInOrder
<1> QED
  BY <1>1, <1>2 DEF TrancheInv

LEMMA TrancheInvNext == TrancheInv /\ [PortfolioNext]_portfolioVars => TrancheInv'
<1> SUFFICES ASSUME TrancheInv, [PortfolioNext]_portfolioVars PROVE TrancheInv'
  OBVIOUS
<1>0. PortfolioTypes /\ PortfolioTypes'
  BY PortfolioTypesNext DEF TrancheInv
<1>1. CASE UNCHANGED portfolioVars
  <2>1. UNCHANGED <<handler, claimed, told, day, claimRace>>
    BY <1>1 DEF portfolioVars, races
  <2> QED
    BY <1>0, <2>1, TrancheKept
<1>2. ASSUME NEW h \in Handlers, NEW u \in Investors, NEW a \in Addresses,
             CheckLink(h, u, a) \/ CheckUnlink(h, u, a) \/ CheckPrimary(h, u, a)
      PROVE  TrancheInv'
  <2>1. PICK kind, arg, read : kind \in WalletKinds /\ Serve(h, kind, u, arg, read)
    BY <1>2 DEF CheckLink, CheckUnlink, CheckPrimary, WalletKinds
  <2>2. \A g \in Handlers : handler'[g].kind = "claim" => handler'[g] = handler[g]
    BY <1>0, <2>1 DEF Serve, PortfolioTypes, WalletKinds
  <2>3. UNCHANGED <<claimed, told, day>> /\ claimRace \subseteq claimRace'
    BY <2>1 DEF Serve
  <2> QED
    BY <1>0, <2>2, <2>3, TrancheKept
<1>3. ASSUME NEW h \in Handlers, CountLink(h) PROVE TrancheInv'
  <2>1. \A g \in Handlers : handler'[g].kind = "claim" => handler'[g] = handler[g]
    BY <1>0, <1>3, CountLinkFacts
  <2>2. UNCHANGED <<claimed, told, day, claimRace>>
    BY <1>3 DEF CountLink, races
  <2> QED
    BY <1>0, <2>1, <2>2, TrancheKept
<1>4. ASSUME NEW h \in Handlers,
             ScreenLink(h) \/ Blocked(h) \/ Unlink(h) \/ SetPrimary(h)
      PROVE  TrancheInv'
  <2>1. Answer(h) /\ UNCHANGED <<claimed, told, day, claimRace>>
    BY <1>4 DEF ScreenLink, Blocked, Unlink, SetPrimary, races
  <2>2. \A g \in Handlers : handler'[g].kind = "claim" => handler'[g] = handler[g]
    BY <1>0, <2>1, JobTypeAnswer DEF PortfolioTypes
  <2> QED
    BY <1>0, <2>1, <2>2, TrancheKept
<1>5. ASSUME NEW h \in Handlers, NEW u \in Investors, CheckClaim(h, u)
      PROVE  TrancheInv'
  <2> DEFINE n == claimable_amount(u)
             job == [kind |-> "claim", user |-> u, arg |-> n, read |-> claimed[u]]
  <2>1. n \in Nat /\ claimed[u] \in Nat /\ claimed[u] + n = VestedAt(day)
    BY <1>0, <1>5, ClaimableTypes DEF CheckClaim
  <2>2. Serve(h, "claim", u, n, claimed[u])
    BY <1>5 DEF CheckClaim
  <2>3. job \in Job
    BY <2>1, JobTypes
  <2>4. /\ handler'[h] = job /\ handler[h].kind = "none"
        /\ \A g \in Handlers \ {h} : handler'[g] = handler[g]
    BY <1>0, <2>2, <2>3, JobTypeServe DEF PortfolioTypes
  <2>5. /\ UNCHANGED <<claimed, told, day>> /\ claimRace \subseteq claimRace'
        /\ Serving(u, {"claim"}) # {} => u \in claimRace'
    BY <2>2 DEF Serve
  <2>6. /\ job.kind = "claim" /\ job.user = u /\ job.arg = n
        /\ job.read = claimed[u]
    OBVIOUS
  <2> HIDE DEF job, n
  <2>7. \A g \in Handlers : ClaimFits(handler'[g], VestedAt(day))
    <3>1. ClaimFits(job, VestedAt(day))
      BY <2>1, <2>6, VestedGrows, <1>0 DEF ClaimFits, PortfolioTypes
    <3> QED
      BY <2>4, <3>1 DEF TrancheInv
  <2>8. ASSUME NEW v \in Investors \ claimRace'
        PROVE  ClaimsInOrder(v)'
    <3>1. ClaimsInOrder(v)
      BY <2>5 DEF TrancheInv
    <3>2. CASE v # u
      <4>1. \A g \in Serving(v, {"claim"})' :
               g \in Serving(v, {"claim"}) /\ handler'[g] = handler[g]
        BY <2>4, <2>6, <3>2 DEF Serving
      <4> QED
        BY <2>5, <3>1, <4>1 DEF ClaimsInOrder
    <3>3. CASE v = u
      <4>1. \A g \in Serving(u, {"claim"})' : g = h
        BY <2>4, <2>5, <3>3 DEF Serving
      <4> QED
        BY <2>4, <2>5, <2>6, <3>1, <3>3, <4>1 DEF ClaimsInOrder
    <3> QED
      BY <3>2, <3>3
  <2> QED
    BY <1>0, <2>5, <2>7, <2>8 DEF TrancheInv
<1>6. ASSUME NEW h \in Handlers, Claim(h) PROVE TrancheInv'
  <2> DEFINE u == handler[h].user
             n == handler[h].arg
             r == handler[h].read
  <2>1. handler[h] \in ClaimJob
    BY <1>0, <1>6, JobFacts DEF Claim, PortfolioTypes
  <2>2. u \in Investors /\ n \in Nat /\ r \in Nat
    BY <2>1 DEF ClaimJob
  <2>3. /\ handler'[h].kind = "none"
        /\ \A g \in Handlers \ {h} : handler'[g] = handler[g]
    BY <1>0, <1>6, JobTypeAnswer DEF Claim, PortfolioTypes
  <2>4. /\ claimed' = [claimed EXCEPT ![u] = r + n]
        /\ told' = [told EXCEPT ![u] = told[u] + n]
        /\ UNCHANGED <<day, claimRace>> /\ handler[h].kind = "claim"
    BY <1>6 DEF Claim, races
  <2>5. r + n <= VestedAt(day)
    BY <2>4 DEF TrancheInv, ClaimFits
  <2>6. h \in Serving(u, {"claim"})
    BY <2>4 DEF Serving
  <2>7. \A v \in Investors : claimed'[v] <= VestedAt(day)
    BY <1>0, <2>2, <2>4, <2>5 DEF TrancheInv, PortfolioTypes
  <2>8. \A g \in Handlers : ClaimFits(handler'[g], VestedAt(day))
    BY <2>3 DEF TrancheInv, ClaimFits
  <2>9. ASSUME NEW v \in Investors \ claimRace
        PROVE  ClaimsInOrder(v)'
    <3>1. ClaimsInOrder(v)
      BY DEF TrancheInv
    <3>2. \A g \in Serving(v, {"claim"})' :
             g \in Serving(v, {"claim"}) /\ handler'[g] = handler[g] /\ g # h
      BY <2>3 DEF Serving
    <3>3. CASE v # u
      BY <1>0, <2>4, <3>1, <3>2, <3>3 DEF ClaimsInOrder, PortfolioTypes
    <3>4. CASE v = u
      <4>1. r = claimed[u] /\ told[u] = claimed[u]
        BY <2>6, <3>1, <3>4 DEF ClaimsInOrder
      <4>2. claimed'[u] = r + n /\ told'[u] = told[u] + n
        BY <1>0, <2>2, <2>4 DEF PortfolioTypes
      <4>3. Serving(v, {"claim"})' = {}
        BY <2>6, <3>1, <3>2, <3>4 DEF ClaimsInOrder
      <4> HIDE DEF u, r, n
      <4> QED
        BY <3>4, <4>1, <4>2, <4>3 DEF ClaimsInOrder
    <3> QED
      BY <3>3, <3>4
  <2> QED
    BY <1>0, <2>4, <2>7, <2>8, <2>9 DEF TrancheInv
<1>7. CASE Day
  <2>1. day' = day + 1 /\ UNCHANGED <<handler, claimed, told, claimRace>>
    BY <1>7 DEF Day, races
  <2>2. /\ VestedAt(day) \in Nat /\ VestedAt(day + 1) \in Nat
        /\ VestedAt(day) <= VestedAt(day + 1)
    BY <1>0, VestedGrows DEF PortfolioTypes
  <2>3. \A u \in Investors : claimed[u] <= VestedAt(day + 1)
    BY <1>0, <2>2 DEF TrancheInv, PortfolioTypes
  <2>4. \A g \in Handlers : ClaimFits(handler[g], VestedAt(day + 1))
    <3> SUFFICES ASSUME NEW g \in Handlers, handler[g].kind = "claim"
                 PROVE  handler[g].read + handler[g].arg <= VestedAt(day + 1)
      BY DEF ClaimFits
    <3>1. handler[g] \in ClaimJob
      BY <1>0, JobFacts DEF PortfolioTypes
    <3>2. handler[g].read \in Nat /\ handler[g].arg \in Nat
      BY <3>1 DEF ClaimJob
    <3>3. handler[g].read + handler[g].arg <= VestedAt(day)
      BY DEF TrancheInv, ClaimFits
    <3> QED
      BY <2>2, <3>2, <3>3
  <2>5. \A u \in Investors \ claimRace' : ClaimsInOrder(u)'
    BY <2>1 DEF TrancheInv, ClaimsInOrder, Serving
  <2> QED
    BY <1>0, <2>1, <2>3, <2>4, <2>5 DEF TrancheInv
<1> QED
  BY <1>1, <1>2, <1>3, <1>4, <1>5, <1>6, <1>7
     DEF PortfolioNext, WalletNext, ClaimNext

LEMMA PortfolioTypesInit == PortfolioInit => PortfolioTypes
<1> SUFFICES ASSUME PortfolioInit PROVE PortfolioTypes
  OBVIOUS
<1>1. Waiting \in Job
  BY DEF Job
<1> QED
  BY <1>1 DEF PortfolioInit, PortfolioTypes

(* For any schedule and any number of requests at a time: no more is ever  *)
(* recorded as claimed than has vested, even when claims overwrite each    *)
(* other, and unless they do it is what the investor was told              *)
(* (claim_tranche writes the sum of what it read and what it pays).        *)
THEOREM PortfolioTranchesAccounted == PortfolioSpec => []TranchesAccounted
<1>1. PortfolioInit => TrancheInv
  <2> SUFFICES ASSUME PortfolioInit PROVE TrancheInv
    OBVIOUS
  <2>1. \A h \in Handlers : handler[h].kind = "none"
    BY DEF PortfolioInit, Waiting
  <2>2. \A u \in Investors : Serving(u, {"claim"}) = {}
    BY <2>1 DEF Serving
  <2>3. VestedAt(day) \in Nat
    BY PortfolioTypesInit, VestedGrows DEF PortfolioTypes
  <2> QED
    BY <2>1, <2>2, <2>3, PortfolioTypesInit
       DEF PortfolioInit, TrancheInv, ClaimFits, ClaimsInOrder
<1>2. TrancheInv => TranchesAccounted
  BY DEF TrancheInv, TranchesAccounted, ClaimsInOrder, vested_amount, VestedAt
<1> QED
  BY <1>1, <1>2, TrancheInvNext, PTL DEF PortfolioSpec

-----------------------------------------------------------------------------
(* Wallets.                                                                *)

OwnRow(h, i) == /\ i \in 1..links
                /\ i \in DOMAIN wallets => wallets[i].user = handler[h].user

(* A row a request will write belongs to the request's user, if it is      *)
(* still there.                                                            *)
RowsOwned ==
    \A h \in Handlers :
      /\ handler[h].kind \in {"unlink", "primary"} => OwnRow(h, handler[h].arg)
      /\ handler[h].kind = "primary" => \A i \in handler[h].read : OwnRow(h, i)

Reads(h, u) ==
    /\ handler[h].kind = "link" => /\ handler[h].read = "first" => Of(u) = {}
                                   /\ handler[h].read = "other" => Of(u) # {}
    /\ handler[h].kind = "unlink" =>
          handler[h].arg \in Of(u) /\ ~wallets[handler[h].arg].is_primary
    /\ handler[h].kind = "primary" =>
          handler[h].arg \in Of(u) /\ handler[h].read = Primary(u)

(* An investor with one wallet request at a time: what it read still holds.*)
UserInOrder(u) ==
    /\ \A h, g \in Serving(u, WalletKinds) : h = g
    /\ Of(u) # {} => \E i \in Of(u) : Primary(u) = {i}
    /\ \A h \in Serving(u, WalletKinds) : Reads(h, u)

(* An address linked by one request at a time.                             *)
AddressInOrder(a) ==
    /\ \A i, j \in At(a) : i = j
    /\ \A h, g \in Linking(a) : h = g
    /\ Linking(a) # {} => At(a) = {}

WalletInv ==
    /\ PortfolioTypes
    /\ RowsOwned
    /\ \A u \in Investors \ walletRace : UserInOrder(u)
    /\ \A a \in Addresses \ linkRace : AddressInOrder(a)

(* Rows and requests of a user that are as they were.                      *)
LEMMA UserKept ==
    ASSUME NEW u, UserInOrder(u), Of(u)' = Of(u),
           \A i \in Of(u) : wallets'[i] = wallets[i],
           \A h \in Serving(u, WalletKinds)' :
              h \in Serving(u, WalletKinds) /\ handler'[h] = handler[h]
    PROVE  UserInOrder(u)'
<1>1. Primary(u)' = Primary(u)
  BY DEF Primary
<1>2. \A h \in Serving(u, WalletKinds)' : Reads(h, u)'
  BY <1>1 DEF Reads, UserInOrder
<1> QED
  BY <1>1, <1>2 DEF UserInOrder

LEMMA AddressKept ==
    ASSUME NEW a, AddressInOrder(a), At(a)' \subseteq At(a),
           Linking(a)' \subseteq Linking(a)
    PROVE  AddressInOrder(a)'
BY DEF AddressInOrder

(* A request that starts, with what it read.                               *)
LEMMA WalletInvServe ==
    ASSUME WalletInv, PortfolioTypes', NEW h \in Handlers, NEW kind, NEW u, NEW arg,
           NEW read,
           [kind |-> kind, user |-> u, arg |-> arg, read |-> read] \in Job,
           Serve(h, kind, u, arg, read),
           kind = "link" => read = "checked" /\ At(arg) = {},
           kind = "unlink" => arg \in Of(u) /\ ~wallets[arg].is_primary,
           kind = "primary" => arg \in Of(u) /\ read = Primary(u)
    PROVE  WalletInv'
<1> DEFINE job == [kind |-> kind, user |-> u, arg |-> arg, read |-> read]
<1>1. /\ handler'[h] = job /\ handler[h].kind = "none"
      /\ \A g \in Handlers \ {h} : handler'[g] = handler[g]
  BY JobTypeServe DEF WalletInv, PortfolioTypes
<1>2. job.kind = kind /\ job.user = u /\ job.arg = arg /\ job.read = read
  OBVIOUS
<1> HIDE DEF job
<1>3. /\ UNCHANGED <<wallets, links>>
      /\ walletRace \subseteq walletRace' /\ linkRace \subseteq linkRace'
      /\ kind \in WalletKinds /\ Serving(u, WalletKinds) # {} => u \in walletRace'
      /\ kind = "link" /\ Linking(arg) # {} => arg \in linkRace'
  BY DEF Serve
<1>4. Of(u) \subseteq 1..links /\ Primary(u) \subseteq Of(u)
  BY DEF WalletInv, PortfolioTypes, Of, Primary
<1>5. RowsOwned'
  <2> SUFFICES ASSUME NEW g \in Handlers
               PROVE  /\ handler'[g].kind \in {"unlink", "primary"}
                            => OwnRow(g, handler[g].arg)'
                      /\ handler'[g].kind = "primary"
                            => \A i \in handler'[g].read : OwnRow(g, i)'
    BY DEF RowsOwned
  <2>1. CASE g = h
    <3>1. \A i \in Of(u) : OwnRow(h, i)'
      BY <1>1, <1>2, <1>3, <1>4 DEF OwnRow, Of
    <3> QED
      BY <1>1, <1>2, <1>4, <2>1, <3>1
  <2>2. CASE g # h
    BY <1>1, <1>3, <2>2 DEF WalletInv, RowsOwned, OwnRow
  <2> QED
    BY <2>1, <2>2
<1>6. ASSUME NEW v \in Investors \ walletRace'
      PROVE  UserInOrder(v)'
  <2>1. UserInOrder(v)
    BY <1>3 DEF WalletInv
  <2>2. Of(v)' = Of(v) /\ Primary(v)' = Primary(v)
    BY <1>3 DEF Of, Primary
  <2>3. CASE v = u /\ kind \in WalletKinds
    <3>1. \A g \in Serving(v, WalletKinds)' : g = h
      BY <1>1, <1>3, <2>3 DEF Serving
    <3>2. Reads(h, u)'
      BY <1>1, <1>2, <1>3, <2>2, <2>3 DEF Reads
    <3> QED
      BY <2>1, <2>2, <2>3, <3>1, <3>2 DEF UserInOrder
  <2>4. CASE ~(v = u /\ kind \in WalletKinds)
    <3>1. \A g \in Serving(v, WalletKinds)' :
             g \in Serving(v, WalletKinds) /\ handler'[g] = handler[g]
      BY <1>1, <1>2, <2>4 DEF Serving
    <3> QED
      BY <1>3, <2>1, <2>2, <3>1, UserKept
  <2> QED
    BY <2>3, <2>4
<1>7. ASSUME NEW a \in Addresses \ linkRace'
      PROVE  AddressInOrder(a)'
  <2>1. AddressInOrder(a)
    BY <1>3 DEF WalletInv
  <2>2. At(a)' = At(a)
    BY <1>3 DEF At
  <2>3. CASE kind = "link" /\ a = arg
    <3>1. Linking(a)' \subseteq {h}
      BY <1>1, <1>3, <2>3 DEF Linking
    <3> QED
      BY <2>1, <2>2, <2>3, <3>1 DEF AddressInOrder
  <2>4. CASE ~(kind = "link" /\ a = arg)
    <3>1. Linking(a)' \subseteq Linking(a)
      BY <1>1, <1>2, <2>4 DEF Linking
    <3> QED
      BY <2>1, <2>2, <3>1, AddressKept
  <2> QED
    BY <2>3, <2>4
<1> QED
  BY <1>5, <1>6, <1>7 DEF WalletInv

(* The rows of one user change, with the end of a request of that user.    *)
LEMMA WalletInvAnswer ==
    ASSUME WalletInv, PortfolioTypes', NEW h \in Handlers, Answer(h),
           UNCHANGED <<walletRace, linkRace>>,
           handler[h].kind \in WalletKinds, NEW u, u = handler[h].user,
           \A v \in Investors \ {u} :
              /\ Of(v)' = Of(v)
              /\ \A i \in Of(v) : wallets'[i] = wallets[i],
           u \notin walletRace => (Of(u) # {} => \E i \in Of(u) : Primary(u) = {i})',
           \A g \in Handlers \ {h}, i \in 1..links : OwnRow(g, i) => OwnRow(g, i)',
           \A a \in Addresses \ linkRace :
              \/ At(a)' \subseteq At(a)
              \/ At(a) = {} /\ h \in Linking(a) /\ \A i, j \in At(a)' : i = j
    PROVE  WalletInv'
<1>1. /\ handler'[h].kind = "none"
      /\ \A g \in Handlers \ {h} : handler'[g] = handler[g]
  BY JobTypeAnswer DEF WalletInv, PortfolioTypes
<1>2. \A v : \A g \in Serving(v, WalletKinds)' :
         g \in Serving(v, WalletKinds) /\ handler'[g] = handler[g] /\ g # h
  BY <1>1 DEF Serving, WalletKinds
<1>3. RowsOwned'
  <2> SUFFICES ASSUME NEW g \in Handlers
               PROVE  /\ handler'[g].kind \in {"unlink", "primary"}
                            => OwnRow(g, handler[g].arg)'
                      /\ handler'[g].kind = "primary"
                            => \A i \in handler'[g].read : OwnRow(g, i)'
    BY DEF RowsOwned
  <2>1. CASE g = h
    BY <1>1, <2>1
  <2>2. CASE g # h
    <3>1. \A i : OwnRow(g, i) => OwnRow(g, i)'
      BY <2>2 DEF OwnRow
    <3> QED
      BY <1>1, <2>2, <3>1 DEF WalletInv, RowsOwned
  <2> QED
    BY <2>1, <2>2
<1>4. ASSUME NEW v \in Investors \ walletRace'
      PROVE  UserInOrder(v)'
  <2>1. UserInOrder(v)
    BY DEF WalletInv
  <2>2. CASE v = u
    <3>1. h \in Serving(v, WalletKinds)
      BY <2>2 DEF Serving
    <3>2. Serving(v, WalletKinds)' = {}
      BY <1>2, <2>1, <3>1 DEF UserInOrder
    <3>3. (Of(v) # {} => \E i \in Of(v) : Primary(v) = {i})'
      BY <2>2
    <3> QED
      BY <3>2, <3>3 DEF UserInOrder
  <2>3. CASE v # u
    BY <1>2, <2>1, <2>3, UserKept
  <2> QED
    BY <2>2, <2>3
<1>5. ASSUME NEW a \in Addresses \ linkRace'
      PROVE  AddressInOrder(a)'
  <2>1. AddressInOrder(a)
    BY DEF WalletInv
  <2>2. Linking(a)' \subseteq Linking(a) \ {h}
    BY <1>1 DEF Linking
  <2>3. CASE At(a)' \subseteq At(a)
    BY <2>1, <2>2, <2>3, AddressKept
  <2>4. CASE h \in Linking(a) /\ \A i, j \in At(a)' : i = j
    BY <2>1, <2>2, <2>4 DEF AddressInOrder
  <2> QED
    BY <2>3, <2>4
<1> QED
  BY <1>3, <1>4, <1>5 DEF WalletInv

(* The end of a link request: a new row, its user's first if it was told   *)
(* so.                                                                     *)
LEMMA WalletInvScreenLink ==
    ASSUME WalletInv, PortfolioTypes', NEW h \in Handlers, ScreenLink(h)
    PROVE  WalletInv'
<1> DEFINE u == handler[h].user
           a == handler[h].arg
           n == links + 1
           row == [user |-> u, address |-> a, is_primary |-> handler[h].read = "first"]
<1>1. handler[h] \in LinkJob /\ handler[h].read \in {"first", "other"}
  <2>1. handler[h] \in LinkJob
    BY JobFacts DEF ScreenLink, WalletInv, PortfolioTypes
  <2> QED
    BY <2>1 DEF ScreenLink, LinkJob
<1>2. u \in Investors /\ a \in Addresses /\ handler[h].kind = "link"
  BY <1>1 DEF LinkJob
<1>3. /\ links \in Nat /\ n \notin DOMAIN wallets /\ DOMAIN wallets \subseteq 1..links
      /\ n \notin 1..links
  BY DEF WalletInv, PortfolioTypes
<1>4. /\ links' = n /\ Answer(h)
      /\ wallets' = [i \in DOMAIN wallets \cup {n} |-> IF i = n THEN row ELSE wallets[i]]
      /\ UNCHANGED <<walletRace, linkRace>>
  BY DEF ScreenLink, races
<1>5. /\ row.user = u /\ row.address = a
      /\ row.is_primary <=> handler[h].read = "first"
  OBVIOUS
<1> HIDE DEF row, n
<1>6. /\ DOMAIN wallets' = DOMAIN wallets \cup {n} /\ wallets'[n] = row
      /\ \A i \in DOMAIN wallets : wallets'[i] = wallets[i]
  BY <1>3, <1>4
<1>7. /\ \A v : v # u => Of(v)' = Of(v)
      /\ \A v : Of(v) \subseteq DOMAIN wallets
      /\ \A b : b # a => At(b)' = At(b)
  BY <1>5, <1>6 DEF Of, At
<1>8. ASSUME NEW v, v = u, v \notin walletRace
      PROVE  (Of(v) # {} => \E i \in Of(v) : Primary(v) = {i})'
  <2>1. UserInOrder(v) /\ h \in Serving(v, WalletKinds)
    BY <1>2, <1>8 DEF WalletInv, Serving, WalletKinds
  <2>2. Of(v)' = Of(v) \cup {n}
    BY <1>5, <1>6, <1>8 DEF Of
  <2>3. CASE handler[h].read = "first"
    <3>1. Of(v) = {}
      BY <1>2, <2>1, <2>3 DEF UserInOrder, Reads
    <3>2. Primary(v)' = {n}
      BY <1>5, <1>6, <2>2, <2>3, <3>1 DEF Primary
    <3> QED
      BY <2>2, <3>2
  <2>4. CASE handler[h].read # "first"
    <3>1. Of(v) # {}
      BY <1>1, <1>2, <2>1, <2>4 DEF UserInOrder, Reads
    <3>2. PICK i \in Of(v) : Primary(v) = {i}
      BY <2>1, <3>1 DEF UserInOrder
    <3>3. Primary(v)' = Primary(v)
      BY <1>5, <1>6, <1>7, <2>2, <2>4 DEF Primary
    <3> QED
      BY <2>2, <3>2, <3>3
  <2> QED
    BY <2>3, <2>4
<1>9. \A g \in Handlers \ {h}, i \in 1..links : OwnRow(g, i) => OwnRow(g, i)'
  <2> SUFFICES ASSUME NEW g \in Handlers \ {h}, NEW i \in 1..links, OwnRow(g, i)
               PROVE  OwnRow(g, i)'
    OBVIOUS
  <2>1. i \in 1..links' /\ i # n
    BY <1>3, <1>4 DEF n
  <2>2. handler'[g] = handler[g]
    BY <1>4, JobTypeAnswer DEF WalletInv, PortfolioTypes
  <2> QED
    BY <1>6, <2>1, <2>2 DEF OwnRow
<1>10. ASSUME NEW b \in Addresses \ linkRace
       PROVE  \/ At(b)' \subseteq At(b)
              \/ At(b) = {} /\ h \in Linking(b) /\ \A i, j \in At(b)' : i = j
  <2>1. CASE b # a
    BY <1>7, <2>1
  <2>2. CASE b = a
    <3>1. h \in Linking(b)
      BY <1>2, <2>2 DEF Linking
    <3>2. At(b) = {}
      BY <3>1 DEF WalletInv, AddressInOrder
    <3>3. At(b)' = {n}
      BY <1>5, <1>6, <2>2, <3>2 DEF At
    <3> QED
      BY <3>1, <3>2, <3>3
  <2> QED
    BY <2>1, <2>2
<1>11. \A v \in Investors \ {u} : /\ Of(v)' = Of(v)
                                   /\ \A i \in Of(v) : wallets'[i] = wallets[i]
  BY <1>6, <1>7
<1>12. handler[h].kind \in WalletKinds
  BY <1>2 DEF WalletKinds
<1>13. PICK v : v = u
  OBVIOUS
<1> HIDE DEF u
<1> QED
  BY <1>4, <1>8, <1>9, <1>10, <1>11, <1>12, <1>13, WalletInvAnswer DEF u

(* A row removed: one of the request's user, and not the primary one.      *)
LEMMA WalletInvUnlink ==
    ASSUME WalletInv, PortfolioTypes', NEW h \in Handlers, Unlink(h)
    PROVE  WalletInv'
<1> DEFINE u == handler[h].user
           t == handler[h].arg
<1>1. /\ Answer(h) /\ UNCHANGED <<links, walletRace, linkRace>>
      /\ handler[h].kind = "unlink" /\ handler[h].kind \in WalletKinds
      /\ wallets' = [i \in DOMAIN wallets \ {t} |-> wallets[i]]
  BY DEF Unlink, races, WalletKinds
<1>2. t \in DOMAIN wallets => wallets[t].user = u
  BY <1>1 DEF WalletInv, RowsOwned, OwnRow
<1> HIDE DEF u, t
<1>3. /\ DOMAIN wallets' = DOMAIN wallets \ {t}
      /\ \A i \in DOMAIN wallets' : wallets'[i] = wallets[i]
  BY <1>1
<1>4. \A v \in Investors \ {u} : /\ Of(v)' = Of(v)
                                  /\ \A i \in Of(v) : wallets'[i] = wallets[i]
  BY <1>2, <1>3 DEF Of
<1>5. ASSUME NEW v, v = u, v \in Investors, v \notin walletRace
      PROVE  (Of(v) # {} => \E i \in Of(v) : Primary(v) = {i})'
  <2>1. UserInOrder(v) /\ h \in Serving(v, WalletKinds)
    BY <1>1, <1>5 DEF WalletInv, Serving, u
  <2>2. t \in Of(v) /\ ~wallets[t].is_primary
    BY <1>1, <2>1 DEF UserInOrder, Reads, t
  <2>3. PICK i \in Of(v) : Primary(v) = {i}
    BY <2>1, <2>2 DEF UserInOrder
  <2>4. Of(v)' = Of(v) \ {t}
    BY <1>3 DEF Of
  <2>5. Primary(v)' = Primary(v)
    BY <1>3, <2>2, <2>4 DEF Primary, Of
  <2>6. i \in Of(v)'
    BY <2>2, <2>3, <2>4 DEF Primary
  <2> QED
    BY <2>3, <2>5, <2>6
<1>6. \A g \in Handlers \ {h}, i \in 1..links : OwnRow(g, i) => OwnRow(g, i)'
  <2>1. \A g \in Handlers \ {h} : handler'[g] = handler[g]
    BY <1>1, JobTypeAnswer DEF WalletInv, PortfolioTypes
  <2> QED
    BY <1>1, <1>3, <2>1 DEF OwnRow
<1>7. \A a : At(a)' \subseteq At(a)
  BY <1>3 DEF At
<1>8. u \in Investors
  <2>1. handler[h] \in UnlinkJob
    BY <1>1, JobFacts DEF WalletInv, PortfolioTypes
  <2> QED
    BY <2>1 DEF UnlinkJob, u
<1> QED
  BY <1>1, <1>4, <1>5, <1>6, <1>7, <1>8, WalletInvAnswer DEF u

(* The flags of rows of the request's user.                                *)
LEMMA WalletInvSetPrimary ==
    ASSUME WalletInv, PortfolioTypes', NEW h \in Handlers, SetPrimary(h)
    PROVE  WalletInv'
<1> DEFINE u == handler[h].user
           t == handler[h].arg
           R == handler[h].read
<1>1. /\ Answer(h) /\ UNCHANGED <<links, walletRace, linkRace>>
      /\ handler[h].kind = "primary" /\ handler[h].kind \in WalletKinds
  BY DEF SetPrimary, races, WalletKinds
<1>2. handler[h] \in PrimaryJob
  BY <1>1, JobFacts DEF WalletInv, PortfolioTypes
<1>3. u \in Investors
  BY <1>2 DEF PrimaryJob
<1>4. \A i \in (R \cup {t}) \cap DOMAIN wallets : wallets[i].user = u
  BY <1>1 DEF WalletInv, RowsOwned, OwnRow
<1>5. \/ wallets' = wallets /\ ~((R \ {t}) \cup ({t} \ R) \subseteq DOMAIN wallets)
      \/ wallets' = [i \in DOMAIN wallets |->
                       [wallets[i] EXCEPT !.is_primary =
                          (@ \/ i \in {t} \ R) /\ i \notin R \ {t}]]
  BY DEF SetPrimary
<1> HIDE DEF u, t, R
<1>6. /\ DOMAIN wallets' = DOMAIN wallets
      /\ \A i \in DOMAIN wallets : /\ wallets'[i].user = wallets[i].user
                                   /\ wallets'[i].address = wallets[i].address
                                   /\ i \notin R \cup {t} => wallets'[i] = wallets[i]
  BY <1>5 DEF WalletInv, PortfolioTypes, Wallet
<1>7. /\ \A v : Of(v)' = Of(v)
      /\ \A a : At(a)' = At(a)
  BY <1>6 DEF Of, At
<1>8. \A v \in Investors \ {u} : /\ Of(v)' = Of(v)
                                  /\ \A i \in Of(v) : wallets'[i] = wallets[i]
  BY <1>4, <1>6, <1>7 DEF Of
<1>9. ASSUME NEW v, v = u, v \notin walletRace
      PROVE  (Of(v) # {} => \E i \in Of(v) : Primary(v) = {i})'
  <2>1. UserInOrder(v) /\ h \in Serving(v, WalletKinds)
    BY <1>1, <1>3, <1>9 DEF WalletInv, Serving, u
  <2>2. t \in Of(v) /\ R = Primary(v)
    BY <1>1, <2>1 DEF UserInOrder, Reads, t, R
  <2>3. PICK p \in Of(v) : Primary(v) = {p}
    BY <2>1, <2>2 DEF UserInOrder
  <2>4. Of(v) \subseteq DOMAIN wallets
    BY DEF Of
  <2>5. (R \ {t}) \cup ({t} \ R) \subseteq DOMAIN wallets
    BY <2>2, <2>3, <2>4
  <2>6. ASSUME NEW i \in Of(v)
        PROVE  wallets'[i].is_primary <=> i = t
    <3>1. wallets'[i].is_primary
            <=> (wallets[i].is_primary \/ i \in {t} \ R) /\ i \notin R \ {t}
      BY <1>5, <2>4, <2>5 DEF WalletInv, PortfolioTypes, Wallet
    <3>2. wallets[i].is_primary <=> i = p
      BY <2>3 DEF Primary
    <3> QED
      BY <2>2, <2>3, <3>1, <3>2
  <2>7. Primary(v)' = {t}
    BY <1>7, <2>2, <2>6 DEF Primary
  <2> QED
    BY <1>7, <2>2, <2>7
<1>10. \A g \in Handlers \ {h}, i \in 1..links : OwnRow(g, i) => OwnRow(g, i)'
  <2>1. \A g \in Handlers \ {h} : handler'[g] = handler[g]
    BY <1>1, JobTypeAnswer DEF WalletInv, PortfolioTypes
  <2> QED
    BY <1>1, <1>6, <2>1 DEF OwnRow
<1> QED
  BY <1>1, <1>3, <1>7, <1>8, <1>9, <1>10, WalletInvAnswer DEF u

LEMMA WalletInvNext == WalletInv /\ [PortfolioNext]_portfolioVars => WalletInv'
<1> SUFFICES ASSUME WalletInv, [PortfolioNext]_portfolioVars PROVE WalletInv'
  OBVIOUS
<1>0. PortfolioTypes /\ PortfolioTypes' /\ handler \in [Handlers -> Job]
  BY PortfolioTypesNext DEF WalletInv, PortfolioTypes
<1>1. CASE UNCHANGED <<wallets, links, handler, walletRace, linkRace>>
  <2>1. RowsOwned'
    BY <1>1 DEF WalletInv, RowsOwned, OwnRow
  <2>2. \A u : Of(u)' = Of(u) /\ Primary(u)' = Primary(u)
    BY <1>1 DEF Of, Primary
  <2>3. \A u : UserInOrder(u) => UserInOrder(u)'
    BY <1>1, <2>2 DEF UserInOrder, Serving, Reads
  <2>4. \A a : AddressInOrder(a) => AddressInOrder(a)'
    BY <1>1 DEF AddressInOrder, Linking, At
  <2> QED
    BY <1>0, <1>1, <2>1, <2>3, <2>4 DEF WalletInv
<1>2. ASSUME NEW h \in Handlers, NEW u \in Investors, NEW a \in Addresses,
             CheckLink(h, u, a)
      PROVE  WalletInv'
  <2>1. Serve(h, "link", u, a, "checked") /\ At(a) = {}
    BY <1>2 DEF CheckLink
  <2>2. [kind |-> "link", user |-> u, arg |-> a, read |-> "checked"] \in Job
    BY JobTypes
  <2> QED
    BY <1>0, <2>1, <2>2, WalletInvServe
<1>3. ASSUME NEW h \in Handlers, NEW u \in Investors, NEW a \in Addresses,
             CheckUnlink(h, u, a)
      PROVE  WalletInv'
  <2>1. PICK i \in Of(u) : /\ i \in Nat /\ ~wallets[i].is_primary
                           /\ Serve(h, "unlink", u, i, "checked")
    BY <1>0, <1>3, CheckedFacts
  <2>2. [kind |-> "unlink", user |-> u, arg |-> i, read |-> "checked"] \in Job
    BY <2>1, JobTypes
  <2> QED
    BY <1>0, <2>1, <2>2, WalletInvServe
<1>4. ASSUME NEW h \in Handlers, NEW u \in Investors, NEW a \in Addresses,
             CheckPrimary(h, u, a)
      PROVE  WalletInv'
  <2>1. PICK i \in Of(u) : /\ i \in Nat /\ Primary(u) \in SUBSET Nat
                           /\ Serve(h, "primary", u, i, Primary(u))
    BY <1>0, <1>4, CheckedFacts
  <2>2. [kind |-> "primary", user |-> u, arg |-> i, read |-> Primary(u)] \in Job
    BY <2>1, JobTypes
  <2> QED
    BY <1>0, <2>1, <2>2, WalletInvServe
<1>5. ASSUME NEW h \in Handlers, NEW u \in Investors, CheckClaim(h, u)
      PROVE  WalletInv'
  <2>1. /\ Serve(h, "claim", u, claimable_amount(u), claimed[u])
        /\ claimable_amount(u) \in Nat /\ claimed[u] \in Nat
    BY <1>0, <1>5, ClaimableTypes DEF CheckClaim
  <2>2. [kind |-> "claim", user |-> u, arg |-> claimable_amount(u),
         read |-> claimed[u]] \in Job
    BY <2>1, JobTypes
  <2> QED
    BY <1>0, <2>1, <2>2, WalletInvServe
<1>6. ASSUME NEW h \in Handlers, CountLink(h) PROVE WalletInv'
  <2>1. /\ handler[h].kind = "link" /\ handler'[h].kind = "link"
        /\ handler'[h].user = handler[h].user /\ handler'[h].arg = handler[h].arg
        /\ handler'[h].read = IF Of(handler[h].user) = {} THEN "first" ELSE "other"
        /\ \A g \in Handlers \ {h} : handler'[g] = handler[g]
    BY <1>0, <1>6, CountLinkFacts
  <2>2. UNCHANGED <<wallets, links, walletRace, linkRace>>
    BY <1>6 DEF CountLink, races
  <2>3. RowsOwned'
    <3>1. \A g \in Handlers : handler'[g].kind # "link" => handler'[g] = handler[g]
      BY <2>1
    <3> QED
      BY <2>2, <3>1 DEF WalletInv, RowsOwned, OwnRow
  <2>4. /\ \A u : Of(u)' = Of(u) /\ Primary(u)' = Primary(u)
        /\ \A a : At(a)' = At(a)
    BY <2>2 DEF Of, Primary, At
  <2>5. /\ \A u : Serving(u, WalletKinds)' = Serving(u, WalletKinds)
        /\ \A a : Linking(a)' = Linking(a)
    <3>1. \A g \in Handlers : /\ handler'[g].kind = handler[g].kind
                              /\ handler'[g].user = handler[g].user
                              /\ handler'[g].arg = handler[g].arg
      BY <2>1
    <3> QED
      BY <3>1 DEF Serving, Linking
  <2>6. ASSUME NEW u \in Investors \ walletRace' PROVE UserInOrder(u)'
    <3>1. UserInOrder(u)
      BY <2>2 DEF WalletInv
    <3>2. ASSUME NEW g \in Serving(u, WalletKinds) PROVE Reads(g, u)'
      <4>1. CASE g = h
        <5>1. handler[h].user = u
          BY <4>1 DEF Serving
        <5> QED
          BY <2>1, <2>4, <4>1, <5>1 DEF Reads
      <4>2. CASE g # h
        <5>1. handler'[g] = handler[g]
          BY <2>1, <4>2 DEF Serving
        <5> QED
          BY <2>2, <2>4, <3>1, <5>1 DEF Reads, UserInOrder
      <4> QED
        BY <4>1, <4>2
    <3> QED
      BY <2>4, <2>5, <3>1, <3>2 DEF UserInOrder
  <2>7. \A a : AddressInOrder(a) => AddressInOrder(a)'
    BY <2>4, <2>5 DEF AddressInOrder
  <2> QED
    BY <1>0, <2>2, <2>3, <2>6, <2>7 DEF WalletInv
<1>7. ASSUME NEW h \in Handlers, Blocked(h) PROVE WalletInv'
  <2>1. /\ Answer(h) /\ UNCHANGED <<wallets, links, walletRace, linkRace>>
        /\ handler[h].kind \in WalletKinds
    BY <1>7 DEF Blocked, races, WalletKinds
  <2>2. /\ \A u : Of(u)' = Of(u) /\ Primary(u)' = Primary(u)
        /\ \A a : At(a)' = At(a)
    BY <2>1 DEF Of, Primary, At
  <2>3. ASSUME NEW v \in Investors \ walletRace
        PROVE  (Of(v) # {} => \E i \in Of(v) : Primary(v) = {i})'
    BY <2>2 DEF WalletInv, UserInOrder
  <2>4. \A g \in Handlers \ {h}, i \in 1..links : OwnRow(g, i) => OwnRow(g, i)'
    <3>1. \A g \in Handlers \ {h} : handler'[g] = handler[g]
      BY <1>0, <2>1, JobTypeAnswer
    <3> QED
      BY <2>1, <3>1 DEF OwnRow
  <2>5. handler[h].user \in Investors
    <3>1. handler[h] \in LinkJob
      BY <1>0, <1>7, JobFacts DEF Blocked
    <3> QED
      BY <3>1 DEF LinkJob
  <2> QED
    BY <1>0, <2>1, <2>2, <2>3, <2>4, <2>5, WalletInvAnswer
<1>8. ASSUME NEW h \in Handlers, Claim(h) PROVE WalletInv'
  <2>1. /\ Answer(h) /\ UNCHANGED <<wallets, links, walletRace, linkRace>>
        /\ handler[h].kind = "claim"
    BY <1>8 DEF Claim, races
  <2>2. /\ handler'[h].kind = "none"
        /\ \A g \in Handlers \ {h} : handler'[g] = handler[g]
    BY <1>0, <2>1, JobTypeAnswer
  <2>3. RowsOwned'
    BY <2>1, <2>2 DEF WalletInv, RowsOwned, OwnRow
  <2>4. /\ \A u : Of(u)' = Of(u)
        /\ \A a : At(a)' = At(a)
    BY <2>1 DEF Of, At
  <2>5. /\ \A u : \A g \in Serving(u, WalletKinds)' :
              g \in Serving(u, WalletKinds) /\ handler'[g] = handler[g]
        /\ \A a : Linking(a)' \subseteq Linking(a)
    BY <2>2 DEF Serving, Linking, WalletKinds
  <2>6. \A u \in Investors \ walletRace' : UserInOrder(u)'
    BY <2>1, <2>4, <2>5, UserKept DEF WalletInv
  <2>7. \A a \in Addresses \ linkRace' : AddressInOrder(a)'
    BY <2>1, <2>4, <2>5, AddressKept DEF WalletInv
  <2> QED
    BY <1>0, <2>3, <2>6, <2>7 DEF WalletInv
<1> QED
  BY <1>0, <1>1, <1>2, <1>3, <1>4, <1>5, <1>6, <1>7, <1>8, WalletInvScreenLink,
     WalletInvUnlink, WalletInvSetPrimary
     DEF PortfolioNext, WalletNext, ClaimNext, portfolioVars, Day, races

(* For any investors and any number of requests at a time: an investor     *)
(* with wallets has exactly one primary wallet unless two of the           *)
(* investor's wallet requests overlapped, and an address is in two rows    *)
(* only if two links of it did (wallet_service.py reads, then writes, and  *)
(* the data base constrains neither).                                      *)
THEOREM PortfolioWalletsInOrder == PortfolioSpec => []WalletsInOrder
<1>1. PortfolioInit => WalletInv
  <2> SUFFICES ASSUME PortfolioInit PROVE WalletInv
    OBVIOUS
  <2>1. \A h \in Handlers : handler[h].kind = "none"
    BY DEF PortfolioInit, Waiting
  <2>2. /\ \A u : Of(u) = {} /\ Serving(u, WalletKinds) = {}
        /\ \A a : At(a) = {} /\ Linking(a) = {}
    BY <2>1 DEF PortfolioInit, Of, Serving, At, Linking, WalletKinds
  <2>3. RowsOwned
    BY <2>1 DEF RowsOwned
  <2> QED
    BY <2>2, <2>3, PortfolioTypesInit DEF WalletInv, UserInOrder, AddressInOrder
<1>2. WalletInv => WalletsInOrder
  <2> SUFFICES ASSUME WalletInv PROVE WalletsInOrder
    OBVIOUS
  <2>1. \A u \in Investors \ walletRace : Of(u) # {} => Cardinality(Primary(u)) = 1
    BY FS_Singleton DEF WalletInv, UserInOrder
  <2>2. ASSUME NEW a \in Addresses \ linkRace PROVE Cardinality(At(a)) <= 1
    <3>1. CASE At(a) = {}
      BY <3>1, FS_EmptySet
    <3>2. CASE At(a) # {}
      <4>1. PICK i \in At(a) : TRUE
        BY <3>2
      <4>2. AddressInOrder(a)
        BY DEF WalletInv
      <4> DEFINE S == At(a)
      <4>3. i \in S /\ \A j, k \in S : j = k
        BY <4>1, <4>2 DEF AddressInOrder
      <4> HIDE DEF S
      <4>4. S = {i}
        BY <4>3
      <4>5. Cardinality(S) = 1
        BY <4>4, FS_Singleton
      <4> QED
        BY <4>5 DEF S
    <3> QED
      BY <3>1, <3>2
  <2> QED
    BY <2>1, <2>2 DEF WalletsInOrder
<1> QED
  BY <1>1, <1>2, WalletInvNext, PTL DEF PortfolioSpec

-----------------------------------------------------------------------------
(* Requests of issuers, and the rows and contracts they name.              *)

Slug == Names \X ({0} \cup {Lowest(S) : S \in SUBSET (0..MaxTokens)})

TokenRow == [issuer : Issuers, symbol : Symbols, slug : Slug, contract_address : Nat]
SaleRow  == [token : Nat, soft : Nat, hard : Nat, contract_address : Nat]

CreateWork == [kind : {"create"}, what : Symbols, stage : {"read", "slug"},
               more : [issuer : Issuers, slug : Slug], made : Nat]
DeployWork == [kind : {"deploy"}, what : Nat, stage : {"read", "made"},
               more : {<<>>}, made : Nat]
SaleWork   == [kind : {"sale"}, what : Nat, stage : {"read", "made", "saved"},
               more : [token : Nat], made : Nat]

AnyWork == {NoWork} \cup CreateWork \cup DeployWork \cup SaleWork

RowNamed(j) ==
    /\ j.kind = "deploy" => j.what \in 1..Len(tokens)
    /\ j.kind = "sale" => j.what \in 1..Len(sales)

IssuanceTypes ==
    /\ tokens \in Seq(TokenRow) /\ sales \in Seq(SaleRow)
    /\ tokenContracts \in Seq(Nat) /\ saleContracts \in Seq(Nat)
    /\ work \in [Workers -> AnyWork]
    /\ \A s \in 1..Len(sales) : sales[s].token \in 1..Len(tokens)
    /\ \A w \in Workers : RowNamed(work[w])

LEMMA WorkFacts ==
    ASSUME NEW j \in AnyWork
    PROVE  /\ j.kind = "create" => j \in CreateWork
           /\ j.kind = "deploy" => j \in DeployWork
           /\ j.kind = "sale" => j \in SaleWork
           /\ j = NoWork => j.kind = "none"
           /\ j.kind = "none" => j = NoWork
BY DEF AnyWork, NoWork, CreateWork, DeployWork, SaleWork

LEMMA WorkStart ==
    ASSUME work \in [Workers -> AnyWork], NEW w \in Workers,
           NEW kind, NEW what, NEW more,
           [kind |-> kind, what |-> what, stage |-> "read", more |-> more,
            made |-> 0] \in AnyWork,
           Start(w, kind, what, more)
    PROVE  /\ work' \in [Workers -> AnyWork]
           /\ work'[w] = [kind |-> kind, what |-> what, stage |-> "read",
                          more |-> more, made |-> 0]
           /\ \A v \in Workers \ {w} : work'[v] = work[v]
           /\ work[w].kind = "none"
           /\ raced \subseteq raced'
           /\ Busy(kind, what) => <<kind, what>> \in raced'
           /\ UNCHANGED <<tokens, sales, tokenContracts, saleContracts>>
BY DEF Start, NoWork

LEMMA WorkEnds ==
    ASSUME work \in [Workers -> AnyWork], NEW w \in Workers, Ends(w)
    PROVE  /\ work' \in [Workers -> AnyWork]
           /\ work'[w].kind = "none"
           /\ \A v \in Workers \ {w} : work'[v] = work[v]
<1>1. NoWork \in AnyWork /\ NoWork.kind = "none"
  BY DEF AnyWork, NoWork
<1> QED
  BY <1>1 DEF Ends

(* A request's step: its work with another stage, or another contract.     *)
LEMMA WorkMade ==
    ASSUME work \in [Workers -> AnyWork], NEW w \in Workers,
           work[w].kind \in {"deploy", "sale"}, work[w].stage = "read", NEW n \in Nat,
           work' = [work EXCEPT ![w].stage = "made", ![w].made = n]
    PROVE  /\ work' \in [Workers -> AnyWork]
           /\ work'[w].kind = work[w].kind /\ work'[w].what = work[w].what
           /\ work'[w].more = work[w].more /\ work'[w].stage = "made"
           /\ work'[w].made = n
           /\ \A v \in Workers \ {w} : work'[v] = work[v]
<1> DEFINE q == [work[w] EXCEPT !.stage = "made", !.made = n]
<1>1. work' = [work EXCEPT ![w] = q]
  OBVIOUS
<1>2. work[w] \in DeployWork \cup SaleWork
  BY WorkFacts
<1>3. /\ q \in AnyWork
      /\ q.kind = work[w].kind /\ q.what = work[w].what
      /\ q.more = work[w].more /\ q.stage = "made" /\ q.made = n
  BY <1>2 DEF AnyWork, DeployWork, SaleWork
<1> HIDE DEF q
<1> QED
  BY <1>1, <1>3

LEMMA WorkSaved ==
    ASSUME work \in [Workers -> AnyWork], NEW w \in Workers,
           work[w].kind = "sale",
           work' = [work EXCEPT ![w].stage = "saved"]
    PROVE  /\ work' \in [Workers -> AnyWork]
           /\ work'[w].kind = work[w].kind /\ work'[w].what = work[w].what
           /\ work'[w].more = work[w].more /\ work'[w].stage = "saved"
           /\ work'[w].made = work[w].made
           /\ \A v \in Workers \ {w} : work'[v] = work[v]
<1> DEFINE q == [work[w] EXCEPT !.stage = "saved"]
<1>1. work' = [work EXCEPT ![w] = q]
  OBVIOUS
<1>2. work[w] \in SaleWork
  BY WorkFacts
<1>3. /\ q \in AnyWork
      /\ q.kind = work[w].kind /\ q.what = work[w].what
      /\ q.more = work[w].more /\ q.stage = "saved" /\ q.made = work[w].made
  BY <1>2 DEF AnyWork, SaleWork
<1> HIDE DEF q
<1> QED
  BY <1>1, <1>3

LEMMA WorkSlug ==
    ASSUME work \in [Workers -> AnyWork], NEW w \in Workers, ChooseSlug(w)
    PROVE  /\ work' \in [Workers -> AnyWork]
           /\ work'[w].kind = work[w].kind /\ work'[w].what = work[w].what
           /\ \A v \in Workers \ {w} : work'[v] = work[v]
           /\ work[w].kind = "create"
<1> DEFINE m == [work[w].more EXCEPT !.slug = FreeSlug(work[w].more.slug[1])]
           q == [work[w] EXCEPT !.stage = "slug", !.more = m]
<1>1. work[w] \in CreateWork /\ work[w].kind = "create"
  BY WorkFacts DEF ChooseSlug
<1>2. work' = [work EXCEPT ![w] = q]
  BY <1>1 DEF ChooseSlug, CreateWork
<1>3. work[w].more \in [issuer : Issuers, slug : Slug] /\ work[w].more.slug \in Slug
  BY <1>1 DEF CreateWork
<1>4. FreeSlug(work[w].more.slug[1]) \in Slug
  <2>1. work[w].more.slug[1] \in Names
    BY <1>3 DEF Slug
  <2> DEFINE free == {k \in 0..MaxTokens : <<work[w].more.slug[1], k>> \notin Slugs}
  <2>2. free \in SUBSET (0..MaxTokens)
    OBVIOUS
  <2>3. FreeSlug(work[w].more.slug[1]) = <<work[w].more.slug[1], Lowest(free)>>
    BY DEF FreeSlug
  <2> HIDE DEF free
  <2> QED
    BY <2>1, <2>2, <2>3 DEF Slug
<1>5. m \in [issuer : Issuers, slug : Slug]
  BY <1>3, <1>4
<1> HIDE DEF m
<1>6. q \in CreateWork /\ q.kind = work[w].kind /\ q.what = work[w].what
  BY <1>1, <1>5 DEF CreateWork
<1> HIDE DEF q
<1>7. q \in AnyWork
  BY <1>6 DEF AnyWork
<1> QED
  BY <1>1, <1>2, <1>6, <1>7

LEMMA InsertTokenFacts ==
    ASSUME IssuanceTypes, NEW w \in Workers, InsertToken(w)
    PROVE  /\ tokens' \in Seq(TokenRow) /\ Ends(w)
           /\ UNCHANGED <<sales, tokenContracts, saleContracts, raced>>
           /\ work[w].kind = "create"
           /\ \A t \in 1..Len(tokens) : t \in 1..Len(tokens') /\ tokens'[t] = tokens[t]
           /\ \A t \in 1..Len(tokens') :
                 \/ t \in 1..Len(tokens)
                 \/ t = Len(tokens) + 1 /\ tokens'[t].symbol = work[w].what
<1> DEFINE row == [issuer |-> work[w].more.issuer, symbol |-> work[w].what,
                   slug |-> work[w].more.slug, contract_address |-> Undeployed]
<1>1. work[w] \in CreateWork
  BY WorkFacts DEF IssuanceTypes, InsertToken
<1>2. work[w].more \in [issuer : Issuers, slug : Slug] /\ work[w].what \in Symbols
  BY <1>1 DEF CreateWork
<1>3. row \in TokenRow /\ row.symbol = work[w].what
  BY <1>2 DEF TokenRow, Undeployed
<1>4. /\ tokens' = tokens \/ tokens' = Append(tokens, row)
      /\ Ends(w) /\ UNCHANGED <<sales, tokenContracts, saleContracts, raced>>
      /\ work[w].kind = "create"
  BY DEF InsertToken
<1> HIDE DEF row
<1>5. tokens \in Seq(TokenRow) /\ Len(tokens) \in Nat
  BY DEF IssuanceTypes
<1> DEFINE T == tokens'
<1>6. T = tokens \/ T = Append(tokens, row)
  BY <1>4
<1> HIDE DEF T
<1>7. /\ T \in Seq(TokenRow) /\ Len(T) \in Nat
      /\ Len(T) = Len(tokens) \/ Len(T) = Len(tokens) + 1
      /\ \A t \in 1..Len(tokens) : T[t] = tokens[t]
      /\ Len(T) = Len(tokens) + 1 => T[Len(tokens) + 1] = row
  <2>1. CASE T = tokens
    BY <1>5, <2>1
  <2>2. CASE T = Append(tokens, row)
    BY <1>3, <1>5, <2>2, AppendProperties
  <2> QED
    BY <1>6, <2>1, <2>2
<1>8. /\ \A t \in 1..Len(tokens) : t \in 1..Len(T) /\ T[t] = tokens[t]
      /\ \A t \in 1..Len(T) :
            t \in 1..Len(tokens) \/ (t = Len(tokens) + 1 /\ T[t].symbol = work[w].what)
  BY <1>3, <1>5, <1>7
<1> QED
  BY <1>4, <1>7, <1>8 DEF T

LEMMA SaveTokenFacts ==
    ASSUME IssuanceTypes, NEW w \in Workers, SaveToken(w)
    PROVE  /\ tokens' \in Seq(TokenRow) /\ Ends(w) /\ Len(tokens') = Len(tokens)
           /\ UNCHANGED <<sales, tokenContracts, saleContracts, raced>>
           /\ work[w].kind = "deploy" /\ work[w].stage = "made"
           /\ work[w].what \in 1..Len(tokens)
           /\ tokens'[work[w].what].contract_address = work[w].made
           /\ \A t \in 1..Len(tokens) : /\ tokens'[t].symbol = tokens[t].symbol
                                        /\ t # work[w].what => tokens'[t] = tokens[t]
<1> DEFINE t == work[w].what
           row == [tokens[t] EXCEPT !.contract_address = work[w].made]
<1>1. /\ work[w] \in DeployWork /\ work[w].kind = "deploy" /\ work[w].stage = "made"
      /\ t \in 1..Len(tokens)
  BY WorkFacts DEF IssuanceTypes, SaveToken, RowNamed
<1>2. tokens \in Seq(TokenRow) /\ tokens[t] \in TokenRow /\ work[w].made \in Nat
  BY <1>1 DEF IssuanceTypes, DeployWork
<1>3. /\ row \in TokenRow /\ row.symbol = tokens[t].symbol
      /\ row.contract_address = work[w].made
  BY <1>2 DEF TokenRow
<1>4. /\ tokens' = [tokens EXCEPT ![t] = row]
      /\ Ends(w) /\ UNCHANGED <<sales, tokenContracts, saleContracts, raced>>
  BY DEF SaveToken
<1> HIDE DEF row
<1>5. /\ tokens' \in Seq(TokenRow) /\ Len(tokens') = Len(tokens)
      /\ \A k \in 1..Len(tokens) : tokens'[k] = IF k = t THEN row ELSE tokens[k]
  BY <1>1, <1>2, <1>3, <1>4, ExceptSeq
<1> QED
  BY <1>1, <1>3, <1>4, <1>5

LEMMA CreateSaleFacts ==
    ASSUME IssuanceTypes, NEW u, NEW t \in DOMAIN tokens,
           NEW soft \in Caps, NEW hard \in Caps,
           create_sale(u, t, soft, hard)
    PROVE  /\ sales' \in Seq(SaleRow) /\ Len(sales') = Len(sales) + 1
           /\ UNCHANGED <<tokens, tokenContracts, saleContracts, work, raced>>
           /\ t \in 1..Len(tokens) /\ tokens[t].contract_address # Undeployed
           /\ \A s \in 1..Len(sales) : sales'[s] = sales[s]
           /\ sales'[Len(sales) + 1].token = t
           /\ sales'[Len(sales) + 1].contract_address = Undeployed
<1> DEFINE row == [token |-> t, soft |-> soft, hard |-> hard,
                   contract_address |-> Undeployed]
<1>1. t \in 1..Len(tokens) /\ t \in Nat /\ soft \in Nat /\ hard \in Nat
  BY IssuanceAssumption DEF IssuanceTypes
<1>2. row \in SaleRow /\ row.token = t /\ row.contract_address = Undeployed
  BY <1>1 DEF SaleRow, Undeployed
<1>3. /\ sales' = Append(sales, row) /\ tokens[t].contract_address # Undeployed
      /\ UNCHANGED <<tokens, tokenContracts, saleContracts, work, raced>>
  BY DEF create_sale
<1> HIDE DEF row
<1>4. /\ sales' \in Seq(SaleRow) /\ Len(sales') = Len(sales) + 1
      /\ \A s \in 1..Len(sales) : sales'[s] = sales[s]
      /\ sales'[Len(sales) + 1] = row
  BY <1>2, <1>3, AppendProperties DEF IssuanceTypes
<1> QED
  BY <1>1, <1>2, <1>3, <1>4

LEMMA SaveSaleFacts ==
    ASSUME IssuanceTypes, NEW w \in Workers, SaveSale(w)
    PROVE  /\ sales' \in Seq(SaleRow) /\ Len(sales') = Len(sales)
           /\ UNCHANGED <<tokens, tokenContracts, saleContracts, raced>>
           /\ work[w].kind = "sale" /\ work[w].stage = "made"
           /\ work[w].what \in 1..Len(sales)
           /\ sales'[work[w].what].contract_address = work[w].made
           /\ \A s \in 1..Len(sales) : /\ sales'[s].token = sales[s].token
                                       /\ s # work[w].what => sales'[s] = sales[s]
           /\ work' = [work EXCEPT ![w].stage = "saved"]
<1> DEFINE s == work[w].what
           row == [sales[s] EXCEPT !.contract_address = work[w].made]
<1>1. /\ work[w] \in SaleWork /\ work[w].kind = "sale" /\ work[w].stage = "made"
      /\ s \in 1..Len(sales)
  BY WorkFacts DEF IssuanceTypes, SaveSale, RowNamed
<1>2. sales \in Seq(SaleRow) /\ sales[s] \in SaleRow /\ work[w].made \in Nat
  BY <1>1 DEF IssuanceTypes, SaleWork
<1>3. /\ row \in SaleRow /\ row.token = sales[s].token
      /\ row.contract_address = work[w].made
  BY <1>2 DEF SaleRow
<1>4. /\ sales' = [sales EXCEPT ![s] = row] /\ work' = [work EXCEPT ![w].stage = "saved"]
      /\ UNCHANGED <<tokens, tokenContracts, saleContracts, raced>>
  BY DEF SaveSale
<1> HIDE DEF row
<1>5. /\ sales' \in Seq(SaleRow) /\ Len(sales') = Len(sales)
      /\ \A k \in 1..Len(sales) : sales'[k] = IF k = s THEN row ELSE sales[k]
  BY <1>1, <1>2, <1>3, <1>4, ExceptSeq
<1> QED
  BY <1>1, <1>3, <1>4, <1>5

(* The requests that start.                                                *)
LEMMA StartFacts ==
    ASSUME IssuanceTypes, NEW w \in Workers, NEW u \in Issuers
    PROVE  /\ \A x \in Symbols, n \in Names :
                 [kind |-> "create", what |-> x, stage |-> "read",
                  more |-> [issuer |-> u, slug |-> <<n, 0>>], made |-> 0] \in AnyWork
           /\ \A t \in DOMAIN tokens :
                 /\ t \in 1..Len(tokens)
                 /\ [kind |-> "deploy", what |-> t, stage |-> "read", more |-> <<>>,
                     made |-> 0] \in AnyWork
           /\ \A s \in DOMAIN sales :
                 /\ s \in 1..Len(sales)
                 /\ [kind |-> "sale", what |-> s, stage |-> "read",
                     more |-> [token |-> tokens[sales[s].token].contract_address],
                     made |-> 0] \in AnyWork
<1>1. ASSUME NEW x \in Symbols, NEW n \in Names
      PROVE  [kind |-> "create", what |-> x, stage |-> "read",
              more |-> [issuer |-> u, slug |-> <<n, 0>>], made |-> 0] \in AnyWork
  <2>1. <<n, 0>> \in Slug
    BY DEF Slug
  <2> QED
    BY <2>1 DEF AnyWork, CreateWork
<1>2. ASSUME NEW t \in DOMAIN tokens
      PROVE  /\ t \in 1..Len(tokens)
             /\ [kind |-> "deploy", what |-> t, stage |-> "read", more |-> <<>>,
                 made |-> 0] \in AnyWork
  BY DEF AnyWork, DeployWork, IssuanceTypes
<1>3. ASSUME NEW s \in DOMAIN sales
      PROVE  /\ s \in 1..Len(sales)
             /\ [kind |-> "sale", what |-> s, stage |-> "read",
                 more |-> [token |-> tokens[sales[s].token].contract_address],
                 made |-> 0] \in AnyWork
  <2>1. s \in 1..Len(sales)
    BY DEF IssuanceTypes
  <2>2. tokens[sales[s].token] \in TokenRow
    BY <2>1 DEF IssuanceTypes
  <2>3. tokens[sales[s].token].contract_address \in Nat
    BY <2>2 DEF TokenRow
  <2> QED
    BY <2>1, <2>3 DEF AnyWork, SaleWork
<1> QED
  BY <1>1, <1>2, <1>3

(* A request that starts has its type, and names a row that is there.      *)
LEMMA IssuanceTypesStart ==
    ASSUME IssuanceTypes, NEW w \in Workers, NEW kind, NEW what, NEW more,
           [kind |-> kind, what |-> what, stage |-> "read", more |-> more,
            made |-> 0] \in AnyWork,
           kind = "deploy" => what \in 1..Len(tokens),
           kind = "sale" => what \in 1..Len(sales),
           Start(w, kind, what, more)
    PROVE  IssuanceTypes'
<1>0. work \in [Workers -> AnyWork]
  BY DEF IssuanceTypes
<1>1. /\ work' \in [Workers -> AnyWork]
      /\ work'[w] = [kind |-> kind, what |-> what, stage |-> "read",
                     more |-> more, made |-> 0]
      /\ \A v \in Workers \ {w} : work'[v] = work[v]
      /\ UNCHANGED <<tokens, sales, tokenContracts, saleContracts>>
  BY <1>0 DEF Start, NoWork
<1>2. work'[w].kind = kind /\ work'[w].what = what
  BY <1>1
<1>3. \A v \in Workers : RowNamed(work[v])'
  BY <1>1, <1>2 DEF RowNamed, IssuanceTypes
<1> QED
  BY <1>1, <1>3 DEF IssuanceTypes

LEMMA IssuanceTypesNext ==
    IssuanceTypes /\ [IssuanceNext]_issuanceVars => IssuanceTypes'
<1> SUFFICES ASSUME IssuanceTypes, [IssuanceNext]_issuanceVars
             PROVE  IssuanceTypes'
  OBVIOUS
<1>0. work \in [Workers -> AnyWork]
  BY DEF IssuanceTypes
<1>1. CASE UNCHANGED <<tokens, sales, tokenContracts, saleContracts, work>>
  BY <1>1 DEF IssuanceTypes, RowNamed
<1>2. ASSUME NEW w \in Workers, NEW u \in Issuers, NEW x \in Symbols, NEW n \in Names,
             CheckToken(w, u, x, n)
      PROVE  IssuanceTypes'
  BY <1>2, StartFacts, IssuanceTypesStart DEF CheckToken
<1>3. ASSUME NEW w \in Workers, NEW u \in Issuers, NEW t \in DOMAIN tokens,
             CheckDeploy(w, u, t)
      PROVE  IssuanceTypes'
  BY <1>3, StartFacts, IssuanceTypesStart DEF CheckDeploy
<1>4. ASSUME NEW w \in Workers, NEW u \in Issuers, NEW s \in DOMAIN sales,
             CheckSale(w, u, s)
      PROVE  IssuanceTypes'
  <2> DEFINE more == [token |-> tokens[sales[s].token].contract_address]
  <2>1. Start(w, "sale", s, more)
    BY <1>4 DEF CheckSale
  <2>2. /\ s \in 1..Len(sales)
        /\ [kind |-> "sale", what |-> s, stage |-> "read", more |-> more,
            made |-> 0] \in AnyWork
    BY StartFacts
  <2> HIDE DEF more
  <2> QED
    BY <2>1, <2>2, IssuanceTypesStart
<1>5. ASSUME NEW u \in Issuers, NEW t \in DOMAIN tokens, NEW soft \in Caps,
             NEW hard \in Caps, create_sale(u, t, soft, hard)
      PROVE  IssuanceTypes'
  <2>1. /\ sales' \in Seq(SaleRow) /\ Len(sales') = Len(sales) + 1
        /\ UNCHANGED <<tokens, tokenContracts, saleContracts, work>>
        /\ t \in 1..Len(tokens) /\ Len(sales) \in Nat
        /\ \A s \in 1..Len(sales) : sales'[s] = sales[s]
        /\ sales'[Len(sales) + 1].token = t
    BY <1>5, CreateSaleFacts DEF IssuanceTypes
  <2> DEFINE S == sales'
             m == Len(S)
  <2>2. m = Len(sales) + 1 /\ \A s \in 1..Len(sales) : S[s] = sales[s]
    BY <2>1
  <2>3. S[m].token = t
    BY <2>1
  <2> HIDE DEF S, m
  <2>4. \A s \in 1..m : S[s].token \in 1..Len(tokens)
    <3>1. Len(sales) \in Nat /\ \A s \in 1..m : s \in 1..Len(sales) \/ s = m
      BY <2>1, <2>2
    <3>2. \A s \in 1..Len(sales) : S[s].token \in 1..Len(tokens)
      BY <2>2 DEF IssuanceTypes
    <3> QED
      BY <2>1, <2>3, <3>1, <3>2
  <2>5. \A k : k \in 1..Len(sales) => k \in 1..m
    BY <2>1, <2>2
  <2>6. \A v \in Workers : RowNamed(work[v])'
    BY <2>1, <2>5 DEF RowNamed, IssuanceTypes, S, m
  <2> QED
    BY <2>1, <2>4, <2>6 DEF IssuanceTypes, S, m
<1>6. ASSUME NEW w \in Workers, ChooseSlug(w) PROVE IssuanceTypes'
  <2>1. /\ work' \in [Workers -> AnyWork]
        /\ work'[w].kind = work[w].kind /\ work'[w].what = work[w].what
        /\ \A v \in Workers \ {w} : work'[v] = work[v]
    BY <1>0, <1>6, WorkSlug
  <2>2. UNCHANGED <<tokens, sales, tokenContracts, saleContracts>>
    BY <1>6 DEF ChooseSlug
  <2>3. \A v \in Workers : RowNamed(work[v])'
    BY <2>1, <2>2 DEF RowNamed, IssuanceTypes
  <2> QED
    BY <2>1, <2>2, <2>3 DEF IssuanceTypes
<1>7. ASSUME NEW w \in Workers, InsertToken(w) \/ SaveToken(w) PROVE IssuanceTypes'
  <2>1. /\ tokens' \in Seq(TokenRow) /\ Ends(w)
        /\ UNCHANGED <<sales, tokenContracts, saleContracts>>
        /\ \A t \in 1..Len(tokens) : t \in 1..Len(tokens')
    BY <1>7, InsertTokenFacts, SaveTokenFacts
  <2>2. /\ work' \in [Workers -> AnyWork] /\ work'[w].kind = "none"
        /\ \A v \in Workers \ {w} : work'[v] = work[v]
    BY <1>0, <2>1, WorkEnds
  <2>3. \A v \in Workers : RowNamed(work[v])'
    BY <2>1, <2>2 DEF RowNamed, IssuanceTypes
  <2> QED
    BY <2>1, <2>2, <2>3 DEF IssuanceTypes
<1>8. ASSUME NEW w \in Workers, MineToken(w) \/ MineSale(w) PROVE IssuanceTypes'
  <2>1. /\ UNCHANGED <<tokens, sales>>
        /\ tokenContracts' \in Seq(Nat) /\ saleContracts' \in Seq(Nat)
    <3>1. CASE MineToken(w)
      <4>1. work[w].what \in Nat
        BY <1>0, <3>1, WorkFacts DEF MineToken, DeployWork
      <4> QED
        BY <3>1, <4>1, AppendProperties DEF MineToken, IssuanceTypes
    <3>2. CASE MineSale(w)
      <4>1. work[w].more.token \in Nat
        BY <1>0, <3>2, WorkFacts DEF MineSale, SaleWork
      <4> QED
        BY <3>2, <4>1, AppendProperties DEF MineSale, IssuanceTypes
    <3> QED
      BY <1>8, <3>1, <3>2
  <2>2. PICK n \in Nat : work' = [work EXCEPT ![w].stage = "made", ![w].made = n]
    <3>1. Len(tokenContracts) + 1 \in Nat /\ Len(saleContracts) + 1 \in Nat
      BY DEF IssuanceTypes
    <3> QED
      BY <1>8, <3>1 DEF MineToken, MineSale
  <2>3. /\ work' \in [Workers -> AnyWork]
        /\ work'[w].kind = work[w].kind /\ work'[w].what = work[w].what
        /\ \A v \in Workers \ {w} : work'[v] = work[v]
    BY <1>0, <1>8, <2>2, WorkMade DEF MineToken, MineSale
  <2>4. \A v \in Workers : RowNamed(work[v])'
    BY <2>1, <2>3 DEF RowNamed, IssuanceTypes
  <2> QED
    BY <2>1, <2>3, <2>4 DEF IssuanceTypes
<1>9. ASSUME NEW w \in Workers, SaveSale(w) PROVE IssuanceTypes'
  <2>1. /\ sales' \in Seq(SaleRow) /\ Len(sales') = Len(sales)
        /\ UNCHANGED <<tokens, tokenContracts, saleContracts>>
        /\ work[w].kind = "sale"
        /\ \A s \in 1..Len(sales) : sales'[s].token = sales[s].token
        /\ work' = [work EXCEPT ![w].stage = "saved"]
    BY <1>9, SaveSaleFacts
  <2>2. /\ work' \in [Workers -> AnyWork]
        /\ work'[w].kind = work[w].kind /\ work'[w].what = work[w].what
        /\ \A v \in Workers \ {w} : work'[v] = work[v]
    BY <1>0, <2>1, WorkSaved
  <2>3. \A v \in Workers : RowNamed(work[v])'
    BY <2>1, <2>2 DEF RowNamed, IssuanceTypes
  <2>4. \A s \in 1..Len(sales') : sales'[s].token \in 1..Len(tokens')
    BY <2>1 DEF IssuanceTypes
  <2> QED
    BY <2>1, <2>2, <2>3, <2>4 DEF IssuanceTypes
<1>10. ASSUME NEW w \in Workers, AuditSale(w) \/ Abandon(w) PROVE IssuanceTypes'
  <2>1. Ends(w) /\ UNCHANGED <<tokens, sales, tokenContracts, saleContracts>>
    BY <1>10 DEF AuditSale, Abandon
  <2>2. /\ work' \in [Workers -> AnyWork] /\ work'[w].kind = "none"
        /\ \A v \in Workers \ {w} : work'[v] = work[v]
    BY <1>0, <2>1, WorkEnds
  <2>3. \A v \in Workers : RowNamed(work[v])'
    BY <2>1, <2>2 DEF RowNamed, IssuanceTypes
  <2> QED
    BY <2>1, <2>2, <2>3 DEF IssuanceTypes
<1> QED
  BY <1>1, <1>2, <1>3, <1>4, <1>5, <1>6, <1>7, <1>8, <1>9, <1>10
     DEF IssuanceNext, issuanceVars, onboard_issuer, activate_issuer, revoke_issuer,
         SetStatus

-----------------------------------------------------------------------------
(* Symbols.  Of two requests that create a symbol at a time, or a request  *)
(* and a token that took its symbol meanwhile, the overlap was noted.      *)

Taken(x) == \E t \in 1..Len(tokens) : tokens[t].symbol = x

Creating(x) == {w \in Workers : work[w].kind = "create" /\ work[w].what = x}

SymbolFree(x) ==
    \/ <<"create", x>> \in raced
    \/ /\ Creating(x) # {} => ~Taken(x)
       /\ \A v, w \in Creating(x) : v = w
       /\ \A t1, t2 \in 1..Len(tokens) :
            tokens[t1].symbol = x /\ tokens[t2].symbol = x => t1 = t2

SymbolInv == IssuanceTypes /\ \A x : SymbolFree(x)

LEMMA SymbolsKept ==
    ASSUME NEW x, SymbolFree(x), raced \subseteq raced', Len(tokens') = Len(tokens),
           \A t \in 1..Len(tokens) : tokens'[t].symbol = tokens[t].symbol,
           Creating(x)' \subseteq Creating(x)
    PROVE  SymbolFree(x)'
BY DEF SymbolFree, Taken

LEMMA SymbolInvNext == SymbolInv /\ [IssuanceNext]_issuanceVars => SymbolInv'
<1> SUFFICES ASSUME SymbolInv, [IssuanceNext]_issuanceVars PROVE SymbolInv'
  OBVIOUS
<1>0. /\ IssuanceTypes /\ IssuanceTypes' /\ work \in [Workers -> AnyWork]
      /\ Len(tokens) \in Nat
  BY IssuanceTypesNext DEF SymbolInv, IssuanceTypes
<1>1. ASSUME raced \subseteq raced', Len(tokens') = Len(tokens),
             \A t \in 1..Len(tokens) : tokens'[t].symbol = tokens[t].symbol,
             \A v \in Workers : work'[v].kind = "create" =>
                work[v].kind = "create" /\ work'[v].what = work[v].what
      PROVE  SymbolInv'
  <2>1. \A x : Creating(x)' \subseteq Creating(x)
    BY <1>1 DEF Creating
  <2>2. \A x : SymbolFree(x)'
    BY <1>1, <2>1, SymbolsKept DEF SymbolInv
  <2> QED
    BY <1>0, <2>2 DEF SymbolInv
<1>2. ASSUME NEW w \in Workers, Ends(w), UNCHANGED <<tokens, raced>> PROVE SymbolInv'
  BY <1>0, <1>1, <1>2, WorkEnds
<1>3. ASSUME NEW w \in Workers, NEW u \in Issuers, NEW y \in Symbols, NEW n \in Names,
             CheckToken(w, u, y, n)
      PROVE  SymbolInv'
  <2> DEFINE more == [issuer |-> u, slug |-> <<n, 0>>]
             job == [kind |-> "create", what |-> y, stage |-> "read", more |-> more,
                     made |-> 0]
  <2>1. Start(w, "create", y, more) /\ ~Taken(y)
    BY <1>0, <1>3 DEF CheckToken, Taken, IssuanceTypes
  <2>2. job \in AnyWork
    BY <1>0, StartFacts
  <2>3. job.kind = "create" /\ job.what = y
    OBVIOUS
  <2> HIDE DEF more
  <2>4. /\ work'[w] = job
        /\ \A v \in Workers \ {w} : work'[v] = work[v]
        /\ work[w].kind = "none" /\ raced \subseteq raced'
        /\ Busy("create", y) => <<"create", y>> \in raced'
        /\ UNCHANGED tokens
    BY <1>0, <2>1, <2>2, WorkStart
  <2> HIDE DEF job
  <2>5. ASSUME NEW x PROVE SymbolFree(x)'
    <3>1. CASE x # y
      <4>1. Creating(x)' \subseteq Creating(x)
        BY <2>3, <2>4, <3>1 DEF Creating
      <4> QED
        BY <2>4, <4>1, SymbolsKept DEF SymbolInv
    <3>2. CASE x = y
      <4>1. CASE Busy("create", y)
        BY <2>4, <3>2, <4>1 DEF SymbolFree
      <4>2. CASE ~Busy("create", y)
        <5>1. Creating(x)' = {w}
          BY <2>3, <2>4, <3>2, <4>2 DEF Creating, Busy
        <5>2. ~Taken(x)'
          BY <2>1, <2>4, <3>2 DEF Taken
        <5> QED
          BY <5>1, <5>2 DEF SymbolFree, Taken
      <4> QED
        BY <4>1, <4>2
    <3> QED
      BY <3>1, <3>2
  <2> QED
    BY <1>0, <2>5 DEF SymbolInv
<1>4. ASSUME NEW w \in Workers, NEW kind \in {"deploy", "sale"}, NEW what, NEW more,
             Start(w, kind, what, more)
      PROVE  SymbolInv'
  <2>1. /\ \A v \in Workers : work'[v].kind = "create" => work'[v] = work[v]
        /\ raced \subseteq raced' /\ UNCHANGED tokens
    BY <1>0, <1>4 DEF Start
  <2> QED
    BY <1>1, <2>1
<1>5. ASSUME NEW w \in Workers, InsertToken(w) PROVE SymbolInv'
  <2> DEFINE y == work[w].what
             T == tokens'
             n == Len(tokens)
  <2>1. /\ Ends(w) /\ UNCHANGED raced /\ work[w].kind = "create"
        /\ \A t \in 1..n : t \in 1..Len(T) /\ T[t] = tokens[t]
        /\ \A t \in 1..Len(T) : t \in 1..n \/ (t = n + 1 /\ T[t].symbol = y)
    BY <1>0, <1>5, InsertTokenFacts
  <2>2. /\ work'[w].kind = "none"
        /\ \A v \in Workers \ {w} : work'[v] = work[v]
    BY <1>0, <2>1, WorkEnds
  <2>3. ASSUME NEW x PROVE SymbolFree(x)'
    <3>1. Creating(x)' = Creating(x) \ {w}
      BY <2>2 DEF Creating
    <3>2. CASE <<"create", x>> \in raced
      BY <2>1, <3>2 DEF SymbolFree
    <3>3. CASE <<"create", x>> \notin raced
      <4>1. /\ Creating(x) # {} => ~Taken(x)
            /\ \A v, z \in Creating(x) : v = z
            /\ \A t1, t2 \in 1..n :
                 tokens[t1].symbol = x /\ tokens[t2].symbol = x => t1 = t2
        BY <3>3 DEF SymbolInv, SymbolFree
      <4>2. CASE x = y
        <5>1. w \in Creating(x)
          BY <2>1, <4>2 DEF Creating
        <5>2. Creating(x)' = {} /\ ~Taken(x)
          BY <3>1, <4>1, <5>1
        <5>3. \A t \in 1..Len(T) : T[t].symbol = x => t = n + 1
          BY <2>1, <5>2 DEF Taken
        <5> QED
          BY <5>2, <5>3 DEF SymbolFree
      <4>3. CASE x # y
        <5>1. \A t \in 1..Len(T) : T[t].symbol = x =>
                 t \in 1..n /\ tokens[t].symbol = x
          BY <2>1, <4>3
        <5>2. Taken(x)' => Taken(x)
          BY <5>1 DEF Taken
        <5> QED
          BY <3>1, <4>1, <5>1, <5>2 DEF SymbolFree
      <4> QED
        BY <4>2, <4>3
    <3> QED
      BY <3>2, <3>3
  <2> QED
    BY <1>0, <2>3 DEF SymbolInv
<1>6. ASSUME NEW w \in Workers, SaveToken(w) PROVE SymbolInv'
  BY <1>0, <1>1, <1>6, SaveTokenFacts, WorkEnds
<1>7. ASSUME NEW w \in Workers, ChooseSlug(w) PROVE SymbolInv'
  <2>1. UNCHANGED <<tokens, raced>>
    BY <1>7 DEF ChooseSlug
  <2> QED
    BY <1>0, <1>1, <1>7, <2>1, WorkSlug
<1>8. ASSUME NEW w \in Workers, MineToken(w) \/ MineSale(w) \/ SaveSale(w)
      PROVE  SymbolInv'
  <2>1. UNCHANGED <<tokens, raced>> /\ work[w].kind \in {"deploy", "sale"}
    BY <1>8 DEF MineToken, MineSale, SaveSale
  <2>2. /\ work[w] \in DeployWork \cup SaleWork
        /\ \A v \in Workers \ {w} : work'[v] = work[v]
    BY <1>0, <1>8, <2>1, WorkFacts DEF MineToken, MineSale, SaveSale
  <2>3. work'[w].kind = work[w].kind
    BY <1>0, <1>8, <2>2 DEF MineToken, MineSale, SaveSale, DeployWork, SaleWork
  <2> QED
    BY <1>1, <2>1, <2>2, <2>3
<1> QED
  BY <1>0, <1>1, <1>2, <1>3, <1>4, <1>5, <1>6, <1>7, <1>8
     DEF IssuanceNext, issuanceVars, onboard_issuer, activate_issuer, revoke_issuer,
         SetStatus, CheckDeploy, CheckSale, create_sale, AuditSale, Abandon

LEMMA IssuanceTypesInit == IssuanceInit => IssuanceTypes
<1> SUFFICES ASSUME IssuanceInit PROVE IssuanceTypes
  OBVIOUS
<1>1. NoWork \in AnyWork /\ NoWork.kind = "none"
  BY DEF AnyWork, NoWork
<1>2. \A w \in Workers : work[w] = NoWork
  BY DEF IssuanceInit
<1>3. work \in [Workers -> AnyWork]
  BY <1>1 DEF IssuanceInit
<1>4. \A w \in Workers : RowNamed(work[w])
  BY <1>1, <1>2 DEF RowNamed
<1> QED
  BY <1>3, <1>4 DEF IssuanceInit, IssuanceTypes

(* For any issuers, symbols and requests at a time: two tokens have one    *)
(* symbol only if they were being created at the same time (create_token   *)
(* looks the symbol up and inserts later; the data base does not check).   *)
THEOREM IssuanceSymbolsUnique == IssuanceSpec => []SymbolsUnique
<1>1. IssuanceInit => SymbolInv
  <2> SUFFICES ASSUME IssuanceInit PROVE SymbolInv
    OBVIOUS
  <2>1. \A w \in Workers : work[w].kind = "none"
    BY DEF IssuanceInit, NoWork
  <2>2. tokens = <<>> /\ \A x : Creating(x) = {}
    BY <2>1 DEF IssuanceInit, Creating
  <2> QED
    BY <2>2, IssuanceTypesInit DEF SymbolInv, SymbolFree
<1>2. SymbolInv => SymbolsUnique
  BY DEF SymbolInv, SymbolFree, SymbolsUnique, IssuanceTypes
<1> QED
  BY <1>1, <1>2, SymbolInvNext, PTL DEF IssuanceSpec

-----------------------------------------------------------------------------
(* Sales and the contracts they point at.  A token with a sale is deployed *)
(* and, unless two deployments of it overlapped, keeps its contract, so    *)
(* what a deployment of the sale read stays right.                         *)

Racing(t) == <<"deploy", t>> \in raced

Deploying(t) == {w \in Workers : work[w].kind = "deploy" /\ work[w].what = t}

DeployFits(w) ==
    work[w].kind = "deploy" =>
      /\ work[w].stage = "made" => work[w].made # Undeployed
      /\ Racing(work[w].what)
           \/ tokens[work[w].what].contract_address = Undeployed

SaleFits(w) ==
    work[w].kind = "sale" =>
      /\ work[w].stage \in {"made", "saved"} =>
           /\ work[w].made \in 1..Len(saleContracts)
           /\ saleContracts[work[w].made] = work[w].more.token
      /\ Racing(sales[work[w].what].token)
           \/ work[w].more.token
                = tokens[sales[work[w].what].token].contract_address

RowFits(s) ==
    LET c == sales[s].contract_address
        t == sales[s].token
    IN /\ tokens[t].contract_address # Undeployed
       /\ c # Undeployed => c \in 1..Len(saleContracts)
       /\ c # Undeployed => Racing(t) \/ saleContracts[c] = tokens[t].contract_address

DeploysApart == \A t : Racing(t) \/ \A v, w \in Deploying(t) : v = w

SellInv ==
    /\ IssuanceTypes
    /\ \A w \in Workers : DeployFits(w) /\ SaleFits(w)
    /\ \A s \in 1..Len(sales) : RowFits(s)
    /\ DeploysApart

(* Steps that leave every token's contract as it is.                       *)
LEMMA SellKept ==
    ASSUME SellInv, IssuanceTypes', raced \subseteq raced',
           \A t \in 1..Len(tokens) :
              tokens'[t].contract_address = tokens[t].contract_address,
           \A c \in 1..Len(saleContracts) :
              c \in 1..Len(saleContracts') /\ saleContracts'[c] = saleContracts[c],
           \A s \in 1..Len(sales) : sales'[s].token = sales[s].token,
           \A s \in 1..Len(sales') :
              \/ RowFits(s)'
              \/ /\ s \in 1..Len(sales)
                 /\ sales'[s].contract_address = sales[s].contract_address,
           \A v \in Workers :
              \/ work'[v] = work[v]
              \/ work'[v].kind \notin {"deploy", "sale"}
              \/ DeployFits(v)' /\ SaleFits(v)',
           DeploysApart'
    PROVE  SellInv'
<1>1. \A t : Racing(t) => Racing(t)'
  BY DEF Racing
<1>2. ASSUME NEW s \in 1..Len(sales') PROVE RowFits(s)'
  <2>1. CASE /\ s \in 1..Len(sales)
             /\ sales'[s].contract_address = sales[s].contract_address
    <3>1. sales[s].token \in 1..Len(tokens) /\ RowFits(s)
      BY <2>1 DEF SellInv, IssuanceTypes
    <3> QED
      BY <1>1, <2>1, <3>1 DEF RowFits
  <2> QED
    BY <2>1
<1>3. ASSUME NEW v \in Workers PROVE DeployFits(v)' /\ SaleFits(v)'
  <2>1. CASE work'[v] = work[v]
    <3>1. DeployFits(v) /\ SaleFits(v) /\ RowNamed(work[v])
      BY DEF SellInv, IssuanceTypes
    <3>2. DeployFits(v)'
      BY <1>1, <2>1, <3>1 DEF DeployFits, RowNamed
    <3>3. SaleFits(v)'
      <4> SUFFICES ASSUME work[v].kind = "sale" PROVE SaleFits(v)'
        BY <2>1 DEF SaleFits
      <4> DEFINE s == work[v].what
                 t == sales[s].token
      <4>1. s \in 1..Len(sales) /\ t \in 1..Len(tokens)
        BY <3>1 DEF RowNamed, SellInv, IssuanceTypes
      <4>2. sales'[s].token = t
        BY <4>1
      <4>3. tokens'[t].contract_address = tokens[t].contract_address
        BY <4>1
      <4>4. Racing(t) \/ work[v].more.token = tokens[t].contract_address
        BY <3>1 DEF SaleFits
      <4>5. \/ <<"deploy", t>> \in raced'
            \/ work[v].more.token = tokens'[t].contract_address
        BY <4>3, <4>4 DEF Racing
      <4>6. work[v].stage \in {"made", "saved"} =>
              /\ work[v].made \in 1..Len(saleContracts')
              /\ saleContracts'[work[v].made] = work[v].more.token
        BY <3>1 DEF SaleFits
      <4>7. t = sales'[work'[v].what].token
        BY <2>1, <4>2
      <4> HIDE DEF t
      <4>8. \/ <<"deploy", sales'[work'[v].what].token>> \in raced'
            \/ work'[v].more.token
                 = tokens'[sales'[work'[v].what].token].contract_address
        BY <2>1, <4>5, <4>7
      <4> QED
        BY <2>1, <4>6, <4>8 DEF SaleFits, Racing
    <3> QED
      BY <3>2, <3>3
  <2>2. CASE work'[v].kind \notin {"deploy", "sale"}
    BY <2>2 DEF DeployFits, SaleFits
  <2> QED
    BY <2>1, <2>2
<1> QED
  BY <1>2, <1>3 DEF SellInv

LEMMA ApartKept ==
    ASSUME DeploysApart, raced \subseteq raced',
           \A v \in Workers : work'[v].kind = "deploy" =>
              work[v].kind = "deploy" /\ work'[v].what = work[v].what
    PROVE  DeploysApart'
<1>1. \A t : Deploying(t)' \subseteq Deploying(t)
  BY DEF Deploying
<1>2. \A t : Racing(t) => Racing(t)'
  BY DEF Racing
<1> QED
  BY <1>1, <1>2 DEF DeploysApart

(* A token gets its contract.                                              *)
LEMMA SellInvSaveToken ==
    ASSUME SellInv, IssuanceTypes', NEW w \in Workers, SaveToken(w)
    PROVE  SellInv'
<1> DEFINE t == work[w].what
<1>0. IssuanceTypes /\ work \in [Workers -> AnyWork]
  BY DEF SellInv, IssuanceTypes
<1>1. /\ Ends(w) /\ Len(tokens') = Len(tokens)
      /\ UNCHANGED <<sales, tokenContracts, saleContracts, raced>>
      /\ work[w].kind = "deploy" /\ work[w].stage = "made"
      /\ tokens'[t].contract_address = work[w].made
      /\ \A k \in 1..Len(tokens) : k # t => tokens'[k] = tokens[k]
  BY <1>0, SaveTokenFacts
<1>2. /\ work'[w].kind = "none"
      /\ \A v \in Workers \ {w} : work'[v] = work[v]
  BY <1>0, <1>1, WorkEnds
<1>3. work[w].made # Undeployed /\ w \in Deploying(t)
  BY <1>1 DEF SellInv, DeployFits, Deploying
<1>4. Racing(t) \/ tokens[t].contract_address = Undeployed
  BY <1>1 DEF SellInv, DeployFits
<1> HIDE DEF t
<1>5. \A x : Racing(x)' <=> Racing(x)
  BY <1>1 DEF Racing
<1>6. DeploysApart'
  <2>1. \A v \in Workers : work'[v].kind = "deploy" => work'[v] = work[v]
    BY <1>2
  <2> QED
    BY <1>1, <2>1, ApartKept DEF SellInv
<1>7. ASSUME NEW s \in 1..Len(sales) PROVE RowFits(s)'
  <2>1. RowFits(s) /\ sales[s].token \in 1..Len(tokens)
    BY <1>0 DEF SellInv, IssuanceTypes
  <2>2. CASE sales[s].token # t
    BY <1>1, <1>5, <2>1, <2>2 DEF RowFits
  <2>3. CASE sales[s].token = t
    <3>1. Racing(t)
      BY <1>4, <2>1, <2>3 DEF RowFits
    <3> QED
      BY <1>1, <1>3, <1>5, <2>1, <2>3, <3>1 DEF RowFits
  <2> QED
    BY <2>2, <2>3
<1>8. ASSUME NEW v \in Workers PROVE DeployFits(v)' /\ SaleFits(v)'
  <2>1. CASE v = w
    BY <1>2, <2>1 DEF DeployFits, SaleFits
  <2>2. CASE v # w
    <3>1. work'[v] = work[v] /\ DeployFits(v) /\ SaleFits(v) /\ RowNamed(work[v])
      BY <1>2, <2>2 DEF SellInv, IssuanceTypes
    <3>2. DeployFits(v)'
      <4> SUFFICES ASSUME work[v].kind = "deploy" PROVE DeployFits(v)'
        BY <3>1 DEF DeployFits
      <4>1. work[v].what \in 1..Len(tokens)
        BY <3>1 DEF RowNamed
      <4>2. CASE work[v].what = t
        <5>1. Racing(t)
          BY <1>3, <2>2, <4>2 DEF SellInv, DeploysApart, Deploying
        <5> QED
          BY <1>5, <3>1, <4>2, <5>1 DEF DeployFits
      <4>3. CASE work[v].what # t
        BY <1>1, <1>5, <3>1, <4>1, <4>3 DEF DeployFits
      <4> QED
        BY <4>2, <4>3
    <3>3. SaleFits(v)'
      <4> SUFFICES ASSUME work[v].kind = "sale" PROVE SaleFits(v)'
        BY <3>1 DEF SaleFits
      <4>1. work[v].what \in 1..Len(sales)
        BY <3>1 DEF RowNamed
      <4>2. /\ RowFits(work[v].what)
            /\ sales[work[v].what].token \in 1..Len(tokens)
        BY <1>0, <4>1 DEF SellInv, IssuanceTypes
      <4>3. CASE sales[work[v].what].token # t
        BY <1>1, <1>5, <3>1, <4>2, <4>3 DEF SaleFits
      <4>4. CASE sales[work[v].what].token = t
        <5>1. Racing(t)
          BY <1>4, <4>2, <4>4 DEF RowFits
        <5> QED
          BY <1>1, <1>5, <3>1, <4>4, <5>1 DEF SaleFits
      <4> QED
        BY <4>3, <4>4
    <3> QED
      BY <3>2, <3>3
  <2> QED
    BY <2>1, <2>2
<1>9. \A s \in 1..Len(sales') : RowFits(s)'
  BY <1>1, <1>7
<1> QED
  BY <1>6, <1>8, <1>9 DEF SellInv

LEMMA SellInvNext == SellInv /\ [IssuanceNext]_issuanceVars => SellInv'
<1> SUFFICES ASSUME SellInv, [IssuanceNext]_issuanceVars PROVE SellInv'
  OBVIOUS
<1>0. /\ IssuanceTypes /\ IssuanceTypes' /\ work \in [Workers -> AnyWork]
      /\ Len(tokens) \in Nat /\ Len(sales) \in Nat /\ Len(saleContracts) \in Nat
      /\ Len(tokenContracts) \in Nat /\ DeploysApart
  <2>1. IssuanceTypes /\ DeploysApart
    BY DEF SellInv
  <2>2. IssuanceTypes'
    BY <2>1, IssuanceTypesNext
  <2>3. /\ work \in [Workers -> AnyWork]
        /\ Len(tokens) \in Nat /\ Len(sales) \in Nat
        /\ Len(saleContracts) \in Nat /\ Len(tokenContracts) \in Nat
    BY <2>1 DEF IssuanceTypes
  <2> QED
    BY <2>1, <2>2, <2>3
<1>1. ASSUME UNCHANGED <<tokens, sales, saleContracts>>, raced \subseteq raced',
             \A v \in Workers :
                \/ work'[v] = work[v]
                \/ work'[v].kind \notin {"deploy", "sale"}
                \/ DeployFits(v)' /\ SaleFits(v)',
             DeploysApart'
      PROVE  SellInv'
  BY <1>0, <1>1, SellKept
<1>r. UNCHANGED raced => \A x : Racing(x)' <=> Racing(x)
  BY DEF Racing
<1>2. CASE UNCHANGED <<tokens, sales, saleContracts, work, raced>>
  <2>1. DeploysApart'
    BY <1>0, <1>2, ApartKept
  <2> QED
    BY <1>1, <1>2, <2>1
<1>3. ASSUME NEW w \in Workers, Ends(w), UNCHANGED <<tokens, sales, saleContracts, raced>>
      PROVE  SellInv'
  <2>1. /\ work'[w].kind = "none"
        /\ \A v \in Workers \ {w} : work'[v] = work[v]
    BY <1>0, <1>3, WorkEnds
  <2>2. DeploysApart'
    BY <1>0, <1>3, <2>1, ApartKept
  <2> QED
    BY <1>1, <1>3, <2>1, <2>2
<1>4. ASSUME NEW w \in Workers, NEW u \in Issuers, NEW x \in Symbols, NEW n \in Names,
             CheckToken(w, u, x, n)
      PROVE  SellInv'
  <2>1. PICK more : Start(w, "create", x, more)
    BY <1>4 DEF CheckToken
  <2>2. /\ work'[w].kind = "create" /\ \A v \in Workers \ {w} : work'[v] = work[v]
        /\ raced \subseteq raced' /\ UNCHANGED <<tokens, sales, saleContracts>>
    BY <1>0, <2>1 DEF Start
  <2>3. DeploysApart'
    BY <1>0, <2>2, ApartKept
  <2> QED
    BY <1>1, <2>2, <2>3
<1>5. ASSUME NEW w \in Workers, NEW u \in Issuers, NEW t \in DOMAIN tokens,
             CheckDeploy(w, u, t)
      PROVE  SellInv'
  <2>1. Start(w, "deploy", t, <<>>) /\ tokens[t].contract_address = Undeployed
    BY <1>5 DEF CheckDeploy
  <2>2. /\ work'[w].kind = "deploy" /\ work'[w].what = t /\ work'[w].stage = "read"
        /\ \A v \in Workers \ {w} : work'[v] = work[v]
        /\ raced \subseteq raced' /\ UNCHANGED <<tokens, sales, saleContracts>>
        /\ Busy("deploy", t) => <<"deploy", t>> \in raced'
        /\ work[w].kind = "none"
    BY <1>0, <2>1 DEF Start, NoWork
  <2>3. DeployFits(w)' /\ SaleFits(w)'
    BY <2>1, <2>2 DEF DeployFits, SaleFits
  <2>4. DeploysApart'
    <3> SUFFICES ASSUME NEW k, ~Racing(k)'
                 PROVE  \A v, z \in Deploying(k)' : v = z
      BY DEF DeploysApart
    <3>1. ~Racing(k)
      BY <2>2 DEF Racing
    <3>2. \A v, z \in Deploying(k) : v = z
      BY <1>0, <3>1 DEF DeploysApart
    <3>3. CASE k = t
      <4>1. ~Busy("deploy", t)
        BY <2>2, <3>3 DEF Racing
      <4>2. Deploying(k)' \subseteq {w}
        BY <2>2, <3>3, <4>1 DEF Deploying, Busy
      <4> QED
        BY <4>2
    <3>4. CASE k # t
      <4>1. Deploying(k)' \subseteq Deploying(k)
        BY <2>2, <3>4 DEF Deploying
      <4> QED
        BY <3>2, <4>1
    <3> QED
      BY <3>3, <3>4
  <2> QED
    BY <1>1, <2>2, <2>3, <2>4
<1>6. ASSUME NEW w \in Workers, NEW u \in Issuers, NEW s \in DOMAIN sales,
             CheckSale(w, u, s)
      PROVE  SellInv'
  <2> DEFINE c == tokens[sales[s].token].contract_address
  <2>1. Start(w, "sale", s, [token |-> c])
    BY <1>6 DEF CheckSale
  <2>2. /\ work'[w].kind = "sale" /\ work'[w].what = s /\ work'[w].stage = "read"
        /\ work'[w].more.token = c
        /\ \A v \in Workers \ {w} : work'[v] = work[v]
        /\ raced \subseteq raced' /\ UNCHANGED <<tokens, sales, saleContracts>>
    BY <1>0, <2>1 DEF Start
  <2>3. DeployFits(w)' /\ SaleFits(w)'
    BY <2>2 DEF DeployFits, SaleFits
  <2>4. DeploysApart'
    BY <1>0, <2>2, ApartKept
  <2> QED
    BY <1>1, <2>2, <2>3, <2>4
<1>7. ASSUME NEW u \in Issuers, NEW t \in DOMAIN tokens, NEW soft \in Caps,
             NEW hard \in Caps, create_sale(u, t, soft, hard)
      PROVE  SellInv'
  <2>1. /\ Len(sales') = Len(sales) + 1
        /\ UNCHANGED <<tokens, tokenContracts, saleContracts, work, raced>>
        /\ t \in 1..Len(tokens) /\ tokens[t].contract_address # Undeployed
        /\ \A s \in 1..Len(sales) : sales'[s] = sales[s]
        /\ sales'[Len(sales) + 1].token = t
        /\ sales'[Len(sales) + 1].contract_address = Undeployed
    BY <1>0, <1>7, CreateSaleFacts
  <2>0. PICK n : n = Len(sales) + 1
    OBVIOUS
  <2>2. \A s \in 1..Len(sales') : s \in 1..Len(sales) \/ s = n
    BY <1>0, <2>0, <2>1
  <2>3. RowFits(n)'
    <3>1. sales'[n].token = t /\ sales'[n].contract_address = Undeployed
      BY <2>0, <2>1
    <3>2. tokens'[t].contract_address # Undeployed
      BY <2>1
    <3> QED
      BY <3>1, <3>2 DEF RowFits
  <2>4. DeploysApart'
    BY <1>0, <2>1, ApartKept
  <2> QED
    BY <1>0, <2>1, <2>2, <2>3, <2>4, SellKept
<1>8. ASSUME NEW w \in Workers, ChooseSlug(w) PROVE SellInv'
  <2>1. /\ work'[w].kind = "create" /\ \A v \in Workers \ {w} : work'[v] = work[v]
    BY <1>0, <1>8, WorkSlug
  <2>2. UNCHANGED <<tokens, sales, saleContracts, raced>>
    BY <1>8 DEF ChooseSlug
  <2>3. DeploysApart'
    BY <1>0, <2>1, <2>2, ApartKept
  <2> QED
    BY <1>1, <2>1, <2>2, <2>3
<1>9. ASSUME NEW w \in Workers, InsertToken(w) PROVE SellInv'
  <2>1. /\ Ends(w) /\ UNCHANGED <<sales, saleContracts, raced>>
        /\ \A t \in 1..Len(tokens) : tokens'[t] = tokens[t]
    BY <1>0, <1>9, InsertTokenFacts
  <2>2. /\ work'[w].kind = "none"
        /\ \A v \in Workers \ {w} : work'[v] = work[v]
    BY <1>0, <2>1, WorkEnds
  <2>3. DeploysApart'
    BY <1>0, <2>1, <2>2, ApartKept
  <2> QED
    BY <1>0, <2>1, <2>2, <2>3, SellKept
<1>10. ASSUME NEW w \in Workers, MineToken(w) PROVE SellInv'
  <2> DEFINE n == Len(tokenContracts) + 1
  <2>1. /\ work[w].kind = "deploy" /\ work[w].stage = "read"
        /\ work' = [work EXCEPT ![w].stage = "made", ![w].made = n]
        /\ UNCHANGED <<tokens, sales, saleContracts, raced>>
    BY <1>10 DEF MineToken
  <2>2. n \in Nat /\ n # Undeployed
    BY <1>0 DEF Undeployed
  <2> HIDE DEF n
  <2>3. /\ work'[w].kind = "deploy" /\ work'[w].what = work[w].what
        /\ work'[w].made = n
        /\ \A v \in Workers \ {w} : work'[v] = work[v]
    BY <1>0, <2>1, <2>2, WorkMade
  <2>4. DeployFits(w)' /\ SaleFits(w)'
    <3>1. DeployFits(w)
      BY DEF SellInv
    <3> QED
      BY <1>r, <2>1, <2>2, <2>3, <3>1 DEF DeployFits, SaleFits
  <2>5. DeploysApart'
    BY <1>0, <2>1, <2>3, ApartKept
  <2> QED
    BY <1>1, <2>1, <2>3, <2>4, <2>5
<1>11. ASSUME NEW w \in Workers, MineSale(w) PROVE SellInv'
  <2> DEFINE n == Len(saleContracts) + 1
             c == work[w].more.token
  <2>1. /\ work[w].kind = "sale" /\ work[w].stage = "read"
        /\ work' = [work EXCEPT ![w].stage = "made", ![w].made = n]
        /\ saleContracts' = Append(saleContracts, c)
        /\ UNCHANGED <<tokens, sales, raced>>
    BY <1>11 DEF MineSale
  <2>2. c \in Nat
    BY <1>0, <2>1, WorkFacts DEF SaleWork
  <2>3. /\ n \in Nat /\ Len(saleContracts') = n /\ saleContracts'[n] = c
        /\ \A k \in 1..Len(saleContracts) : saleContracts'[k] = saleContracts[k]
    BY <1>0, <2>1, <2>2, AppendProperties DEF IssuanceTypes
  <2>4. /\ n \in 1..Len(saleContracts')
        /\ \A k \in 1..Len(saleContracts) : k \in 1..Len(saleContracts')
    BY <1>0, <2>3
  <2> HIDE DEF n
  <2>5. /\ work'[w].kind = "sale" /\ work'[w].what = work[w].what
        /\ work'[w].made = n /\ work'[w].more = work[w].more
        /\ \A v \in Workers \ {w} : work'[v] = work[v]
    BY <1>0, <2>1, <2>3, WorkMade
  <2>6. DeployFits(w)' /\ SaleFits(w)'
    <3>1. SaleFits(w)
      BY DEF SellInv
    <3>2. /\ work'[w].made \in 1..Len(saleContracts')
          /\ saleContracts'[work'[w].made] = work'[w].more.token
      BY <2>3, <2>4, <2>5
    <3> QED
      BY <1>r, <2>1, <2>5, <3>1, <3>2 DEF DeployFits, SaleFits
  <2>7. DeploysApart'
    BY <1>0, <2>1, <2>5, ApartKept
  <2> QED
    BY <1>0, <2>1, <2>3, <2>4, <2>5, <2>6, <2>7, SellKept
<1>12. ASSUME NEW w \in Workers, SaveSale(w) PROVE SellInv'
  <2>0. PICK s : s = work[w].what
    OBVIOUS
  <2>1. /\ Len(sales') = Len(sales)
        /\ UNCHANGED <<tokens, saleContracts, raced>>
        /\ work[w].kind = "sale" /\ work[w].stage = "made" /\ s \in 1..Len(sales)
        /\ sales'[s].contract_address = work[w].made
        /\ \A k \in 1..Len(sales) : /\ sales'[k].token = sales[k].token
                                    /\ k # s => sales'[k] = sales[k]
        /\ work' = [work EXCEPT ![w].stage = "saved"]
    BY <1>0, <1>12, <2>0, SaveSaleFacts
  <2>2. /\ work'[w].kind = "sale" /\ work'[w].what = s
        /\ work'[w].made = work[w].made /\ work'[w].more = work[w].more
        /\ \A v \in Workers \ {w} : work'[v] = work[v]
    BY <1>0, <2>0, <2>1, WorkSaved
  <2>3. SaleFits(w) /\ RowFits(s)
    BY <2>1 DEF SellInv
  <2>4. DeployFits(w)' /\ SaleFits(w)'
    <3>1. sales'[s].token = sales[s].token
      BY <2>1
    <3> QED
      BY <1>r, <2>0, <2>1, <2>2, <2>3, <3>1 DEF DeployFits, SaleFits
  <2>5. RowFits(s)'
    <3>1. sales'[s].token = sales[s].token
      BY <2>1
    <3> QED
      BY <1>r, <2>0, <2>1, <2>3, <3>1 DEF SaleFits, RowFits
  <2>6. DeploysApart'
    BY <1>0, <2>1, <2>2, ApartKept
  <2> QED
    BY <1>0, <2>1, <2>2, <2>4, <2>5, <2>6, SellKept
<1> QED
  BY <1>0, <1>2, <1>3, <1>4, <1>5, <1>6, <1>7, <1>8, <1>9, <1>10, <1>11, <1>12,
     SellInvSaveToken
     DEF IssuanceNext, issuanceVars, onboard_issuer, activate_issuer, revoke_issuer,
         SetStatus, AuditSale, Abandon

(* For any number of requests at a time, of which any may die after its    *)
(* contract was made: the contract a sale points at sells the contract its *)
(* token points at, unless two deployments of the token overlapped         *)
(* (deploy_contract and deploy_sale save what they read before the chain   *)
(* answered).                                                              *)
THEOREM IssuanceSaleSellsItsToken == IssuanceSpec => []SaleSellsItsToken
<1>1. IssuanceInit => SellInv
  <2> SUFFICES ASSUME IssuanceInit PROVE SellInv
    OBVIOUS
  <2>1. \A w \in Workers : work[w].kind = "none"
    BY DEF IssuanceInit, NoWork
  <2>2. sales = <<>> /\ \A t : Deploying(t) = {}
    BY <2>1 DEF IssuanceInit, Deploying
  <2> QED
    BY <2>1, <2>2, IssuanceTypesInit
       DEF SellInv, DeployFits, SaleFits, DeploysApart
<1>2. SellInv => SaleSellsItsToken
  <2> SUFFICES ASSUME SellInv, NEW s \in DOMAIN sales,
                      sales[s].contract_address # Undeployed,
                      ~Racing(sales[s].token)
               PROVE  saleContracts[sales[s].contract_address]
                        = tokens[sales[s].token].contract_address
    BY DEF SaleSellsItsToken, Racing
  <2>1. s \in 1..Len(sales)
    BY DEF SellInv, IssuanceTypes
  <2> QED
    BY <2>1 DEF SellInv, RowFits
<1> QED
  BY <1>1, <1>2, SellInvNext, PTL DEF IssuanceSpec

-----------------------------------------------------------------------------
(* Compliance actions, the requests that carry them, and the one           *)
(* transaction that may wait for them.                                     *)

FreezeAction  == [op : {"freeze", "unfreeze"}, token : BOOLEAN, from : Wallets]
ForcedAction  == [op : {"forced"}, from : Wallets, to : Wallets, amount : Nat]
RecoverAction == [op : {"recover"}, from : Wallets, amount : Nat]
PauseAction   == [op : {"pause", "unpause"}]

Action == FreezeAction \cup ForcedAction \cup RecoverAction \cup PauseAction

Effects == {"none", "executed", "reverted"}

Held == [stage : {"read", "built", "sent", "orphan", "replaced", "mined", "gone"},
         action : Action, was : BOOLEAN, nonce : Nat, effect : Effects]

TokenNamed(a) == a.op \in {"freeze", "unfreeze"} => a.token

Sending == {"read", "built", "sent", "orphan", "replaced"}

(* Only a transaction that was mined has an effect, and only an action on  *)
(* a token is sent.                                                        *)
DeskFits(d) ==
    /\ desk[d].stage \in {"sent", "orphan"} <=> pool = d
    /\ desk[d].stage \in Sending => desk[d].effect = "none" /\ TokenNamed(desk[d].action)
    /\ desk[d].stage = "gone" => desk[d].effect # "none"
    /\ desk[d].stage \in {"mined", "gone"} /\ desk[d].effect # "none"
         => TokenNamed(desk[d].action)

CompTypes ==
    /\ deployed \in BOOLEAN /\ is_paused \in BOOLEAN /\ paused \in BOOLEAN
    /\ frozen \in [Holders -> BOOLEAN]
    /\ frozenTokens \in [Holders -> Nat] /\ balance \in [Holders -> Nat]
    /\ nonce \in Nat /\ moves \in Nat
    /\ desk \in [Desks -> {Free} \cup Held]
    /\ pool \in Desks \cup {None}
    /\ \A d \in Desks : DeskFits(d)

LEMMA ActionFacts ==
    ASSUME NEW a \in Action
    PROVE  /\ a.op \in {"freeze", "unfreeze", "forced", "recover", "pause", "unpause"}
           /\ a.op \in {"freeze", "unfreeze"} => a \in FreezeAction /\ a.from \in Wallets
           /\ a.op = "forced" =>
                /\ a \in ForcedAction /\ a.from \in Wallets /\ a.to \in Wallets
                /\ a.amount \in Nat
           /\ a.op = "recover" =>
                a \in RecoverAction /\ a.from \in Wallets /\ a.amount \in Nat
BY DEF Action, FreezeAction, ForcedAction, RecoverAction, PauseAction

LEMMA HeldFacts ==
    ASSUME CompTypes, NEW d \in Desks
    PROVE  /\ desk[d].stage = "free" <=> desk[d] = Free
           /\ desk[d].stage # "free" => desk[d] \in Held
           /\ desk[d] \in Held =>
                /\ desk[d].action \in Action /\ desk[d].was \in BOOLEAN
                /\ desk[d].nonce \in Nat /\ desk[d].effect \in Effects
                /\ desk[d].stage \in {"read", "built", "sent", "orphan", "replaced",
                                      "mined", "gone"}
<1>1. desk[d] = Free \/ desk[d] \in Held
  BY DEF CompTypes
<1>2. desk[d] = Free => desk[d].stage = "free"
  BY DEF Free
<1>3. desk[d] \in Held =>
        /\ desk[d].action \in Action /\ desk[d].was \in BOOLEAN
        /\ desk[d].nonce \in Nat /\ desk[d].effect \in Effects
        /\ desk[d].stage \in {"read", "built", "sent", "orphan", "replaced",
                              "mined", "gone"}
  BY DEF Held
<1> QED
  BY <1>1, <1>2, <1>3

LEMMA WithFacts ==
    ASSUME NEW bag, NEW x
    PROVE  /\ DOMAIN With(bag, x) = DOMAIN bag \cup {x}
           /\ \A y : Copies(y, With(bag, x))
                       = Copies(y, bag) + (IF y = x THEN 1 ELSE 0)
BY DEF With, Copies, (+), SetToBag

(* One desk changes, and keeps its request.                                *)
Others(d) == \A e \in Desks \ {d} : desk'[e] = desk[e]

SameRequest(d) == /\ desk'[d].action = desk[d].action /\ desk'[d].was = desk[d].was

LEMMA RequestFacts ==
    ASSUME CompTypes, NEW d \in Desks, NEW actor, NEW require_issuer, NEW a \in Action,
           Request(d, actor, require_issuer, a)
    PROVE  /\ desk[d].stage = "free" /\ Others(d)
           /\ desk'[d] \in Held /\ desk'[d].action = a /\ desk'[d].effect = "none"
           /\ desk'[d].stage = IF OnChain(a) THEN "read" ELSE "mined"
           /\ desk'[d].was = (PauseOp(a) /\ is_paused)
           /\ UNCHANGED <<deployed, dbVars, chainVars, nonce, pool, moves, executed,
                          lost, recovered, burnt>>
           /\ drift \subseteq drift'
           /\ Overlaps(a) => drift' # {}
           /\ PauseOp(a) /\ ~deployed => drift' # {}
<1> DEFINE stage == IF OnChain(a) THEN "read" ELSE "mined"
           was == PauseOp(a) /\ is_paused
           r == [stage |-> stage, action |-> a, was |-> was, nonce |-> 0,
                 effect |-> "none"]
<1>1. /\ stage \in {"read", "mined"} /\ was \in BOOLEAN
  OBVIOUS
<1>2. desk' = [desk EXCEPT ![d] = r] /\ desk[d] = Free
  BY DEF Request
<1> HIDE DEF stage, was
<1>3. /\ r \in Held /\ r.action = a /\ r.effect = "none" /\ r.stage = stage
      /\ r.was = was
  BY <1>1 DEF Held, Effects
<1> HIDE DEF r
<1>4. desk'[d] = r /\ Others(d) /\ desk[d].stage = "free"
  BY <1>2, HeldFacts DEF CompTypes, Others
<1>5. /\ drift \subseteq drift' /\ (Overlaps(a) => drift' # {})
      /\ (PauseOp(a) /\ ~deployed => drift' # {})
  BY DEF Request
<1>6. UNCHANGED <<deployed, dbVars, chainVars, nonce, pool, moves, executed, lost,
                  recovered, burnt>>
  BY DEF Request
<1> QED
  BY <1>3, <1>4, <1>5, <1>6 DEF stage, was

LEMMA BuildFacts ==
    ASSUME CompTypes, NEW d \in Desks, Build(d)
    PROVE  /\ desk[d].stage = "read" /\ Others(d) /\ SameRequest(d)
           /\ desk'[d] \in Held /\ desk'[d].stage = "built"
           /\ desk'[d].effect = desk[d].effect
<1> DEFINE r == [desk[d] EXCEPT !.stage = "built", !.nonce = nonce]
<1>1. desk[d].stage = "read" /\ desk[d] \in Held /\ nonce \in Nat
  BY HeldFacts DEF Build, CompTypes
<1>2. desk' = [desk EXCEPT ![d] = r]
  BY DEF Build
<1>3. /\ r \in Held /\ r.stage = "built" /\ r.action = desk[d].action
      /\ r.was = desk[d].was /\ r.effect = desk[d].effect
  BY <1>1 DEF Held
<1> HIDE DEF r
<1>4. desk'[d] = r /\ Others(d)
  BY <1>2 DEF CompTypes, Others
<1> QED
  BY <1>1, <1>3, <1>4 DEF SameRequest

LEMMA SendFacts ==
    ASSUME CompTypes, NEW d \in Desks, Send(d)
    PROVE  /\ desk[d].stage = "built" /\ Executes(desk[d].action) /\ pool' = d
           /\ pool # d
           /\ desk'[d] \in Held /\ desk'[d].stage = "sent" /\ SameRequest(d)
           /\ desk'[d].effect = desk[d].effect
           /\ pool \in Desks =>
                /\ desk'[pool] \in Held /\ desk'[pool].stage = "replaced"
                /\ SameRequest(pool) /\ desk'[pool].effect = desk[pool].effect
           /\ \A e \in Desks \ {d, pool} : desk'[e] = desk[e]
           /\ desk' \in [Desks -> {Free} \cup Held]
<1>1. desk[d].stage = "built" /\ Executes(desk[d].action) /\ pool' = d
  BY DEF Send
<1>2. desk[d] \in Held /\ pool # d
  BY <1>1, HeldFacts DEF CompTypes, DeskFits
<1>3. desk' = [e \in Desks |->
                 IF e = d THEN [desk[d] EXCEPT !.stage = "sent"]
                 ELSE IF e = pool THEN [desk[e] EXCEPT !.stage = "replaced"]
                 ELSE desk[e]]
  BY DEF Send
<1>4. pool \in Desks => desk[pool] \in Held
  BY HeldFacts DEF CompTypes, DeskFits
<1> DEFINE r == [desk[d] EXCEPT !.stage = "sent"]
           q == [desk[pool] EXCEPT !.stage = "replaced"]
<1>5. /\ r \in Held /\ r.stage = "sent" /\ r.action = desk[d].action
      /\ r.was = desk[d].was /\ r.effect = desk[d].effect
  BY <1>2 DEF Held
<1>6. pool \in Desks => /\ q \in Held /\ q.stage = "replaced"
                        /\ q.action = desk[pool].action /\ q.was = desk[pool].was
                        /\ q.effect = desk[pool].effect
  BY <1>4 DEF Held
<1>7. /\ desk'[d] = r
      /\ pool \in Desks => desk'[pool] = q
      /\ \A e \in Desks \ {d, pool} : desk'[e] = desk[e]
      /\ desk' = [e \in Desks |-> desk'[e]]
  BY <1>2, <1>3
<1> HIDE DEF r, q
<1>8. ASSUME NEW e \in Desks PROVE desk'[e] \in {Free} \cup Held
  BY <1>5, <1>6, <1>7 DEF CompTypes
<1>9. desk' \in [Desks -> {Free} \cup Held]
  BY <1>7, <1>8
<1> QED
  BY <1>1, <1>2, <1>5, <1>6, <1>7, <1>9 DEF SameRequest

LEMMA FreedFacts ==
    ASSUME CompTypes, NEW d \in Desks, desk' = [desk EXCEPT ![d] = Free]
    PROVE  /\ desk'[d] = Free /\ desk'[d].stage = "free" /\ Others(d)
           /\ desk' \in [Desks -> {Free} \cup Held]
<1>1. Free.stage = "free"
  BY DEF Free
<1> QED
  BY <1>1 DEF CompTypes, Others

LEMMA OrphanFacts ==
    ASSUME CompTypes, NEW d \in Desks, desk[d].stage = "sent",
           desk' = [desk EXCEPT ![d].stage = "orphan"]
    PROVE  /\ desk'[d] \in Held /\ desk'[d].stage = "orphan" /\ SameRequest(d)
           /\ desk'[d].effect = desk[d].effect /\ Others(d)
<1> DEFINE r == [desk[d] EXCEPT !.stage = "orphan"]
<1>1. desk[d] \in Held
  BY HeldFacts
<1>2. /\ r \in Held /\ r.stage = "orphan" /\ r.action = desk[d].action
      /\ r.was = desk[d].was /\ r.effect = desk[d].effect
  BY <1>1 DEF Held
<1>3. desk'[d] = r /\ Others(d)
  BY DEF CompTypes, Others
<1> HIDE DEF r
<1> QED
  BY <1>2, <1>3 DEF SameRequest

(* The transaction of desk p is mined.                                     *)
LEMMA MineFacts ==
    ASSUME CompTypes, Mine
    PROVE  \E p \in Desks :
             LET a == desk[p].action IN
             /\ p = pool /\ pool' = None /\ desk[p] \in Held
             /\ desk[p].stage \in {"sent", "orphan"} /\ a \in Action
             /\ desk'[p] \in Held /\ SameRequest(p) /\ Others(p)
             /\ desk'[p].stage = IF desk[p].stage = "sent" THEN "mined" ELSE "gone"
             /\ \/ /\ Executes(a) /\ Call(a) /\ executed' = With(executed, a)
                   /\ desk'[p].effect = "executed"
                   /\ lost' = IF desk[p].stage = "orphan" THEN With(lost, a) ELSE lost
                \/ /\ ~Executes(a) /\ UNCHANGED <<chainVars, executed, lost>>
                   /\ desk'[p].effect = "reverted"
             /\ nonce' = nonce + 1
             /\ UNCHANGED <<deployed, dbVars, actions, moves, recovered, burnt, drift>>
<1>1. PICK p \in Desks : p = pool
  BY DEF Mine, CompTypes
<1> DEFINE a == desk[p].action
           effect == IF Executes(a) THEN "executed" ELSE "reverted"
           stage == IF desk[p].stage = "sent" THEN "mined" ELSE "gone"
           r == [desk[p] EXCEPT !.effect = effect, !.stage = stage]
<1>2. desk[p].stage \in {"sent", "orphan"}
  BY <1>1 DEF CompTypes, DeskFits
<1>3. desk[p] \in Held /\ a \in Action
  BY <1>2, HeldFacts
<1>4. desk' = [desk EXCEPT ![p] = r]
  <2>1. desk' = [desk EXCEPT ![p].effect = effect,
                   ![p].stage = IF @ = "sent" THEN "mined" ELSE "gone"]
    BY <1>1 DEF Mine
  <2> HIDE DEF effect
  <2> QED
    BY <1>3, <2>1 DEF CompTypes, Held
<1>5. effect \in Effects /\ stage \in {"mined", "gone"}
  BY DEF Effects
<1>6. /\ r \in Held /\ r.effect = effect /\ r.stage = stage
      /\ r.action = a /\ r.was = desk[p].was
  <2> HIDE DEF effect, stage
  <2> QED
    BY <1>3, <1>5 DEF Held
<1> HIDE DEF r
<1>7. desk'[p] = r /\ Others(p)
  BY <1>4 DEF CompTypes, Others
<1>8. SameRequest(p)
  BY <1>6, <1>7 DEF SameRequest
<1>9. /\ nonce' = nonce + 1 /\ pool' = None
      /\ UNCHANGED <<deployed, dbVars, actions, moves, recovered, burnt, drift>>
      /\ IF Executes(a) THEN Call(a) /\ executed' = With(executed, a)
                        ELSE UNCHANGED <<chainVars, executed>>
      /\ lost' = IF desk[p].stage = "orphan" /\ Executes(a) THEN With(lost, a) ELSE lost
  BY <1>1 DEF Mine
<1>10. \/ /\ Executes(a) /\ Call(a) /\ executed' = With(executed, a)
          /\ desk'[p].effect = "executed"
          /\ lost' = IF desk[p].stage = "orphan" THEN With(lost, a) ELSE lost
       \/ /\ ~Executes(a) /\ UNCHANGED <<chainVars, executed, lost>>
          /\ desk'[p].effect = "reverted"
  <2>1. CASE Executes(a)
    BY <1>6, <1>7, <1>9, <2>1
  <2>2. CASE ~Executes(a)
    BY <1>6, <1>7, <1>9, <2>2
  <2> QED
    BY <2>1, <2>2
<1> QED
  BY <1>1, <1>2, <1>3, <1>6, <1>7, <1>8, <1>9, <1>10

-----------------------------------------------------------------------------
(* The token contract.                                                     *)

LEMMA MoveFacts ==
    ASSUME NEW b \in [Holders -> Nat], NEW from \in Holders, NEW to \in Holders,
           NEW n \in Nat, b[from] >= n
    PROVE  /\ Move(b, from, to, n) \in [Holders -> Nat]
           /\ \A h \in Holders \ {from} : Move(b, from, to, n)[h] >= b[h]
           /\ from # to => /\ Move(b, from, to, n)[from] = b[from] - n
                           /\ Move(b, from, to, n)[to] = b[to] + n
           /\ from = to => Move(b, from, to, n)[from] = b[from]
BY DEF Move

(* What a call does to what is frozen and held: the flag of one wallet, or *)
(* a forced move that lifts as much of the frozen part as it takes.        *)
LEMMA CallFacts ==
    ASSUME CompTypes, NEW a \in Action, Executes(a), Call(a)
    PROVE  /\ paused' \in BOOLEAN /\ frozen' \in [Holders -> BOOLEAN]
           /\ frozenTokens' \in [Holders -> Nat] /\ balance' \in [Holders -> Nat]
           /\ \A h \in Holders :
                frozenTokens[h] <= balance[h] => frozenTokens'[h] <= balance'[h]
           /\ a.op \in {"freeze", "unfreeze"} =>
                /\ frozen'[a.from] = (a.op = "freeze")
                /\ \A h \in Holders \ {a.from} : frozen'[h] = frozen[h]
           /\ a.op \notin {"freeze", "unfreeze"} => frozen' = frozen
           /\ PauseOp(a) => paused' = (a.op = "pause") /\ paused = (a.op = "unpause")
           /\ ~PauseOp(a) => paused' = paused
<1>1. CASE a.op \in {"freeze", "unfreeze"}
  <2>1. setAddressFrozen(a)
    BY <1>1 DEF Call
  <2>2. a.from \in Holders
    BY <1>1, ActionFacts DEF Holders
  <2> QED
    BY <1>1, <2>1, <2>2 DEF setAddressFrozen, CompTypes, PauseOp
<1>2. CASE a.op \in {"pause", "unpause"}
  <2>1. setPaused(a) /\ (a.op = "pause" => ~paused) /\ (a.op = "unpause" => paused)
    BY <1>2 DEF Call, Executes
  <2> QED
    BY <1>2, <2>1 DEF setPaused, CompTypes, PauseOp
<1>3. CASE a.op \in {"forced", "recover"}
  <2> DEFINE f == a.from
             n == a.amount
             t == Target(a)
  <2>1. /\ forcedTransfer(a) /\ balance[f] >= n /\ ~PauseOp(a)
        /\ a.op \notin {"freeze", "unfreeze"}
    BY <1>3 DEF Call, Executes, PauseOp
  <2>2. f \in Holders /\ n \in Nat /\ t \in Holders
    BY <1>3, ActionFacts DEF Holders, Target
  <2>3. /\ frozenTokens' =
             [frozenTokens EXCEPT ![f] = frozenTokens[f] - Min(frozenTokens[f], n)]
        /\ balance' = Move(balance, f, t, n) /\ UNCHANGED <<paused, frozen>>
    BY <2>1 DEF forcedTransfer
  <2> HIDE DEF f, n, t
  <2>4. /\ balance' \in [Holders -> Nat]
        /\ \A h \in Holders \ {f} : balance'[h] >= balance[h]
        /\ balance'[f] = balance[f] - n \/ balance'[f] = balance[f]
    <3> DEFINE m == Move(balance, f, t, n)
    <3>1. balance \in [Holders -> Nat] /\ balance[f] >= n
      BY <2>1 DEF CompTypes
    <3>2. /\ m \in [Holders -> Nat]
          /\ \A h \in Holders \ {f} : m[h] >= balance[h]
      BY <2>2, <3>1, MoveFacts
    <3>3. m[f] = balance[f] - n \/ m[f] = balance[f]
      BY <2>2, <3>1, MoveFacts
    <3> HIDE DEF m
    <3>4. balance' = m
      BY <2>3 DEF m
    <3> QED
      BY <3>2, <3>3, <3>4
  <2>5. /\ frozenTokens' \in [Holders -> Nat]
        /\ \A h \in Holders \ {f} : frozenTokens'[h] = frozenTokens[h]
        /\ frozenTokens'[f] = frozenTokens[f] - Min(frozenTokens[f], n)
    BY <2>2, <2>3 DEF CompTypes, Min
  <2>6. ASSUME NEW h \in Holders, frozenTokens[h] <= balance[h]
        PROVE  frozenTokens'[h] <= balance'[h]
    <3>1. /\ frozenTokens[h] \in Nat /\ balance[h] \in Nat /\ balance'[h] \in Nat
          /\ frozenTokens'[h] \in Nat
      BY <2>4, <2>5 DEF CompTypes
    <3>2. CASE h # f
      BY <2>4, <2>5, <2>6, <3>1, <3>2
    <3>3. CASE h = f
      BY <2>1, <2>2, <2>4, <2>5, <2>6, <3>1, <3>3 DEF Min, f, n
    <3> QED
      BY <3>2, <3>3
  <2> QED
    BY <2>1, <2>3, <2>4, <2>5, <2>6 DEF CompTypes
<1> QED
  BY <1>1, <1>2, <1>3, ActionFacts

ChainTypes ==
    /\ paused \in BOOLEAN /\ frozen \in [Holders -> BOOLEAN]
    /\ frozenTokens \in [Holders -> Nat] /\ balance \in [Holders -> Nat]

(* What holders and other agents do directly.                              *)
Direct(h, g, n) == \/ Transfer(h, g, n) \/ recoveryAddress(h, g)
                   \/ freezePartialTokens(h, n) \/ burn(h, n)

LEMMA DirectFacts ==
    ASSUME CompTypes, NEW h \in Wallets, NEW g \in Wallets, NEW n \in Nat,
           Direct(h, g, n)
    PROVE  /\ ChainTypes' /\ moves' = moves + 1 /\ UNCHANGED paused
           /\ UNCHANGED <<deployed, dbVars, desk, nonce, pool, executed, lost, drift>>
           /\ recovered \subseteq recovered'
           /\ \A x \in Holders : frozen[x] => frozen'[x] \/ x \in recovered'
           /\ FrozenWithinBalance => FrozenWithinBalance'
<1>1. /\ h \in Holders /\ g \in Holders /\ balance[h] \in Nat /\ balance[g] \in Nat
      /\ frozenTokens[h] \in Nat /\ frozenTokens[g] \in Nat
      /\ frozenTokens \in [Holders -> Nat] /\ balance \in [Holders -> Nat]
      /\ frozen \in [Holders -> BOOLEAN] /\ paused \in BOOLEAN
  BY DEF Holders, CompTypes
<1>2. /\ moves' = moves + 1 /\ UNCHANGED paused
      /\ UNCHANGED <<deployed, dbVars, desk, nonce, pool, executed, lost, drift>>
  BY DEF Direct, Transfer, recoveryAddress, freezePartialTokens, burn, Directly
<1>3. CASE Transfer(h, g, n)
  <2> DEFINE m == Move(balance, h, g, n)
  <2>1. /\ balance' = m /\ balance[h] >= frozenTokens[h] + n
        /\ UNCHANGED <<paused, frozen, frozenTokens, recovered, burnt>>
    BY <1>3 DEF Transfer
  <2>2. balance[h] >= n
    BY <1>1, <2>1
  <2>3. /\ m \in [Holders -> Nat]
        /\ \A x \in Holders \ {h} : m[x] >= balance[x]
        /\ m[h] = balance[h] - n \/ m[h] = balance[h]
    BY <1>1, <2>2, MoveFacts
  <2> HIDE DEF m
  <2>4. ASSUME NEW x \in Holders, frozenTokens[x] <= balance[x]
        PROVE  frozenTokens[x] <= m[x]
    <3>1. frozenTokens[x] \in Nat /\ balance[x] \in Nat /\ m[x] \in Nat
      BY <1>1, <2>3
    <3>2. CASE x # h
      BY <2>3, <2>4, <3>1, <3>2
    <3>3. CASE x = h
      BY <1>1, <2>1, <2>3, <2>4, <3>1, <3>3
    <3> QED
      BY <3>2, <3>3
  <2> QED
    BY <1>1, <1>2, <2>1, <2>3, <2>4 DEF ChainTypes, FrozenWithinBalance
<1>4. CASE freezePartialTokens(h, n)
  <2>1. /\ balance[h] >= frozenTokens[h] + n
        /\ frozenTokens' = [frozenTokens EXCEPT ![h] = frozenTokens[h] + n]
        /\ UNCHANGED <<paused, frozen, balance, recovered, burnt>>
    BY <1>4 DEF freezePartialTokens
  <2> QED
    BY <1>1, <1>2, <2>1 DEF ChainTypes, FrozenWithinBalance
<1>5. CASE burn(h, n)
  <2>1. /\ balance[h] >= n
        /\ balance' = [balance EXCEPT ![h] = balance[h] - n]
        /\ burnt' = burnt \cup {h}
        /\ UNCHANGED <<paused, frozen, frozenTokens, recovered>>
    BY <1>5 DEF burn
  <2>2. balance' \in [Holders -> Nat]
    BY <1>1, <2>1
  <2> QED
    BY <1>1, <1>2, <2>1, <2>2 DEF ChainTypes, FrozenWithinBalance
<1>6. CASE recoveryAddress(h, g)
  <2> DEFINE m == Move(balance, h, g, balance[h])
             t == frozenTokens'
  <2>1. /\ balance' = m /\ h # g
        /\ t = IF frozenTokens[h] > 0
                 THEN [frozenTokens EXCEPT ![g] = frozenTokens[h], ![h] = 0]
                 ELSE frozenTokens
        /\ frozen' = IF frozen[h] THEN [frozen EXCEPT ![g] = TRUE, ![h] = FALSE]
                                  ELSE frozen
        /\ recovered' = recovered \cup {h}
        /\ burnt' = IF h \in burnt THEN burnt \cup {g} ELSE burnt
    BY <1>6 DEF recoveryAddress
  <2>2. /\ m \in [Holders -> Nat]
        /\ \A x \in Holders \ {h} : m[x] >= balance[x]
        /\ m[h] = 0 /\ m[g] = balance[g] + balance[h]
    BY <1>1, <2>1, MoveFacts
  <2>3. /\ t \in [Holders -> Nat] /\ t[h] = 0
        /\ t[g] = frozenTokens[h] \/ (frozenTokens[h] = 0 /\ t[g] = frozenTokens[g])
        /\ \A x \in Holders \ {h, g} : t[x] = frozenTokens[x]
    BY <1>1, <2>1
  <2> HIDE DEF m, t
  <2>4. /\ frozen' \in [Holders -> BOOLEAN]
        /\ \A x \in Holders : frozen[x] => frozen'[x] \/ x = h
    BY <1>1, <2>1
  <2>5. ASSUME FrozenWithinBalance, NEW x \in Holders, x \notin burnt'
        PROVE  t[x] <= m[x]
    <3>1. x \notin burnt /\ frozenTokens[x] <= balance[x]
      BY <2>1, <2>5 DEF FrozenWithinBalance
    <3>2. CASE x = h
      BY <2>2, <2>3, <3>2
    <3>3. CASE x = g
      <4>1. h \notin burnt /\ frozenTokens[h] <= balance[h]
        BY <1>1, <2>1, <2>5, <3>3 DEF FrozenWithinBalance
      <4> QED
        BY <1>1, <2>2, <2>3, <3>1, <3>3, <4>1
    <3>4. CASE x \notin {h, g}
      <4>1. frozenTokens[x] \in Nat /\ balance[x] \in Nat /\ m[x] \in Nat
        BY <1>1, <2>2
      <4> QED
        BY <2>2, <2>3, <3>1, <3>4, <4>1
    <3> QED
      BY <3>2, <3>3, <3>4
  <2> QED
    BY <1>1, <1>2, <2>1, <2>2, <2>3, <2>4, <2>5
       DEF ChainTypes, FrozenWithinBalance, t
<1> QED
  BY <1>3, <1>4, <1>5, <1>6 DEF Direct

(* What a request can ask for.                                             *)
Asked(d, a) == \E actor, require_issuer : Request(d, actor, require_issuer, a)

(* Every step is a request, a step of one desk, a transaction mined, the   *)
(* deployment, or something done directly.                                 *)
LEMMA ComplianceSteps ==
    ASSUME ComplianceNext
    PROVE  \/ \E d \in Desks, a \in Action : Asked(d, a)
           \/ \E d \in Desks : \/ Build(d) \/ Send(d) \/ Refused(d) \/ Die(d)
                               \/ Gone(d) \/ Commit(d)
           \/ Mine \/ Deploy
           \/ \E h, g \in Wallets, n \in Nat : Direct(h, g, n)
<1>0. 1..Supply \subseteq Nat
  BY ComplianceAssumption
<1>1. ASSUME NEW d \in Desks, NEW actor \in Actors, NEW w \in Wallets, NEW t \in BOOLEAN,
             freeze_address(d, actor, w, t) \/ unfreeze_address(d, actor, w, t)
      PROVE  \E a \in Action : Asked(d, a)
  <2> DEFINE f == [op |-> "freeze", token |-> t, from |-> w]
             u == [op |-> "unfreeze", token |-> t, from |-> w]
  <2>1. f \in Action /\ u \in Action
    BY DEF Action, FreezeAction
  <2>2. Request(d, actor, FALSE, f) \/ Request(d, actor, FALSE, u)
    BY <1>1 DEF freeze_address, unfreeze_address
  <2> HIDE DEF f, u
  <2> QED
    BY <2>1, <2>2 DEF Asked
<1>2. ASSUME NEW d \in Desks, NEW actor \in Actors, NEW w \in Wallets,
             NEW n \in 1..Supply,
             recover_tokens(d, actor, w, n)
      PROVE  \E a \in Action : Asked(d, a)
  <2> DEFINE r == [op |-> "recover", from |-> w, amount |-> n]
  <2>1. r \in Action
    BY <1>0 DEF Action, RecoverAction
  <2>2. Request(d, actor, TRUE, r)
    BY <1>2 DEF recover_tokens
  <2> HIDE DEF r
  <2> QED
    BY <2>1, <2>2 DEF Asked
<1>3. ASSUME NEW d \in Desks, NEW actor \in Actors, NEW w \in Wallets, NEW to \in Wallets,
             NEW n \in 1..Supply, forced_transfer(d, actor, w, to, n)
      PROVE  \E a \in Action : Asked(d, a)
  <2> DEFINE r == [op |-> "forced", from |-> w, to |-> to, amount |-> n]
  <2>1. r \in Action
    BY <1>0 DEF Action, ForcedAction
  <2>2. Request(d, actor, TRUE, r)
    BY <1>3 DEF forced_transfer
  <2> HIDE DEF r
  <2> QED
    BY <2>1, <2>2 DEF Asked
<1>4. ASSUME NEW d \in Desks, NEW actor \in Actors,
             pause_token(d, actor) \/ unpause_token(d, actor)
      PROVE  \E a \in Action : Asked(d, a)
  <2> DEFINE f == [op |-> "pause"]
             u == [op |-> "unpause"]
  <2>1. f \in Action /\ u \in Action
    BY DEF Action, PauseAction
  <2>2. Request(d, actor, TRUE, f) \/ Request(d, actor, TRUE, u)
    BY <1>4 DEF pause_token, unpause_token
  <2> HIDE DEF f, u
  <2> QED
    BY <2>1, <2>2 DEF Asked
<1>5. ASSUME NEW h \in Wallets, NEW g \in Wallets, recoveryAddress(h, g)
      PROVE  \E n \in Nat : Direct(h, g, n)
  BY <1>5 DEF Direct
<1>6. ASSUME NEW h \in Wallets, NEW n \in 1..Supply,
             freezePartialTokens(h, n) \/ burn(h, n)
      PROVE  \E g \in Wallets, m \in Nat : Direct(h, g, m)
  BY <1>0, <1>6 DEF Direct
<1>7. ASSUME NEW h \in Wallets, NEW g \in Wallets, NEW n \in 1..Supply, Transfer(h, g, n)
      PROVE  \E m \in Nat : Direct(h, g, m)
  BY <1>0, <1>7 DEF Direct
<1> QED
  BY <1>1, <1>2, <1>3, <1>4, <1>5, <1>6, <1>7 DEF ComplianceNext

-----------------------------------------------------------------------------
(* The types, and which desk holds the pool.                               *)

LEMMA NotADesk == None \notin Desks
BY ComplianceAssumption DEF None

(* One desk d changed and the others are as they were.                     *)
LEMMA DeskKept ==
    ASSUME CompTypes, NEW d \in Desks, Others(d), desk' = [e \in Desks |-> desk'[e]],
           desk'[d] \in {Free} \cup Held, pool' \in Desks \cup {None},
           \A e \in Desks \ {d} : pool' = e <=> pool = e,
           DeskFits(d)'
    PROVE  /\ desk' \in [Desks -> {Free} \cup Held]
           /\ \A e \in Desks : DeskFits(e)'
<1>1. ASSUME NEW e \in Desks PROVE desk'[e] \in {Free} \cup Held
  BY DEF CompTypes, Others
<1>2. ASSUME NEW e \in Desks, e # d PROVE DeskFits(e)'
  <2>1. desk'[e] = desk[e] /\ DeskFits(e) /\ (pool' = e <=> pool = e)
    BY <1>2 DEF Others, CompTypes
  <2> QED
    BY <2>1 DEF DeskFits
<1> QED
  BY <1>1, <1>2

LEMMA AskedTypes ==
    ASSUME CompTypes, NEW d \in Desks, NEW a \in Action, Asked(d, a)
    PROVE  CompTypes'
<1>1. PICK actor, require_issuer : Request(d, actor, require_issuer, a)
  BY DEF Asked
<1>2. /\ desk[d].stage = "free" /\ Others(d)
      /\ desk'[d] \in Held /\ desk'[d].action = a /\ desk'[d].effect = "none"
      /\ desk'[d].stage = IF OnChain(a) THEN "read" ELSE "mined"
      /\ UNCHANGED <<deployed, dbVars, chainVars, nonce, pool, moves>>
  BY <1>1, RequestFacts
<1>3. desk' = [e \in Desks |-> desk'[e]]
  BY <1>1 DEF Request, CompTypes
<1>4. DeskFits(d)'
  <2>1. (OnChain(a) => TokenNamed(a)) /\ pool' # d
    BY <1>2 DEF DeskFits, OnChain, TokenNamed, CompTypes
  <2> QED
    BY <1>2, <2>1 DEF DeskFits, Sending
<1>5. pool' = pool /\ pool \in Desks \cup {None}
  BY <1>2 DEF CompTypes
<1>6. desk' \in [Desks -> {Free} \cup Held] /\ \A e \in Desks : DeskFits(e)'
  BY <1>2, <1>3, <1>4, <1>5, DeskKept
<1> QED
  BY <1>2, <1>6 DEF CompTypes, dbVars, chainVars

LEMMA BuildTypes ==
    ASSUME CompTypes, NEW d \in Desks, Build(d)
    PROVE  CompTypes'
<1>1. /\ desk[d].stage = "read" /\ Others(d) /\ SameRequest(d)
      /\ desk'[d] \in Held /\ desk'[d].stage = "built"
      /\ desk'[d].effect = desk[d].effect
  BY BuildFacts
<1>2. UNCHANGED <<deployed, dbVars, chainVars, nonce, pool, moves>>
  BY DEF Build
<1>3. desk' = [e \in Desks |-> desk'[e]]
  BY DEF Build, CompTypes
<1>4. DeskFits(d)'
  BY <1>1, <1>2 DEF DeskFits, SameRequest, TokenNamed, CompTypes, Sending
<1>5. pool' = pool /\ pool \in Desks \cup {None}
  BY <1>2 DEF CompTypes
<1>6. desk' \in [Desks -> {Free} \cup Held] /\ \A e \in Desks : DeskFits(e)'
  BY <1>1, <1>3, <1>4, <1>5, DeskKept
<1> QED
  BY <1>2, <1>6 DEF CompTypes, dbVars, chainVars

LEMMA SendTypes ==
    ASSUME CompTypes, NEW d \in Desks, Send(d)
    PROVE  CompTypes'
<1>1. /\ desk[d].stage = "built" /\ pool' = d /\ pool # d
      /\ desk'[d].stage = "sent" /\ SameRequest(d)
      /\ desk'[d].effect = desk[d].effect
      /\ pool \in Desks =>
           /\ desk'[pool].stage = "replaced"
           /\ SameRequest(pool) /\ desk'[pool].effect = desk[pool].effect
      /\ \A e \in Desks \ {d, pool} : desk'[e] = desk[e]
      /\ desk' \in [Desks -> {Free} \cup Held]
  BY SendFacts
<1>2. UNCHANGED <<deployed, dbVars, chainVars, nonce, moves>>
  BY DEF Send
<1>3. ASSUME NEW e \in Desks PROVE DeskFits(e)'
  <2>1. CASE e = d
    BY <1>1, <2>1 DEF DeskFits, SameRequest, TokenNamed, CompTypes, Sending
  <2>2. CASE e = pool
    BY <1>1, <2>2 DEF DeskFits, SameRequest, TokenNamed, CompTypes, Sending
  <2>3. CASE e \notin {d, pool}
    BY <1>1, <2>3 DEF DeskFits, CompTypes
  <2> QED
    BY <2>1, <2>2, <2>3
<1> QED
  BY <1>1, <1>2, <1>3 DEF CompTypes, dbVars, chainVars

(* A desk that holds no transaction in the pool is given up.               *)
LEMMA FreedTypes ==
    ASSUME CompTypes, NEW d \in Desks, desk' = [desk EXCEPT ![d] = Free], pool # d,
           UNCHANGED <<deployed, chainVars, nonce, pool, moves>>, is_paused' \in BOOLEAN
    PROVE  CompTypes'
<1>1. /\ desk'[d] = Free /\ desk'[d].stage = "free" /\ Others(d)
      /\ desk' \in [Desks -> {Free} \cup Held]
  BY FreedFacts
<1>2. ASSUME NEW e \in Desks PROVE DeskFits(e)'
  <2>1. CASE e = d
    BY <1>1, <2>1 DEF DeskFits, Sending
  <2>2. CASE e # d
    BY <1>1, <2>2 DEF DeskFits, CompTypes, Others
  <2> QED
    BY <2>1, <2>2
<1> QED
  BY <1>1, <1>2 DEF CompTypes, chainVars

LEMMA DieTypes ==
    ASSUME CompTypes, NEW d \in Desks, Die(d)
    PROVE  CompTypes'
<1>1. UNCHANGED <<deployed, dbVars, chainVars, nonce, pool, moves>>
  BY DEF Die
<1>2. CASE desk[d].stage = "sent"
  <2>1. desk' = [desk EXCEPT ![d].stage = "orphan"]
    BY <1>2 DEF Die
  <2>2. /\ desk'[d] \in Held /\ desk'[d].stage = "orphan" /\ SameRequest(d)
        /\ desk'[d].effect = desk[d].effect /\ Others(d)
    BY <1>2, <2>1, OrphanFacts
  <2>3. desk' = [e \in Desks |-> desk'[e]]
    BY <2>1 DEF CompTypes
  <2>4. DeskFits(d)'
    BY <1>1, <1>2, <2>2 DEF DeskFits, SameRequest, TokenNamed, CompTypes, Sending
  <2>5. pool' = pool /\ pool \in Desks \cup {None}
    BY <1>1 DEF CompTypes
  <2>6. desk' \in [Desks -> {Free} \cup Held] /\ \A e \in Desks : DeskFits(e)'
    BY <2>2, <2>3, <2>4, <2>5, DeskKept
  <2> QED
    BY <1>1, <2>6 DEF CompTypes, dbVars, chainVars
<1>3. CASE desk[d].stage # "sent"
  <2>1. desk' = [desk EXCEPT ![d] = Free] /\ desk[d].stage \in {"mined", "replaced"}
    BY <1>3 DEF Die
  <2>2. pool # d /\ is_paused' \in BOOLEAN
    BY <1>1, <2>1 DEF CompTypes, DeskFits, dbVars
  <2> QED
    BY <1>1, <2>1, <2>2, FreedTypes
<1> QED
  BY <1>2, <1>3

LEMMA MineTypes ==
    ASSUME CompTypes, Mine
    PROVE  CompTypes'
<1>1. PICK p \in Desks :
        /\ p = pool /\ pool' = None /\ desk[p].action \in Action
        /\ desk[p].stage \in {"sent", "orphan"}
        /\ desk'[p] \in Held /\ SameRequest(p) /\ Others(p)
        /\ desk'[p].stage = IF desk[p].stage = "sent" THEN "mined" ELSE "gone"
        /\ \/ /\ Executes(desk[p].action) /\ Call(desk[p].action)
              /\ desk'[p].effect = "executed"
           \/ UNCHANGED chainVars /\ desk'[p].effect = "reverted"
        /\ nonce' = nonce + 1
        /\ UNCHANGED <<deployed, dbVars, actions, moves, recovered, burnt, drift>>
  BY MineFacts
<1>2. desk' = [e \in Desks |-> desk'[e]]
  BY DEF Mine, CompTypes
<1>3. DeskFits(p)'
  BY <1>1, NotADesk DEF DeskFits, SameRequest, TokenNamed, CompTypes, Sending
<1>4. pool' \in Desks \cup {None} /\ \A e \in Desks \ {p} : pool' = e <=> pool = e
  BY <1>1, NotADesk
<1>5. desk' \in [Desks -> {Free} \cup Held] /\ \A e \in Desks : DeskFits(e)'
  BY <1>1, <1>2, <1>3, <1>4, DeskKept
<1>6. ChainTypes'
  <2>1. CASE Executes(desk[p].action) /\ Call(desk[p].action)
    BY <1>1, <2>1, CallFacts DEF ChainTypes
  <2>2. CASE UNCHANGED chainVars
    BY <2>2 DEF CompTypes, ChainTypes, chainVars
  <2> QED
    BY <1>1, <2>1, <2>2
<1> QED
  BY <1>1, <1>4, <1>5, <1>6 DEF CompTypes, ChainTypes, dbVars

LEMMA CommitTypes ==
    ASSUME CompTypes, NEW d \in Desks, Commit(d)
    PROVE  CompTypes'
<1>1. /\ desk' = [desk EXCEPT ![d] = Free] /\ desk[d].stage = "mined"
      /\ UNCHANGED <<deployed, chainVars, nonce, pool, moves>>
  BY DEF Commit
<1>2. is_paused' \in BOOLEAN
  BY DEF Commit, CompTypes
<1>3. pool # d
  BY <1>1 DEF CompTypes, DeskFits
<1> QED
  BY <1>1, <1>2, <1>3, FreedTypes

(* A request that raised: refused by the node, or its wait ran out.        *)
LEMMA RaisedTypes ==
    ASSUME CompTypes, NEW d \in Desks, Refused(d) \/ Gone(d)
    PROVE  CompTypes'
<1>1. /\ desk' = [desk EXCEPT ![d] = Free] /\ desk[d].stage \in {"read", "built", "gone"}
      /\ UNCHANGED <<deployed, dbVars, chainVars, nonce, pool, moves>>
  BY DEF Refused, Gone, Raise
<1>2. pool # d /\ is_paused' \in BOOLEAN
  BY <1>1 DEF CompTypes, DeskFits, dbVars
<1> QED
  BY <1>1, <1>2, FreedTypes

LEMMA CompTypesNext ==
    ASSUME CompTypes, [ComplianceNext]_compVars
    PROVE  CompTypes'
<1>1. CASE ComplianceNext
  <2>1. ASSUME Deploy PROVE CompTypes'
    BY <2>1 DEF Deploy, CompTypes, DeskFits, dbVars, chainVars
  <2>2. ASSUME NEW h \in Wallets, NEW g \in Wallets, NEW n \in Nat, Direct(h, g, n)
        PROVE  CompTypes'
    <3>1. /\ ChainTypes' /\ moves' = moves + 1
          /\ UNCHANGED <<deployed, dbVars, desk, nonce, pool>>
      BY <2>2, DirectFacts
    <3> QED
      BY <3>1 DEF CompTypes, ChainTypes, DeskFits, dbVars
  <2> QED
    BY <1>1, <2>1, <2>2, ComplianceSteps, AskedTypes, BuildTypes, SendTypes, DieTypes,
       MineTypes, CommitTypes, RaisedTypes
<1>2. CASE UNCHANGED compVars
  BY <1>2 DEF CompTypes, DeskFits, compVars, dbVars, chainVars
<1> QED
  BY <1>1, <1>2

LEMMA CompTypesInit ==
    ASSUME ComplianceInit PROVE CompTypes
<1>1. Free.stage = "free"
  BY DEF Free
<1>2. ASSUME NEW d \in Desks PROVE DeskFits(d)
  BY <1>1, NotADesk DEF ComplianceInit, DeskFits, Sending
<1> QED
  BY <1>2, ComplianceAssumption DEF ComplianceInit, CompTypes

-----------------------------------------------------------------------------
(* FrozenWithinBalance.                                                    *)

(* A request reaches the chain only when its transaction is mined.         *)
LEMMA OffChain ==
    ASSUME NEW d \in Desks, NEW a,
           \/ Asked(d, a) \/ Build(d) \/ Send(d) \/ Refused(d) \/ Die(d) \/ Gone(d)
           \/ Commit(d) \/ Deploy
    PROVE  UNCHANGED <<chainVars, moves, executed, recovered, burnt>>
BY DEF Asked, Request, Build, Send, Refused, Raise, Die, Gone, Commit, Deploy, chainVars

LEMMA FrozenNext ==
    ASSUME CompTypes, FrozenWithinBalance, [ComplianceNext]_compVars
    PROVE  FrozenWithinBalance'
<1>1. ASSUME UNCHANGED <<chainVars, burnt>> PROVE FrozenWithinBalance'
  BY <1>1 DEF FrozenWithinBalance, chainVars
<1>2. ASSUME Mine PROVE FrozenWithinBalance'
  <2>1. PICK p \in Desks :
          /\ desk[p].action \in Action
          /\ \/ Executes(desk[p].action) /\ Call(desk[p].action)
             \/ UNCHANGED chainVars
          /\ UNCHANGED burnt
    BY <1>2, MineFacts
  <2>2. CASE Executes(desk[p].action) /\ Call(desk[p].action)
    <3>1. \A h \in Holders :
            frozenTokens[h] <= balance[h] => frozenTokens'[h] <= balance'[h]
      BY <2>1, <2>2, CallFacts
    <3> QED
      BY <2>1, <3>1 DEF FrozenWithinBalance
  <2> QED
    BY <1>1, <2>1, <2>2
<1>3. ASSUME NEW h \in Wallets, NEW g \in Wallets, NEW n \in Nat, Direct(h, g, n)
      PROVE  FrozenWithinBalance'
  BY <1>3, DirectFacts
<1>4. CASE ComplianceNext
  <2>1. ASSUME NEW d \in Desks, NEW a,
               \/ Asked(d, a) \/ Build(d) \/ Send(d) \/ Refused(d) \/ Die(d) \/ Gone(d)
               \/ Commit(d)
        PROVE  UNCHANGED <<chainVars, burnt>>
    BY <2>1, OffChain
  <2>2. ASSUME Deploy PROVE UNCHANGED <<chainVars, burnt>>
    BY <2>2 DEF Deploy
  <2> QED
    BY <1>1, <1>2, <1>3, <1>4, <2>1, <2>2, ComplianceSteps
<1>5. CASE UNCHANGED compVars
  BY <1>1, <1>5 DEF compVars
<1> QED
  BY <1>4, <1>5

(* Whatever is transferred, forced out, recovered or frozen, and however   *)
(* the requests interleave, no wallet that nothing was burnt from has more *)
(* frozen than it holds: CiretaToken.sol never leaves a holder whose free  *)
(* balance underflows.                                                     *)
THEOREM ComplianceFrozenWithinBalance == ComplianceSpec => []FrozenWithinBalance
<1>1. ComplianceInit => CompTypes /\ FrozenWithinBalance
  <2>1. ComplianceInit => FrozenWithinBalance
    BY ComplianceAssumption DEF ComplianceInit, FrozenWithinBalance
  <2> QED
    BY <2>1, CompTypesInit
<1>2. CompTypes /\ FrozenWithinBalance /\ [ComplianceNext]_compVars
        => (CompTypes /\ FrozenWithinBalance)'
  BY CompTypesNext, FrozenNext
<1> QED
  BY <1>1, <1>2, PTL DEF ComplianceSpec

-----------------------------------------------------------------------------
(* RevertsAreForeign.                                                      *)

(* Until somebody moves tokens directly, what waits in the pool is still   *)
(* accepted by the contract.                                               *)
RevertInv ==
    moves = 0 =>
      /\ pool \in Desks => Executes(desk[pool].action)
      /\ \A d \in Desks : desk[d].stage \in {"mined", "gone"}
                            => desk[d].effect # "reverted"
      /\ \A e \in DOMAIN audit : e.effect # "reverted"

LEMMA RevertNext ==
    ASSUME CompTypes, RevertInv, [ComplianceNext]_compVars
    PROVE  RevertInv'
<1> SUFFICES ASSUME moves' = 0
             PROVE  /\ pool' \in Desks => Executes(desk[pool].action)'
                    /\ \A d \in Desks : desk'[d].stage \in {"mined", "gone"}
                                          => desk'[d].effect # "reverted"
                    /\ \A e \in DOMAIN audit' : e.effect # "reverted"
  BY DEF RevertInv
<1> DEFINE Goal == /\ pool' \in Desks => Executes(desk[pool].action)'
                   /\ \A d \in Desks : desk'[d].stage \in {"mined", "gone"}
                                         => desk'[d].effect # "reverted"
                   /\ \A e \in DOMAIN audit' : e.effect # "reverted"
<1>1. ASSUME NEW d \in Desks, NEW a \in Action, Asked(d, a) PROVE Goal
  <2>1. UNCHANGED <<chainVars, moves>>
    BY <1>1, OffChain
  <2>2. PICK actor, require_issuer : Request(d, actor, require_issuer, a)
    BY <1>1 DEF Asked
  <2>3. /\ desk[d].stage = "free" /\ Others(d) /\ desk'[d].effect = "none"
        /\ UNCHANGED <<pool, audit>>
    BY <2>2, RequestFacts DEF dbVars
  <2>4. pool' \in Desks => pool # d
    BY <2>3 DEF CompTypes, DeskFits
  <2>5. pool' \in Desks => Executes(desk[pool].action)'
    <3>1. pool \in Desks => desk'[pool] = desk[pool] /\ Executes(desk[pool].action)
      BY <2>1, <2>3, <2>4 DEF RevertInv, Others
    <3> QED
      BY <2>1, <2>3, <3>1 DEF Executes, chainVars
  <2> QED
    BY <2>1, <2>3, <2>5 DEF RevertInv, Others
<1>2. ASSUME NEW d \in Desks, Build(d) PROVE Goal
  <2>1. UNCHANGED <<chainVars, moves, audit, pool>>
    BY <1>2 DEF Build, dbVars
  <2>2. /\ desk[d].stage = "read" /\ Others(d) /\ desk'[d].stage = "built"
    BY <1>2, BuildFacts
  <2>3. pool # d
    BY <2>2 DEF CompTypes, DeskFits
  <2>4. pool \in Desks => desk'[pool] = desk[pool] /\ Executes(desk[pool].action)
    BY <2>1, <2>2, <2>3 DEF RevertInv, Others
  <2>5. pool' \in Desks => Executes(desk[pool].action)'
    BY <2>1, <2>4 DEF Executes, chainVars
  <2> QED
    BY <2>1, <2>2, <2>5 DEF RevertInv, Others
<1>3. ASSUME NEW d \in Desks, Send(d) PROVE Goal
  <2>1. UNCHANGED <<chainVars, moves, audit>>
    BY <1>3 DEF Send, dbVars
  <2>2. /\ Executes(desk[d].action) /\ pool' = d /\ desk'[d].action = desk[d].action
        /\ desk'[d].stage = "sent"
        /\ pool \in Desks => desk'[pool].stage = "replaced"
        /\ \A e \in Desks \ {d, pool} : desk'[e] = desk[e]
    BY <1>3, SendFacts DEF SameRequest
  <2>3. Executes(desk[pool].action)'
    BY <2>1, <2>2 DEF Executes, chainVars
  <2> QED
    BY <2>1, <2>2, <2>3 DEF RevertInv
<1>4. ASSUME NEW d \in Desks, desk' = [desk EXCEPT ![d] = Free], pool # d,
             UNCHANGED <<chainVars, moves, pool>>,
             \A e \in DOMAIN audit' \ DOMAIN audit : e.effect # "reverted"
      PROVE  Goal
  <2>1. Others(d) /\ desk'[d].stage = "free"
    BY <1>4, FreedFacts
  <2>2. pool \in Desks => desk'[pool] = desk[pool] /\ Executes(desk[pool].action)
    BY <1>4, <2>1 DEF RevertInv, Others
  <2>3. pool' \in Desks => Executes(desk[pool].action)'
    BY <1>4, <2>2 DEF Executes, chainVars
  <2> QED
    BY <1>4, <2>1, <2>3 DEF RevertInv, Others
<1>5. ASSUME NEW d \in Desks, Refused(d) \/ Gone(d) PROVE Goal
  <2>1. /\ desk' = [desk EXCEPT ![d] = Free]
        /\ desk[d].stage \in {"read", "built", "gone"}
        /\ UNCHANGED <<chainVars, moves, pool, audit>>
    BY <1>5 DEF Refused, Gone, Raise, dbVars
  <2>2. pool # d
    BY <2>1 DEF CompTypes, DeskFits
  <2> QED
    BY <1>4, <2>1, <2>2
<1>6. ASSUME NEW d \in Desks, Commit(d) PROVE Goal
  <2> DEFINE e == [action |-> desk[d].action, effect |-> desk[d].effect]
  <2>1. /\ desk' = [desk EXCEPT ![d] = Free] /\ desk[d].stage = "mined"
        /\ UNCHANGED <<chainVars, moves, pool>> /\ audit' = With(audit, e)
    BY <1>6 DEF Commit
  <2>2. pool # d /\ e.effect # "reverted"
    BY <2>1 DEF CompTypes, DeskFits, RevertInv
  <2> HIDE DEF e
  <2>3. DOMAIN audit' = DOMAIN audit \cup {e}
    BY <2>1, WithFacts
  <2> QED
    BY <1>4, <2>1, <2>2, <2>3
<1>7. ASSUME NEW d \in Desks, Die(d) PROVE Goal
  <2>1. UNCHANGED <<chainVars, moves, pool, audit>>
    BY <1>7 DEF Die, dbVars
  <2>2. CASE desk[d].stage = "sent"
    <3>1. /\ desk'[d].stage = "orphan" /\ desk'[d].action = desk[d].action /\ Others(d)
      BY <1>7, <2>2, OrphanFacts DEF Die, SameRequest
    <3>2. pool \in Desks => desk'[pool].action = desk[pool].action
                            /\ Executes(desk[pool].action)
      BY <2>1, <3>1 DEF RevertInv, Others
    <3>3. pool' \in Desks => Executes(desk[pool].action)'
      BY <2>1, <3>2 DEF Executes, chainVars
    <3> QED
      BY <2>1, <3>1, <3>3 DEF RevertInv, Others
  <2>3. CASE desk[d].stage # "sent"
    <3>1. /\ desk' = [desk EXCEPT ![d] = Free]
          /\ desk[d].stage \in {"mined", "replaced"}
      BY <1>7, <2>3 DEF Die
    <3>2. pool # d
      BY <3>1 DEF CompTypes, DeskFits
    <3> QED
      BY <1>4, <2>1, <3>1, <3>2
  <2> QED
    BY <2>2, <2>3
<1>8. ASSUME Mine PROVE Goal
  <2>1. PICK p \in Desks :
          /\ p = pool /\ pool' = None /\ Others(p)
          /\ \/ desk'[p].effect = "executed"
             \/ ~Executes(desk[p].action)
          /\ UNCHANGED <<dbVars, moves>>
    BY <1>8, MineFacts
  <2>2. Executes(desk[p].action) /\ audit' = audit
    BY <2>1 DEF RevertInv, dbVars
  <2> QED
    BY <2>1, <2>2, NotADesk DEF RevertInv, Others
<1>9. ASSUME UNCHANGED <<dbVars, desk, chainVars, pool, moves>> PROVE Goal
  <2>1. pool' \in Desks => Executes(desk[pool].action)'
    BY <1>9 DEF RevertInv, Executes, chainVars
  <2> QED
    BY <1>9, <2>1 DEF RevertInv, dbVars
<1>10. ASSUME NEW h \in Wallets, NEW g \in Wallets, NEW n \in Nat, Direct(h, g, n)
       PROVE  FALSE
  <2>1. moves' = moves + 1 /\ moves \in Nat
    BY <1>10, DirectFacts DEF CompTypes
  <2> QED
    BY <2>1
<1> HIDE DEF Goal
<1>11. CASE ComplianceNext
  <2>1. ASSUME Deploy PROVE Goal
    BY <1>9, <2>1 DEF Deploy
  <2>2. Goal
    BY <1>1, <1>2, <1>3, <1>5, <1>6, <1>7, <1>8, <1>10, <1>11, <2>1, ComplianceSteps
  <2> QED
    BY <2>2 DEF Goal
<1>12. CASE UNCHANGED compVars
  BY <1>9, <1>12 DEF compVars, Goal
<1> QED
  BY <1>11, <1>12

(* Requests of the platform alone, in whatever order their transactions    *)
(* are sent, replaced and mined, never revert each other: the gas estimate *)
(* of execute_contract is still right when the transaction is mined.       *)
THEOREM ComplianceRevertsAreForeign == ComplianceSpec => []RevertsAreForeign
<1>1. ComplianceInit => CompTypes /\ RevertInv
  <2>1. ComplianceInit => RevertInv
    <3>1. Free.stage = "free" /\ DOMAIN EmptyBag = {}
      BY DEF Free, EmptyBag, SetToBag
    <3> QED
      BY <3>1, NotADesk DEF ComplianceInit, RevertInv
  <2> QED
    BY <2>1, CompTypesInit
<1>2. CompTypes /\ RevertInv /\ [ComplianceNext]_compVars => (CompTypes /\ RevertInv)'
  BY CompTypesNext, RevertNext
<1>3. RevertInv => RevertsAreForeign
  BY DEF RevertInv, RevertsAreForeign, Served, InFlight
<1> QED
  BY <1>1, <1>2, <1>3, PTL DEF ComplianceSpec

-----------------------------------------------------------------------------
(* PauseMirrored.                                                          *)

(* A pause or unpause that may still write the row.                        *)
Under(d) == /\ desk[d].stage \in {"read", "built", "sent", "mined"}
            /\ PauseOp(desk[d].action)

(* While nothing has gone wrong there is at most one of them, what it read *)
(* is still the row, and once it is mined the chain is what it asked for.  *)
PauseFits ==
    /\ \A d, e \in Desks : Under(d) /\ Under(e) => d = e
    /\ \A d \in Desks : desk[d].stage \in {"orphan", "gone"} => ~PauseOp(desk[d].action)
    /\ \A d \in Desks : Under(d) =>
         /\ desk[d].was = is_paused
         /\ paused = IF desk[d].stage = "mined" THEN desk[d].action.op = "pause"
                                                ELSE is_paused
    /\ (\A d \in Desks : ~Under(d)) => is_paused = paused

PauseInv == drift = {} => PauseFits

LEMMA PauseNext ==
    ASSUME CompTypes, PauseInv, [ComplianceNext]_compVars
    PROVE  PauseInv'
<1> SUFFICES ASSUME drift' = {} PROVE PauseFits'
  BY DEF PauseInv
<1>1. ASSUME NEW d \in Desks, NEW a \in Action, Asked(d, a) PROVE PauseFits'
  <2>1. PICK actor, require_issuer : Request(d, actor, require_issuer, a)
    BY <1>1 DEF Asked
  <2>2. /\ desk[d].stage = "free" /\ Others(d)
        /\ desk'[d].action = a
        /\ desk'[d].stage = IF OnChain(a) THEN "read" ELSE "mined"
        /\ desk'[d].was = (PauseOp(a) /\ is_paused)
        /\ UNCHANGED <<deployed, is_paused, paused>>
        /\ drift \subseteq drift'
        /\ Overlaps(a) => drift' # {}
        /\ PauseOp(a) /\ ~deployed => drift' # {}
    BY <2>1, RequestFacts DEF dbVars, chainVars
  <2>3. PauseFits /\ ~Overlaps(a) /\ (PauseOp(a) => deployed)
    BY <2>2 DEF PauseInv
  <2>4. \A e \in Desks \ {d} : Under(e)' <=> Under(e)
    BY <2>2 DEF Under, Others, PauseOp
  <2>5. ~Under(d) /\ (Under(d)' <=> PauseOp(a))
    BY <2>2 DEF Under, PauseOp
  <2>6. CASE PauseOp(a)
    <3>1. \A e \in Desks : ~Under(e)
      BY <2>3, <2>6 DEF Overlaps, InFlight, Under
    <3>2. desk'[d].stage = "read" /\ desk'[d].was = is_paused /\ is_paused = paused
      BY <2>2, <2>3, <2>6, <3>1 DEF OnChain, PauseOp, PauseFits, CompTypes
    <3> QED
      BY <2>2, <2>3, <2>4, <2>5, <3>1, <3>2 DEF PauseFits, Others, PauseOp
  <2>7. CASE ~PauseOp(a)
    BY <2>2, <2>3, <2>4, <2>5, <2>7 DEF PauseFits, Others, PauseOp
  <2> QED
    BY <2>6, <2>7
<1>2. ASSUME NEW d \in Desks, Build(d) PROVE PauseFits'
  <2>1. UNCHANGED <<is_paused, paused, drift>>
    BY <1>2 DEF Build, dbVars, chainVars
  <2>2. /\ desk[d].stage = "read" /\ Others(d) /\ desk'[d].stage = "built"
        /\ desk'[d].action = desk[d].action /\ desk'[d].was = desk[d].was
    BY <1>2, BuildFacts DEF SameRequest
  <2>3. \A e \in Desks : Under(e)' <=> Under(e)
    BY <2>2 DEF Under, Others, PauseOp
  <2>4. PauseFits
    BY <2>1 DEF PauseInv
  <2> QED
    BY <2>1, <2>2, <2>3, <2>4 DEF PauseFits, Others, PauseOp
<1>3. ASSUME NEW d \in Desks, Send(d) PROVE PauseFits'
  <2>0. PICK q : q = pool
    OBVIOUS
  <2>1. UNCHANGED <<is_paused, paused, drift>> /\ PauseFits
    BY <1>3 DEF Send, dbVars, chainVars, PauseInv
  <2>2. /\ desk[d].stage = "built" /\ desk'[d].stage = "sent"
        /\ desk'[d].action = desk[d].action /\ desk'[d].was = desk[d].was
        /\ q # d
        /\ q \in Desks => desk'[q].stage = "replaced"
        /\ \A e \in Desks \ {d, q} : desk'[e] = desk[e]
    BY <1>3, <2>0, SendFacts DEF SameRequest
  <2>3. \A e \in Desks \ {q} : Under(e)' <=> Under(e)
    BY <2>2 DEF Under, PauseOp
  <2>4. q \in Desks => ~Under(q)' /\ desk[q].stage \in {"sent", "orphan"}
    BY <2>0, <2>2 DEF Under, CompTypes, DeskFits
  <2>5. (\A e \in Desks : ~Under(e)') => is_paused = paused
    <3> SUFFICES ASSUME \A e \in Desks : ~Under(e)' PROVE is_paused = paused
      OBVIOUS
    <3>1. \A e \in Desks \ {q} : ~Under(e)
      BY <2>3
    <3>2. CASE q \in Desks /\ Under(q)
      BY <2>1, <2>4, <3>2 DEF PauseFits, Under
    <3>3. CASE ~(q \in Desks /\ Under(q))
      BY <2>1, <3>1, <3>3 DEF PauseFits
    <3> QED
      BY <3>2, <3>3
  <2>6. \A e, f \in Desks : Under(e)' /\ Under(f)' => e = f
    BY <2>1, <2>3, <2>4 DEF PauseFits
  <2>7. ASSUME NEW e \in Desks
        PROVE  /\ desk'[e].stage \in {"orphan", "gone"} => ~PauseOp(desk'[e].action)
               /\ Under(e)' => /\ desk'[e].was = is_paused
                               /\ paused = IF desk'[e].stage = "mined"
                                             THEN desk'[e].action.op = "pause"
                                             ELSE is_paused
    <3>1. CASE e = d
      BY <2>1, <2>2, <2>3, <3>1 DEF PauseFits
    <3>2. CASE e = q
      BY <2>2, <2>4, <3>2
    <3>3. CASE e \notin {d, q}
      BY <2>1, <2>2, <2>3, <3>3 DEF PauseFits
    <3> QED
      BY <3>1, <3>2, <3>3
  <2> QED
    BY <2>1, <2>5, <2>6, <2>7 DEF PauseFits, PauseOp
<1>4. ASSUME NEW d \in Desks, desk' = [desk EXCEPT ![d] = Free], PauseFits,
             ~Under(d) \/ is_paused' = paused,
             ~Under(d) => is_paused' = is_paused, UNCHANGED paused
      PROVE  PauseFits'
  <2>1. Others(d) /\ desk'[d].stage = "free"
    BY <1>4, FreedFacts
  <2>2. ~Under(d)' /\ \A e \in Desks \ {d} : Under(e)' <=> Under(e)
    BY <2>1 DEF Under, Others, PauseOp
  <2>3. CASE Under(d)
    <3>1. \A e \in Desks : ~Under(e)'
      BY <1>4, <2>2, <2>3 DEF PauseFits
    <3> QED
      BY <1>4, <2>1, <2>3, <3>1 DEF PauseFits, Others, PauseOp
  <2>4. CASE ~Under(d)
    BY <1>4, <2>1, <2>2, <2>4 DEF PauseFits, Others, PauseOp
  <2> QED
    BY <2>3, <2>4
<1>5. ASSUME NEW d \in Desks, Refused(d) \/ Gone(d) PROVE PauseFits'
  <2>1. /\ desk' = [desk EXCEPT ![d] = Free]
        /\ desk[d].stage \in {"read", "built", "gone"}
        /\ UNCHANGED <<paused, is_paused, drift>>
    BY <1>5 DEF Refused, Gone, Raise, dbVars, chainVars
  <2>2. PauseFits
    BY <2>1 DEF PauseInv
  <2>3. Under(d) => is_paused = paused
    BY <2>1, <2>2 DEF PauseFits, Under
  <2> QED
    BY <1>4, <2>1, <2>2, <2>3
<1>6. ASSUME NEW d \in Desks, Commit(d) PROVE PauseFits'
  <2> DEFINE a == desk[d].action
  <2>1. /\ desk' = [desk EXCEPT ![d] = Free] /\ desk[d].stage = "mined"
        /\ UNCHANGED <<paused, drift>>
        /\ is_paused' = IF PauseOp(a) /\ desk[d].was # (a.op = "pause")
                          THEN a.op = "pause" ELSE is_paused
    BY <1>6 DEF Commit, chainVars
  <2>2. PauseFits /\ (Under(d) <=> PauseOp(a))
    BY <2>1 DEF PauseInv, Under, PauseOp
  <2>3. is_paused \in BOOLEAN /\ paused \in BOOLEAN
    BY DEF CompTypes
  <2>4. Under(d) => desk[d].was = is_paused /\ paused = (a.op = "pause")
    BY <2>1, <2>2 DEF PauseFits
  <2>5. Under(d) => is_paused' = paused
    BY <2>1, <2>2, <2>3, <2>4
  <2> QED
    BY <1>4, <2>1, <2>2, <2>5
<1>7. ASSUME NEW d \in Desks, Die(d) PROVE PauseFits'
  <2>1. /\ UNCHANGED <<is_paused, paused>> /\ drift = {}
        /\ desk[d].stage \in {"sent", "mined", "replaced"}
        /\ PauseOp(desk[d].action) => desk[d].stage = "replaced"
    BY <1>7 DEF Die, dbVars, chainVars
  <2>2. PauseFits /\ ~Under(d)
    BY <2>1 DEF PauseInv, Under, PauseOp
  <2>3. CASE desk[d].stage = "sent"
    <3>1. /\ desk'[d].stage = "orphan" /\ desk'[d].action = desk[d].action /\ Others(d)
      BY <1>7, <2>3, OrphanFacts DEF Die, SameRequest
    <3>2. \A e \in Desks : Under(e)' <=> Under(e)
      BY <2>2, <3>1 DEF Under, Others, PauseOp
    <3>3. ~PauseOp(desk[d].action)
      BY <2>1, <2>3
    <3> QED
      BY <2>1, <2>2, <3>1, <3>2, <3>3 DEF PauseFits, Others, PauseOp
  <2>4. CASE desk[d].stage # "sent"
    <3>1. desk' = [desk EXCEPT ![d] = Free]
      BY <1>7, <2>4 DEF Die
    <3> QED
      BY <1>4, <2>1, <2>2, <3>1
  <2> QED
    BY <2>3, <2>4
<1>8. ASSUME Mine PROVE PauseFits'
  <2>1. PICK p \in Desks :
          /\ p = pool /\ desk[p].stage \in {"sent", "orphan"} /\ desk[p].action \in Action
          /\ SameRequest(p) /\ Others(p)
          /\ desk'[p].stage = IF desk[p].stage = "sent" THEN "mined" ELSE "gone"
          /\ \/ Executes(desk[p].action) /\ Call(desk[p].action)
             \/ ~Executes(desk[p].action) /\ UNCHANGED chainVars
          /\ UNCHANGED <<dbVars, drift>>
    BY <1>8, MineFacts
  <2>2. PauseFits /\ is_paused' = is_paused
    BY <2>1 DEF PauseInv, dbVars
  <2>3. PauseOp(desk[p].action) => paused' = (desk[p].action.op = "pause")
    <3>1. CASE Executes(desk[p].action) /\ Call(desk[p].action)
      BY <2>1, <3>1, CallFacts
    <3>2. CASE ~Executes(desk[p].action) /\ UNCHANGED chainVars
      <4>1. paused' = paused /\ paused \in BOOLEAN
        BY <3>2 DEF chainVars, CompTypes
      <4> QED
        BY <3>2, <4>1 DEF Executes, PauseOp
    <3> QED
      BY <2>1, <3>1, <3>2
  <2>4. ~PauseOp(desk[p].action) => paused' = paused
    <3>1. CASE Executes(desk[p].action) /\ Call(desk[p].action)
      BY <2>1, <3>1, CallFacts
    <3> QED
      BY <2>1, <3>1 DEF chainVars
  <2>5. /\ desk'[p].action = desk[p].action /\ desk'[p].was = desk[p].was
        /\ \A e \in Desks : Under(e)' <=> Under(e)
    <3>1. desk[p].stage = "orphan" => ~PauseOp(desk[p].action)
      BY <2>2 DEF PauseFits
    <3>2. desk'[p].action = desk[p].action /\ desk'[p].was = desk[p].was
      BY <2>1 DEF SameRequest
    <3>3. Under(p)' <=> Under(p)
      BY <2>1, <3>1, <3>2 DEF Under, PauseOp
    <3>4. \A e \in Desks \ {p} : Under(e)' <=> Under(e)
      BY <2>1 DEF Under, Others, PauseOp
    <3> QED
      BY <3>2, <3>3, <3>4
  <2>6. CASE PauseOp(desk[p].action)
    <3>1. desk[p].stage = "sent" /\ desk'[p].stage = "mined" /\ Under(p)
      BY <2>1, <2>2, <2>6 DEF PauseFits, Under
    <3>2. \A e \in Desks : Under(e) => e = p
      BY <2>2, <3>1 DEF PauseFits
    <3> QED
      BY <2>1, <2>2, <2>3, <2>5, <2>6, <3>1, <3>2 DEF PauseFits, Others, PauseOp
  <2>7. CASE ~PauseOp(desk[p].action)
    <3>1. ~Under(p)
      BY <2>7 DEF Under
    <3> QED
      BY <2>1, <2>2, <2>4, <2>5, <2>7, <3>1 DEF PauseFits, Others, PauseOp
  <2> QED
    BY <2>6, <2>7
<1>9. ASSUME UNCHANGED <<is_paused, desk, paused, drift>> PROVE PauseFits'
  BY <1>9 DEF PauseInv, PauseFits, Under, PauseOp
<1>10. ASSUME NEW h \in Wallets, NEW g \in Wallets, NEW n \in Nat, Direct(h, g, n)
       PROVE  PauseFits'
  <2>1. UNCHANGED <<is_paused, desk, paused, drift>>
    BY <1>10, DirectFacts DEF dbVars
  <2> QED
    BY <1>9, <2>1
<1>11. ASSUME Deploy PROVE PauseFits'
  BY <1>9, <1>11 DEF Deploy, dbVars, chainVars
<1>12. CASE ComplianceNext
  BY <1>1, <1>2, <1>3, <1>5, <1>6, <1>7, <1>8, <1>10, <1>11, <1>12, ComplianceSteps
<1>13. CASE UNCHANGED compVars
  BY <1>9, <1>13 DEF compVars, dbVars, chainVars
<1> QED
  BY <1>12, <1>13

(* The row's is_paused is what the contract does whenever no pause or      *)
(* unpause is under way, unless two of them overlapped, one died after it  *)
(* was sent, or the token had no contract yet: those three are the only    *)
(* ways compliance_action_service.py lets the two drift apart.             *)
THEOREM CompliancePauseMirrored == ComplianceSpec => []PauseMirrored
<1>1. ComplianceInit => CompTypes /\ PauseInv
  <2>1. ComplianceInit => PauseInv
    <3>1. Free.stage = "free"
      BY DEF Free
    <3> QED
      BY <3>1 DEF ComplianceInit, PauseInv, PauseFits, Under
  <2> QED
    BY <2>1, CompTypesInit
<1>2. CompTypes /\ PauseInv /\ [ComplianceNext]_compVars => (CompTypes /\ PauseInv)'
  BY CompTypesNext, PauseNext
<1>3. CompTypes /\ PauseInv => PauseMirrored
  <2>1. ASSUME NEW d \in Desks, desk[d] = Free PROVE ~Under(d)
    BY <2>1 DEF Free, Under
  <2> QED
    BY <2>1 DEF PauseInv, PauseFits, PauseMirrored, Under
<1> QED
  BY <1>1, <1>2, <1>3, PTL DEF ComplianceSpec

-----------------------------------------------------------------------------
(* What was executed, and where it is written: NoSilentAction and          *)
(* ListedIsFrozen.                                                         *)

(* The request of a desk changed the chain.                                *)
Done(d) == desk[d].stage \in {"mined", "gone"} /\ desk[d].effect = "executed"

(* Seen from the log, a step leaves what was done as it is, ...            *)
StillStep ==
    /\ \A e \in Desks : Done(e) \/ Done(e)' => desk'[e] = desk[e]
    /\ UNCHANGED <<executed, lost, audit>>
    /\ recovered \subseteq recovered'
    /\ \A h \in Holders : frozen[h] => frozen'[h] \/ h \in recovered'

(* ... or mines an action, ...                                             *)
MinedStep(p, a) ==
    /\ ~Done(p) /\ Done(p)' /\ Others(p) /\ a \in Action /\ TokenNamed(a)
    /\ desk'[p].action = a
    /\ executed' = With(executed, a)
    /\ \/ desk'[p].stage = "mined" /\ UNCHANGED lost
       \/ desk'[p].stage = "gone" /\ lost' = With(lost, a)
    /\ UNCHANGED <<audit, recovered>>
    /\ a.op = "freeze" => frozen'[a.from]
    /\ \A h \in Holders :
         frozen[h] /\ ~frozen'[h] => a.op = "unfreeze" /\ a.from = h

(* ... or ends a request, lost or written.                                 *)
FreedStep(d, a, f) ==
    /\ desk'[d].stage = "free" /\ Others(d)
    /\ desk[d].action = a /\ desk[d].effect = f
    /\ \/ desk[d].stage = "mined" /\ f = "executed" /\ lost' = With(lost, a)
          /\ UNCHANGED audit
       \/ desk[d].stage = "gone" /\ UNCHANGED <<lost, audit>>
       \/ desk[d].stage = "mined" /\ UNCHANGED lost
          /\ audit' = With(audit, [action |-> a, effect |-> f])
    /\ UNCHANGED <<executed, frozen, recovered>>

LEMMA LogSteps ==
    ASSUME CompTypes, [ComplianceNext]_compVars
    PROVE  \/ StillStep
           \/ \E p \in Desks, a \in Action : MinedStep(p, a)
           \/ \E d \in Desks : \E a, f : FreedStep(d, a, f)
<1> DEFINE Goal == \/ StillStep
                   \/ \E p \in Desks, a \in Action : MinedStep(p, a)
                   \/ \E d \in Desks : \E a, f : FreedStep(d, a, f)
<1>0. ASSUME \A e \in Desks : Done(e) \/ Done(e)' => desk'[e] = desk[e],
             UNCHANGED <<executed, lost, audit, recovered, frozen>>
      PROVE  Goal
  BY <1>0 DEF StillStep
<1>1. ASSUME NEW d \in Desks, NEW a \in Action, Asked(d, a) PROVE Goal
  <2>1. PICK actor, require_issuer : Request(d, actor, require_issuer, a)
    BY <1>1 DEF Asked
  <2>2. /\ desk[d].stage = "free" /\ Others(d) /\ desk'[d].effect = "none"
        /\ UNCHANGED <<executed, lost, audit, recovered, frozen>>
    BY <2>1, RequestFacts DEF dbVars, chainVars
  <2> QED
    BY <1>0, <2>2 DEF Done, Others
<1>2. ASSUME NEW d \in Desks, Build(d) PROVE Goal
  <2>1. /\ desk[d].stage = "read" /\ Others(d) /\ desk'[d].stage = "built"
    BY <1>2, BuildFacts
  <2>2. UNCHANGED <<executed, lost, audit, recovered, frozen>>
    BY <1>2 DEF Build, dbVars, chainVars
  <2> QED
    BY <1>0, <2>1, <2>2 DEF Done, Others
<1>3. ASSUME NEW d \in Desks, Send(d) PROVE Goal
  <2>1. /\ desk[d].stage = "built" /\ desk'[d].stage = "sent"
        /\ pool \in Desks => desk'[pool].stage = "replaced"
        /\ \A e \in Desks \ {d, pool} : desk'[e] = desk[e]
    BY <1>3, SendFacts
  <2>2. pool \in Desks => desk[pool].stage \in {"sent", "orphan"}
    BY DEF CompTypes, DeskFits
  <2>3. UNCHANGED <<executed, lost, audit, recovered, frozen>>
    BY <1>3 DEF Send, dbVars, chainVars
  <2>4. \A e \in Desks : Done(e) \/ Done(e)' => desk'[e] = desk[e]
    BY <2>1, <2>2 DEF Done
  <2> QED
    BY <1>0, <2>3, <2>4
<1>4. ASSUME NEW d \in Desks, Refused(d) PROVE Goal
  <2>1. /\ desk' = [desk EXCEPT ![d] = Free] /\ desk[d].stage \in {"read", "built"}
        /\ UNCHANGED <<executed, lost, audit, recovered, frozen>>
    BY <1>4 DEF Refused, Raise, dbVars, chainVars
  <2>2. Others(d) /\ desk'[d].stage = "free"
    BY <2>1, FreedFacts
  <2> QED
    BY <1>0, <2>1, <2>2 DEF Done, Others
<1>5. ASSUME NEW d \in Desks, Gone(d) PROVE Goal
  <2>1. /\ desk' = [desk EXCEPT ![d] = Free] /\ desk[d].stage = "gone"
        /\ UNCHANGED <<executed, lost, audit, recovered, frozen>>
    BY <1>5 DEF Gone, Raise, dbVars, chainVars
  <2>2. Others(d) /\ desk'[d].stage = "free"
    BY <2>1, FreedFacts
  <2>3. FreedStep(d, desk[d].action, desk[d].effect)
    BY <2>1, <2>2 DEF FreedStep
  <2> QED
    BY <2>3
<1>6. ASSUME NEW d \in Desks, Commit(d) PROVE Goal
  <2>1. /\ desk' = [desk EXCEPT ![d] = Free] /\ desk[d].stage = "mined"
        /\ audit' = With(audit, [action |-> desk[d].action, effect |-> desk[d].effect])
        /\ UNCHANGED <<executed, lost, recovered, frozen>>
    BY <1>6 DEF Commit, chainVars
  <2>2. Others(d) /\ desk'[d].stage = "free"
    BY <2>1, FreedFacts
  <2>3. FreedStep(d, desk[d].action, desk[d].effect)
    BY <2>1, <2>2 DEF FreedStep
  <2> QED
    BY <2>3
<1>7. ASSUME NEW d \in Desks, Die(d) PROVE Goal
  <2>1. UNCHANGED <<executed, audit, recovered, frozen>>
    BY <1>7 DEF Die, dbVars, chainVars
  <2>2. CASE desk[d].stage = "sent"
    <3>1. desk'[d].stage = "orphan" /\ Others(d) /\ UNCHANGED lost
      BY <1>7, <2>2, OrphanFacts DEF Die
    <3> QED
      BY <1>0, <2>1, <2>2, <3>1 DEF Done, Others
  <2>3. CASE desk[d].stage # "sent"
    <3>1. /\ desk' = [desk EXCEPT ![d] = Free]
          /\ desk[d].stage \in {"mined", "replaced"}
          /\ lost' = IF desk[d].effect = "executed" THEN With(lost, desk[d].action)
                                                    ELSE lost
      BY <1>7, <2>3 DEF Die
    <3>2. Others(d) /\ desk'[d].stage = "free"
      BY <3>1, FreedFacts
    <3>3. CASE desk[d].effect = "executed"
      <4>1. desk[d].stage = "mined"
        BY <3>1, <3>3 DEF CompTypes, DeskFits, Sending
      <4>2. FreedStep(d, desk[d].action, desk[d].effect)
        BY <2>1, <3>1, <3>2, <3>3, <4>1 DEF FreedStep
      <4> QED
        BY <4>2
    <3>4. CASE desk[d].effect # "executed"
      BY <1>0, <2>1, <3>1, <3>2, <3>4 DEF Done, Others
    <3> QED
      BY <3>3, <3>4
  <2> QED
    BY <2>2, <2>3
<1>8. ASSUME Mine PROVE Goal
  <2>1. PICK p \in Desks :
          LET a == desk[p].action IN
          /\ p = pool /\ desk[p].stage \in {"sent", "orphan"} /\ a \in Action
          /\ SameRequest(p) /\ Others(p)
          /\ desk'[p].stage = IF desk[p].stage = "sent" THEN "mined" ELSE "gone"
          /\ \/ /\ Executes(a) /\ Call(a) /\ executed' = With(executed, a)
                /\ desk'[p].effect = "executed"
                /\ lost' = IF desk[p].stage = "orphan" THEN With(lost, a) ELSE lost
             \/ /\ ~Executes(a) /\ UNCHANGED <<chainVars, executed, lost>>
                /\ desk'[p].effect = "reverted"
          /\ UNCHANGED <<dbVars, recovered>>
    BY <1>8, MineFacts
  <2>2. PICK a \in Action : a = desk[p].action
    BY <2>1
  <2>3. CASE Executes(a) /\ Call(a) /\ desk'[p].effect = "executed"
    <3>1. /\ a.op \in {"freeze", "unfreeze"} =>
               /\ frozen'[a.from] = (a.op = "freeze")
               /\ \A h \in Holders \ {a.from} : frozen'[h] = frozen[h]
          /\ a.op \notin {"freeze", "unfreeze"} => frozen' = frozen
      BY <2>3, CallFacts
    <3>2. ~Done(p) /\ Done(p)' /\ TokenNamed(a)
      BY <2>1, <2>2, <2>3 DEF Done, CompTypes, DeskFits, Sending
    <3>3. /\ executed' = With(executed, a) /\ UNCHANGED <<audit, recovered>>
          /\ \/ desk'[p].stage = "mined" /\ UNCHANGED lost
             \/ desk'[p].stage = "gone" /\ lost' = With(lost, a)
      BY <2>1, <2>2, <2>3 DEF dbVars
    <3>4. MinedStep(p, a)
      BY <2>1, <2>2, <3>1, <3>2, <3>3 DEF MinedStep, SameRequest
    <3> QED
      BY <3>4
  <2>4. CASE UNCHANGED <<chainVars, executed, lost>> /\ desk'[p].effect = "reverted"
    BY <1>0, <2>1, <2>4 DEF Done, Others, chainVars, dbVars
  <2> QED
    BY <2>1, <2>2, <2>3, <2>4
<1>9. ASSUME NEW h \in Wallets, NEW g \in Wallets, NEW n \in Nat, Direct(h, g, n)
      PROVE  Goal
  <2>1. /\ UNCHANGED <<dbVars, desk, executed, lost>> /\ recovered \subseteq recovered'
        /\ \A x \in Holders : frozen[x] => frozen'[x] \/ x \in recovered'
    BY <1>9, DirectFacts
  <2> QED
    BY <2>1 DEF StillStep, dbVars
<1>10. ASSUME UNCHANGED <<desk, executed, lost, audit, recovered, frozen>> PROVE Goal
  BY <1>0, <1>10
<1>11. ASSUME Deploy PROVE Goal
  BY <1>10, <1>11 DEF Deploy, dbVars, chainVars
<1> HIDE DEF Goal
<1>12. CASE ComplianceNext
  <2>1. Goal
    BY <1>1, <1>2, <1>3, <1>4, <1>5, <1>6, <1>7, <1>8, <1>9, <1>11, <1>12,
       ComplianceSteps
  <2> QED
    BY <2>1 DEF Goal
<1>13. CASE UNCHANGED compVars
  BY <1>10, <1>13 DEF compVars, dbVars, chainVars, Goal
<1> QED
  BY <1>12, <1>13

(* Desks whose request is done and will be written.                        *)
ToWrite(a) == {d \in Desks : Done(d) /\ desk[d].stage = "mined" /\ desk[d].action = a}

Entry(a) == [action |-> a, effect |-> "executed"]

(* Every copy of an executed action is written, lost, or waiting.          *)
LogInv ==
    /\ \A a : Copies(a, executed) \in Nat /\ Copies(a, lost) \in Nat
    /\ \A e : Copies(e, audit) \in Nat
    /\ \A a : Copies(a, executed) = Copies(Entry(a), audit) + Copies(a, lost)
                                      + Cardinality(ToWrite(a))

LEMMA ToWriteFinite ==
    ASSUME NEW a
    PROVE  IsFiniteSet(ToWrite(a)) /\ Cardinality(ToWrite(a)) \in Nat
<1>1. IsFiniteSet(ToWrite(a))
  BY ComplianceAssumption, FS_Subset DEF ToWrite
<1> QED
  BY <1>1, FS_CardinalityType

LEMMA LogNext ==
    ASSUME CompTypes, LogInv, [ComplianceNext]_compVars
    PROVE  LogInv'
<1>1. CASE StillStep
  <2>1. \A x : ToWrite(x)' = ToWrite(x)
    BY <1>1 DEF ToWrite, StillStep, Done
  <2> QED
    BY <1>1, <2>1 DEF LogInv, StillStep, Copies, Entry
<1>2. ASSUME NEW p \in Desks, NEW a \in Action, MinedStep(p, a) PROVE LogInv'
  <2>1. \A x : x # a => ToWrite(x)' = ToWrite(x)
    BY <1>2 DEF MinedStep, ToWrite, Done, Others
  <2>2. desk'[p].stage = "gone" => ToWrite(a)' = ToWrite(a)
    BY <1>2 DEF MinedStep, ToWrite, Done, Others
  <2>3. desk'[p].stage = "mined" => /\ ToWrite(a)' = ToWrite(a) \cup {p}
                                    /\ p \notin ToWrite(a)
    BY <1>2 DEF MinedStep, ToWrite, Done, Others
  <2>4. /\ \A x : Copies(x, executed') = Copies(x, executed) + (IF x = a THEN 1 ELSE 0)
        /\ audit' = audit
    <3>1. \A x : Copies(x, With(executed, a))
                   = Copies(x, executed) + (IF x = a THEN 1 ELSE 0)
      BY WithFacts
    <3> QED
      BY <1>2, <3>1 DEF MinedStep
  <2>5. desk'[p].stage = "gone" =>
          \A x : Copies(x, lost') = Copies(x, lost) + (IF x = a THEN 1 ELSE 0)
    <3>1. \A x : Copies(x, With(lost, a)) = Copies(x, lost) + (IF x = a THEN 1 ELSE 0)
      BY WithFacts
    <3> QED
      BY <1>2, <3>1 DEF MinedStep
  <2>6. desk'[p].stage = "mined" => lost' = lost
    BY <1>2 DEF MinedStep
  <2>7. desk'[p].stage \in {"mined", "gone"}
    BY <1>2 DEF MinedStep
  <2>8. desk'[p].stage = "mined" =>
          Cardinality(ToWrite(a)') = Cardinality(ToWrite(a)) + 1
    BY <2>3, ToWriteFinite, FS_AddElement
  <2>9. \A x : Cardinality(ToWrite(x)) \in Nat
    BY ToWriteFinite
  <2>10. /\ \A x : Copies(x, executed) \in Nat /\ Copies(x, lost) \in Nat
         /\ \A e : Copies(e, audit) \in Nat
         /\ \A x : Copies(x, executed) = Copies(Entry(x), audit) + Copies(x, lost)
                                           + Cardinality(ToWrite(x))
    BY DEF LogInv
  <2>11. ASSUME NEW x
         PROVE  /\ Copies(x, executed') \in Nat /\ Copies(x, lost') \in Nat
                /\ Copies(x, executed') = Copies(Entry(x), audit') + Copies(x, lost')
                                            + Cardinality(ToWrite(x)')
    <3>1. CASE x # a
      <4>1. /\ Copies(x, executed') = Copies(x, executed)
            /\ Copies(x, lost') = Copies(x, lost)
            /\ Cardinality(ToWrite(x)') = Cardinality(ToWrite(x))
        BY <2>1, <2>4, <2>5, <2>6, <2>7, <2>10, <3>1
      <4> QED
        BY <2>4, <2>10, <4>1
    <3>2. CASE x = a /\ desk'[p].stage = "mined"
      <4>1. /\ Copies(a, executed') = Copies(a, executed) + 1
            /\ Copies(a, lost') = Copies(a, lost)
            /\ Cardinality(ToWrite(a)') = Cardinality(ToWrite(a)) + 1
        BY <2>4, <2>6, <2>8, <3>2
      <4> QED
        BY <2>4, <2>9, <2>10, <3>2, <4>1
    <3>3. CASE x = a /\ desk'[p].stage = "gone"
      <4>1. /\ Copies(a, executed') = Copies(a, executed) + 1
            /\ Copies(a, lost') = Copies(a, lost) + 1
            /\ Cardinality(ToWrite(a)') = Cardinality(ToWrite(a))
        BY <2>2, <2>4, <2>5, <3>3
      <4> QED
        BY <2>4, <2>9, <2>10, <3>3, <4>1
    <3> QED
      BY <2>7, <3>1, <3>2, <3>3
  <2>12. \A e : Copies(e, audit') \in Nat
    BY <2>4, <2>10
  <2> QED
    BY <2>11, <2>12 DEF LogInv, Copies, Entry
<1>3. ASSUME NEW d \in Desks, NEW a, NEW f, FreedStep(d, a, f) PROVE LogInv'
  <2> DEFINE n == [action |-> a, effect |-> f]
             Lost == desk[d].stage = "mined" /\ f = "executed" /\ lost' = With(lost, a)
                     /\ audit' = audit
             Wrote == desk[d].stage = "mined" /\ lost' = lost /\ audit' = With(audit, n)
             Ended == desk[d].stage = "gone" /\ lost' = lost /\ audit' = audit
  <2>1. /\ executed' = executed /\ desk'[d].stage = "free" /\ Others(d)
        /\ desk[d].action = a /\ desk[d].effect = f
        /\ Lost \/ Wrote \/ Ended
    BY <1>3 DEF FreedStep
  <2>2. \A x : x # a => ToWrite(x)' = ToWrite(x)
    BY <2>1 DEF ToWrite, Done, Others
  <2>3. f # "executed" \/ desk[d].stage = "gone" => ToWrite(a)' = ToWrite(a)
    BY <2>1 DEF ToWrite, Done, Others
  <2>4. f = "executed" /\ desk[d].stage = "mined" =>
          /\ ToWrite(a)' = ToWrite(a) \ {d} /\ d \in ToWrite(a)
    BY <2>1 DEF ToWrite, Done, Others
  <2>5. \A x : Cardinality(ToWrite(x)) \in Nat
    BY ToWriteFinite
  <2>6. f = "executed" /\ desk[d].stage = "mined" =>
          Cardinality(ToWrite(a)) = Cardinality(ToWrite(a)') + 1
          /\ Cardinality(ToWrite(a)') \in Nat
    <3> SUFFICES ASSUME f = "executed", desk[d].stage = "mined"
                 PROVE  /\ Cardinality(ToWrite(a)) = Cardinality(ToWrite(a)') + 1
                        /\ Cardinality(ToWrite(a)') \in Nat
      OBVIOUS
    <3>1. IsFiniteSet(ToWrite(a)) /\ IsFiniteSet(ToWrite(a)')
      BY <2>4, ToWriteFinite, FS_Subset
    <3>2. ToWrite(a) = ToWrite(a)' \cup {d} /\ d \notin ToWrite(a)'
      BY <2>4
    <3> QED
      BY <3>1, <3>2, FS_AddElement, FS_CardinalityType
  <2>7. /\ \A x : Copies(x, executed) \in Nat /\ Copies(x, lost) \in Nat
        /\ \A e : Copies(e, audit) \in Nat
        /\ \A x : Copies(x, executed) = Copies(Entry(x), audit) + Copies(x, lost)
                                          + Cardinality(ToWrite(x))
    BY DEF LogInv
  <2>8. \A x : Entry(x) = n <=> x = a /\ f = "executed"
    BY DEF Entry
  <2> HIDE DEF n
  <2>9. Lost => \A x : Copies(x, lost') = Copies(x, lost) + (IF x = a THEN 1 ELSE 0)
    <3>1. \A x : Copies(x, With(lost, a)) = Copies(x, lost) + (IF x = a THEN 1 ELSE 0)
      BY WithFacts
    <3> QED
      BY <3>1
  <2>10. Wrote => \A e : Copies(e, audit') = Copies(e, audit) + (IF e = n THEN 1 ELSE 0)
    <3>1. \A e : Copies(e, With(audit, n)) = Copies(e, audit) + (IF e = n THEN 1 ELSE 0)
      BY WithFacts
    <3> QED
      BY <3>1
  <2> DEFINE Balance(x) ==
               /\ Copies(x, lost') \in Nat
               /\ Copies(x, executed) = Copies(Entry(x), audit') + Copies(x, lost')
                                          + Cardinality(ToWrite(x)')
  <2>11. ASSUME NEW x PROVE Balance(x)
    <3>1. CASE Ended
      BY <2>2, <2>3, <2>7, <3>1
    <3>2. CASE Lost
      <4>1. CASE x # a
        BY <2>2, <2>5, <2>7, <2>9, <3>2, <4>1
      <4>2. CASE x = a
        <5>1. Copies(a, lost') = Copies(a, lost) + 1 /\ audit' = audit
          BY <2>9, <3>2
        <5>2. /\ Cardinality(ToWrite(a)) = Cardinality(ToWrite(a)') + 1
              /\ Cardinality(ToWrite(a)') \in Nat
          BY <2>6, <3>2
        <5> QED
          BY <2>7, <4>2, <5>1, <5>2
      <4> QED
        BY <4>1, <4>2
    <3>3. CASE Wrote
      <4>1. CASE Entry(x) # n
        <5>1. Copies(Entry(x), audit') = Copies(Entry(x), audit)
          BY <2>7, <2>10, <3>3, <4>1
        <5>2. Cardinality(ToWrite(x)') = Cardinality(ToWrite(x)) /\ lost' = lost
          BY <2>2, <2>3, <2>8, <3>3, <4>1
        <5> QED
          BY <2>7, <5>1, <5>2
      <4>2. CASE Entry(x) = n
        <5>1. Copies(Entry(x), audit') = Copies(Entry(x), audit) + 1 /\ lost' = lost
          BY <2>10, <3>3, <4>2
        <5>2. /\ Cardinality(ToWrite(x)) = Cardinality(ToWrite(x)') + 1
              /\ Cardinality(ToWrite(x)') \in Nat
          BY <2>6, <2>8, <3>3, <4>2
        <5> QED
          BY <2>7, <5>1, <5>2
      <4> QED
        BY <4>1, <4>2
    <3> QED
      BY <2>1, <3>1, <3>2, <3>3
  <2>12. \A e : Copies(e, audit') \in Nat
    BY <2>1, <2>7, <2>10
  <2> QED
    BY <2>1, <2>7, <2>11, <2>12 DEF LogInv, Copies, Entry
<1> QED
  BY <1>1, <1>2, <1>3, LogSteps

(* Every action that changed the chain is in audit_logs exactly as often   *)
(* as it was executed, but for those whose request is about to commit or   *)
(* died first: for any number of concurrent requests no commit writes an   *)
(* action twice, and none that executed is dropped without being lost.     *)
THEOREM ComplianceNoSilentAction == ComplianceSpec => []NoSilentAction
<1>1. ComplianceInit => CompTypes /\ LogInv
  <2>1. ASSUME ComplianceInit PROVE LogInv
    <3>1. Free.stage = "free" /\ \A x : Copies(x, EmptyBag) = 0
      BY DEF Free, EmptyBag, SetToBag, Copies
    <3>2. \A a : ToWrite(a) = {}
      BY <2>1, <3>1 DEF ComplianceInit, ToWrite, Done
    <3>3. Cardinality({}) = 0
      BY FS_EmptySet
    <3> QED
      BY <2>1, <3>1, <3>2, <3>3 DEF ComplianceInit, LogInv
  <2> QED
    BY <2>1, CompTypesInit
<1>2. CompTypes /\ LogInv /\ [ComplianceNext]_compVars => (CompTypes /\ LogInv)'
  BY CompTypesNext, LogNext
<1>3. LogInv => NoSilentAction
  <2>1. \A a : {d \in Served("executed") : desk[d].stage = "mined" /\ desk[d].action = a}
                 = ToWrite(a)
    BY DEF Served, InFlight, ToWrite, Done
  <2> QED
    BY <2>1 DEF LogInv, NoSilentAction, Entry
<1> QED
  BY <1>1, <1>2, <1>3, PTL DEF ComplianceSpec

-----------------------------------------------------------------------------
(* ListedIsFrozen.                                                         *)

Unfreezes(a, w) == a.op = "unfreeze" /\ a.from = w

(* An unfreeze of w was executed and is on a desk, or was lost, or is in   *)
(* the log.                                                                *)
Unfrozen(w) ==
    \/ \E d \in Desks : Done(d) /\ Unfreezes(desk[d].action, w)
    \/ \E a \in DOMAIN lost : Unfreezes(a, w)
    \/ \E e \in DOMAIN audit : Unfreezes(e.action, w) /\ e.action.token

(* Where an executed action can be found, and what became of a freeze.     *)
ListInv ==
    /\ \A a \in DOMAIN executed : a \in Action /\ TokenNamed(a)
    /\ \A e \in DOMAIN audit : e.effect = "executed" => e.action \in DOMAIN executed
    /\ \A d \in Desks : Done(d) =>
         /\ desk[d].action \in DOMAIN executed
         /\ desk[d].stage = "gone" => desk[d].action \in DOMAIN lost
    /\ \A a \in DOMAIN executed : a.op = "freeze" =>
         frozen[a.from] \/ a.from \in recovered \/ Unfrozen(a.from)

LEMMA ListNext ==
    ASSUME CompTypes, ListInv, [ComplianceNext]_compVars
    PROVE  ListInv'
<1>0. ASSUME NEW a \in DOMAIN executed, a.op = "freeze"
      PROVE  a.from \in Holders
  BY <1>0, ActionFacts DEF ListInv, Holders
<1>1. CASE StillStep
  <2>1. \A w : Unfrozen(w) => Unfrozen(w)'
    BY <1>1 DEF StillStep, Unfrozen, Done
  <2>2. ASSUME NEW a \in DOMAIN executed, a.op = "freeze"
        PROVE  frozen'[a.from] \/ a.from \in recovered' \/ Unfrozen(a.from)'
    BY <1>0, <1>1, <2>1, <2>2 DEF StillStep, ListInv
  <2>3. \A d \in Desks : Done(d)' =>
          /\ desk'[d].action \in DOMAIN executed
          /\ desk'[d].stage = "gone" => desk'[d].action \in DOMAIN lost
    BY <1>1 DEF StillStep, ListInv, Done
  <2>4. UNCHANGED <<executed, lost, audit>>
    BY <1>1 DEF StillStep
  <2> QED
    BY <2>2, <2>3, <2>4 DEF ListInv
<1>2. ASSUME NEW p \in Desks, NEW a \in Action, MinedStep(p, a) PROVE ListInv'
  <2>1. /\ DOMAIN executed' = DOMAIN executed \cup {a} /\ audit' = audit
        /\ recovered' = recovered /\ DOMAIN lost \subseteq DOMAIN lost'
        /\ desk'[p].stage = "gone" => a \in DOMAIN lost'
    <3>1. DOMAIN With(executed, a) = DOMAIN executed \cup {a}
      BY WithFacts
    <3>2. DOMAIN With(lost, a) = DOMAIN lost \cup {a}
      BY WithFacts
    <3> QED
      BY <1>2, <3>1, <3>2 DEF MinedStep
  <2>2. /\ ~Done(p) /\ Done(p)' /\ desk'[p].action = a
        /\ \A e \in Desks \ {p} : desk'[e] = desk[e]
        /\ TokenNamed(a)
    BY <1>2 DEF MinedStep, Others
  <2>3. \A w : Unfrozen(w) => Unfrozen(w)'
    BY <2>1, <2>2 DEF Unfrozen, Done
  <2>4. a.op = "unfreeze" => Unfrozen(a.from)'
    BY <2>2 DEF Unfrozen, Unfreezes
  <2>5. /\ a.op = "freeze" => frozen'[a.from]
        /\ \A h \in Holders :
             frozen[h] /\ ~frozen'[h] => a.op = "unfreeze" /\ a.from = h
    BY <1>2 DEF MinedStep
  <2>6. ASSUME NEW b \in DOMAIN executed, b.op = "freeze"
        PROVE  frozen'[b.from] \/ b.from \in recovered' \/ Unfrozen(b.from)'
    <3>1. frozen[b.from] \/ b.from \in recovered \/ Unfrozen(b.from)
      BY <2>6 DEF ListInv
    <3>2. CASE frozen[b.from]
      BY <1>0, <2>4, <2>5, <2>6, <3>2
    <3> QED
      BY <2>1, <2>3, <3>1, <3>2
  <2>7. ASSUME NEW d \in Desks, Done(d)'
        PROVE  /\ desk'[d].action \in DOMAIN executed'
               /\ desk'[d].stage = "gone" => desk'[d].action \in DOMAIN lost'
    <3>1. CASE d = p
      BY <2>1, <2>2, <3>1
    <3>2. CASE d # p
      BY <2>1, <2>2, <2>7, <3>2 DEF ListInv, Done
    <3> QED
      BY <3>1, <3>2
  <2>8. \A e \in DOMAIN audit' : e.effect = "executed" => e.action \in DOMAIN executed'
    BY <2>1 DEF ListInv
  <2>9. \A b \in DOMAIN executed' : b \in Action /\ TokenNamed(b)
    BY <2>1, <2>2 DEF ListInv
  <2>10. \A b \in DOMAIN executed' : b.op = "freeze" =>
           frozen'[b.from] \/ b.from \in recovered' \/ Unfrozen(b.from)'
    BY <2>1, <2>5, <2>6
  <2> QED
    BY <2>7, <2>8, <2>9, <2>10 DEF ListInv, TokenNamed
<1>3. ASSUME NEW d \in Desks, NEW a, NEW f, FreedStep(d, a, f) PROVE ListInv'
  <2> DEFINE n == [action |-> a, effect |-> f]
             Lost == desk[d].stage = "mined" /\ f = "executed" /\ lost' = With(lost, a)
                     /\ audit' = audit
             Wrote == desk[d].stage = "mined" /\ lost' = lost /\ audit' = With(audit, n)
             Ended == desk[d].stage = "gone" /\ lost' = lost /\ audit' = audit
  <2>1. /\ UNCHANGED <<executed, frozen, recovered>> /\ desk'[d].stage = "free"
        /\ \A e \in Desks \ {d} : desk'[e] = desk[e]
        /\ desk[d].action = a /\ desk[d].effect = f
        /\ Lost \/ Wrote \/ Ended
    BY <1>3 DEF FreedStep, Others
  <2>2. n.action = a /\ n.effect = f
    OBVIOUS
  <2> HIDE DEF n
  <2>3. /\ DOMAIN lost \subseteq DOMAIN lost' /\ DOMAIN audit \subseteq DOMAIN audit'
        /\ DOMAIN audit' \subseteq DOMAIN audit \cup {n}
        /\ Lost => a \in DOMAIN lost'
        /\ Wrote => n \in DOMAIN audit'
    <3>1. DOMAIN With(lost, a) = DOMAIN lost \cup {a}
      BY WithFacts
    <3>2. DOMAIN With(audit, n) = DOMAIN audit \cup {n}
      BY WithFacts
    <3> QED
      BY <2>1, <3>1, <3>2
  <2>4. ~Done(d)' /\ (Wrote /\ f = "executed" => Done(d))
    BY <2>1 DEF Done
  <2>5. ASSUME NEW w, Unfrozen(w) PROVE Unfrozen(w)'
    <3>1. CASE Done(d) /\ Unfreezes(a, w)
      <4>1. f = "executed" /\ TokenNamed(a)
        BY <2>1, <3>1 DEF Done, CompTypes, DeskFits
      <4>2. Ended => a \in DOMAIN lost'
        BY <2>1, <2>3, <3>1 DEF ListInv
      <4>3. CASE a \in DOMAIN lost'
        BY <3>1, <4>3 DEF Unfrozen
      <4>4. CASE n \in DOMAIN audit'
        BY <2>2, <3>1, <4>1, <4>4 DEF Unfrozen, TokenNamed, Unfreezes
      <4> QED
        BY <2>1, <2>3, <4>2, <4>3, <4>4
    <3>2. CASE \E e \in Desks \ {d} : Done(e) /\ Unfreezes(desk[e].action, w)
      BY <2>1, <3>2 DEF Unfrozen, Done
    <3>3. CASE \/ \E b \in DOMAIN lost : Unfreezes(b, w)
               \/ \E e \in DOMAIN audit : Unfreezes(e.action, w) /\ e.action.token
      BY <2>3, <3>3 DEF Unfrozen
    <3> QED
      BY <2>1, <2>5, <3>1, <3>2, <3>3 DEF Unfrozen
  <2>6. \A b \in DOMAIN executed : b.op = "freeze" =>
          frozen'[b.from] \/ b.from \in recovered' \/ Unfrozen(b.from)'
    BY <2>1, <2>5 DEF ListInv
  <2>7. \A e \in DOMAIN audit' : e.effect = "executed" => e.action \in DOMAIN executed
    <3>1. n \in DOMAIN audit' /\ n \notin DOMAIN audit /\ f = "executed"
            => a \in DOMAIN executed
      BY <2>1, <2>4 DEF ListInv
    <3> QED
      BY <2>2, <2>3, <3>1 DEF ListInv
  <2>8. \A e \in Desks : Done(e)' =>
          /\ desk'[e].action \in DOMAIN executed
          /\ desk'[e].stage = "gone" => desk'[e].action \in DOMAIN lost'
    BY <2>1, <2>3, <2>4 DEF ListInv, Done
  <2> QED
    BY <2>1, <2>6, <2>7, <2>8 DEF ListInv
<1> QED
  BY <1>1, <1>2, <1>3, LogSteps

(* A wallet that list_frozen_addresses shows for a freeze that executed is *)
(* frozen by the contract, unless an executed unfreeze is still to be      *)
(* written or was lost, or an agent moved the wallet: the list, a join of  *)
(* the audit log with itself, never shows one more.                        *)
THEOREM ComplianceListedIsFrozen == ComplianceSpec => []ListedIsFrozen
<1>1. ComplianceInit => CompTypes /\ ListInv
  <2>1. ASSUME ComplianceInit PROVE ListInv
    <3>1. Free.stage = "free" /\ DOMAIN EmptyBag = {}
      BY DEF Free, EmptyBag, SetToBag
    <3> QED
      BY <2>1, <3>1 DEF ComplianceInit, ListInv, Done
  <2> QED
    BY <2>1, CompTypesInit
<1>2. CompTypes /\ ListInv /\ [ComplianceNext]_compVars => (CompTypes /\ ListInv)'
  BY CompTypesNext, ListNext
<1>3. ListInv => ListedIsFrozen
  <2> SUFFICES ASSUME ListInv, NEW f \in list_frozen_addresses,
                      [action |-> f, effect |-> "executed"] \in DOMAIN audit
               PROVE  \/ frozen[f.from] \/ f.from \in recovered
                      \/ \E d \in Served("executed") : Unfreezes(desk[d].action, f.from)
                      \/ \E a \in DOMAIN lost : Unfreezes(a, f.from)
    BY DEF ListedIsFrozen, Unfreezes
  <2>1. /\ f.op = "freeze" /\ f \in DOMAIN executed
    <3>1. f \in Logged("freeze")
      BY DEF list_frozen_addresses
    <3>2. f.op = "freeze"
      BY <3>1 DEF Logged
    <3>3. f \in DOMAIN executed
      BY DEF ListInv
    <3> QED
      BY <3>2, <3>3
  <2>2. f.token
    BY <2>1 DEF ListInv, TokenNamed
  <2>3. ~\E e \in DOMAIN audit : Unfreezes(e.action, f.from) /\ e.action.token
    BY <2>2 DEF list_frozen_addresses, Logged, Unfreezes
  <2>4. frozen[f.from] \/ f.from \in recovered \/ Unfrozen(f.from)
    BY <2>1 DEF ListInv
  <2> QED
    BY <2>3, <2>4 DEF Unfrozen, Served, InFlight, Done
<1> QED
  BY <1>1, <1>2, <1>3, PTL DEF ComplianceSpec
=============================================================================
