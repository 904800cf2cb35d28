-------------------------- MODULE TokenVaultProofs --------------------------
(* Theorems about the contracts that hold tokens or dividends for others,  *)
(* for any participants, amounts and bounds: the vesting vault, the        *)
(* dividend distributor, and redemptions (any number of status updates at  *)
(* a time).                                                                *)
EXTENDS VestingVault, DividendDistributor, Redemption, SumTheorems,
        SequenceTheorems

-----------------------------------------------------------------------------
(* The vesting vault.  A schedule is sound when its times are in order and *)
(* no more was claimed than is vested; the vault holds what is due on the  *)
(* sound schedules of all beneficiaries.                                   *)

Due(s) == IF s.revoked THEN 0 ELSE s.totalAmount - s.claimedAmount

Sound(s, t) ==
    /\ s \in VestingSchedule
    /\ s.startTime <= s.cliffEnd
    /\ s.startTime <= s.vestingEnd
    /\ ~s.revoked => s.claimedAmount <= VestedAt(s, t)

SoundAll(q, t) ==
    /\ q \in Seq(VestingSchedule)
    /\ \A k \in DOMAIN q : Sound(q[k], t)

DueAll(q) == Sum([k \in DOMAIN q |-> Due(q[k])])

Owing == [b \in Beneficiaries |-> DueAll(schedules[b])]

VestInv ==
    /\ schedules \in [Beneficiaries -> Seq(VestingSchedule)]
    /\ held \in Nat
    /\ vestNow \in Nat
    /\ \A b \in Beneficiaries : SoundAll(schedules[b], vestNow)
    /\ Sum(Owing) <= held

(* Linear vesting stays within the amount and does not shrink, also with a *)
(* cliff after the end or a duration of zero.                              *)
LEMMA VestedAtBounds ==
    ASSUME NEW s \in VestingSchedule, NEW t \in Nat,
           s.startTime <= s.cliffEnd, s.startTime <= s.vestingEnd
    PROVE  /\ VestedAt(s, t) \in Nat
           /\ VestedAt(s, t) <= s.totalAmount
           /\ VestedAt(s, t) <= VestedAt(s, t + 1)
           /\ VestedAt(s, t + 1) <= s.totalAmount
<1> DEFINE m == s.totalAmount
           d == s.vestingEnd - s.startTime
           e == t - s.startTime
<1>1. /\ m \in Nat /\ s.startTime \in Nat /\ s.cliffEnd \in Nat
      /\ s.vestingEnd \in Nat
  BY DEF VestingSchedule
<1>2. ASSUME NEW u \in Nat, u >= s.cliffEnd, u < s.vestingEnd
      PROVE  /\ d \in Nat \ {0} /\ u - s.startTime \in Nat
             /\ u - s.startTime <= d
             /\ VestedAt(s, u) = (m * (u - s.startTime)) \div d
             /\ VestedAt(s, u) \in Nat /\ VestedAt(s, u) <= m
  <2>1. /\ d \in Nat \ {0} /\ u - s.startTime \in Nat
        /\ u - s.startTime <= d
    BY <1>1, <1>2
  <2>2. VestedAt(s, u) = (m * (u - s.startTime)) \div d
    BY <1>1, <1>2 DEF VestedAt
  <2>3. m * (u - s.startTime) \in Nat
    BY <1>1, <2>1, MulMonotone
  <2> HIDE DEF m, d
  <2>4. VestedAt(s, u) \in Nat
    BY <2>1, <2>2, <2>3, DivFacts
  <2>5. VestedAt(s, u) <= m
    <3> DEFINE y == u - s.startTime
    <3>1. y \in Nat /\ y <= d /\ d \in Nat \ {0} /\ m \in Nat
      BY <1>1, <2>1
    <3> HIDE DEF y
    <3>2. (m * y) \div d <= m
      BY <3>1, DivAtMost
    <3> QED
      BY <2>2, <3>2 DEF y
  <2> QED
    BY <2>1, <2>2, <2>4, <2>5
<1>3. ASSUME NEW u \in Nat
      PROVE  /\ u < s.cliffEnd => VestedAt(s, u) = 0
             /\ u >= s.cliffEnd /\ u >= s.vestingEnd => VestedAt(s, u) = m
  BY <1>1 DEF VestedAt
<1>4. ASSUME NEW u \in Nat PROVE VestedAt(s, u) \in Nat /\ VestedAt(s, u) <= m
  BY <1>1, <1>2, <1>3
<1>5. t + 1 \in Nat
  OBVIOUS
<1>6. VestedAt(s, t) <= VestedAt(s, t + 1)
  <2>1. CASE t < s.cliffEnd
    <3>1. VestedAt(s, t) = 0 /\ VestedAt(s, t + 1) \in Nat
      BY <1>3, <1>4, <1>5, <2>1
    <3> QED
      BY <3>1
  <2>2. CASE t >= s.cliffEnd /\ t + 1 >= s.vestingEnd
    <3>1. VestedAt(s, t + 1) = m
      BY <1>1, <1>3, <1>5, <2>2
    <3> QED
      BY <1>4, <3>1
  <2>3. CASE t >= s.cliffEnd /\ t + 1 < s.vestingEnd
    <3>1. /\ d \in Nat \ {0} /\ e \in Nat /\ (t + 1) - s.startTime \in Nat
          /\ VestedAt(s, t) = (m * e) \div d
          /\ VestedAt(s, t + 1) = (m * ((t + 1) - s.startTime)) \div d
      BY <1>1, <1>2, <1>5, <2>3
    <3>2. e <= (t + 1) - s.startTime
      BY <1>1
    <3>3. /\ m * e \in Nat /\ m * ((t + 1) - s.startTime) \in Nat
          /\ m * e <= m * ((t + 1) - s.startTime)
      BY <1>1, <3>1, <3>2, MulMonotone
    <3> QED
      BY <3>1, <3>3, DivMonotone
  <2> QED
    BY <1>1, <2>1, <2>2, <2>3
<1> QED
  BY <1>4, <1>5, <1>6

LEMMA DueType ==
    ASSUME NEW t \in Nat, NEW s, Sound(s, t)
    PROVE  Due(s) \in Nat
<1>1. VestedAt(s, t) \in Nat /\ VestedAt(s, t) <= s.totalAmount
  BY VestedAtBounds DEF Sound
<1> QED
  BY <1>1 DEF Due, Sound, VestingSchedule

(* What is due on a sequence of sound schedules.                           *)
LEMMA DueAllType ==
    ASSUME NEW t \in Nat, NEW q, SoundAll(q, t)
    PROVE  /\ [k \in DOMAIN q |-> Due(q[k])] \in [DOMAIN q -> Nat]
           /\ IsFiniteSet(DOMAIN q)
           /\ DueAll(q) \in Nat
<1>1. \A k \in DOMAIN q : Due(q[k]) \in Nat
  BY DueType DEF SoundAll
<1>2. 1 \in Int /\ Len(q) \in Int /\ DOMAIN q = 1..Len(q)
  BY LenProperties DEF SoundAll
<1>3. IsFiniteSet(DOMAIN q)
  BY <1>2, FS_Interval
<1> QED
  BY <1>1, <1>3, SumType DEF DueAll

LEMMA DueReplaced ==
    ASSUME NEW t \in Nat, NEW q, SoundAll(q, t), NEW k \in DOMAIN q,
           NEW s, Sound(s, t)
    PROVE  /\ SoundAll([q EXCEPT ![k] = s], t)
           /\ DueAll([q EXCEPT ![k] = s]) = DueAll(q) + (Due(s) - Due(q[k]))
<1> DEFINE r == [q EXCEPT ![k] = s]
           f == [i \in DOMAIN q |-> Due(q[i])]
           g == [i \in DOMAIN r |-> Due(r[i])]
<1>1. /\ DOMAIN r = DOMAIN q /\ r[k] = s
      /\ \A i \in DOMAIN q \ {k} : r[i] = q[i]
  BY DEF SoundAll
<1>2. SoundAll(r, t)
  <2>1. r \in Seq(VestingSchedule)
    BY ExceptSeq, LenProperties DEF SoundAll, Sound
  <2> HIDE DEF r
  <2> QED
    BY <1>1, <2>1 DEF SoundAll
<1> HIDE DEF r
<1>3. f \in [DOMAIN q -> Nat] /\ g \in [DOMAIN q -> Nat] /\ IsFiniteSet(DOMAIN q)
  BY <1>1, <1>2, DueAllType
<1>4. g[k] = Due(s) /\ f[k] = Due(q[k]) /\ \A i \in DOMAIN q \ {k} : g[i] = f[i]
  BY <1>1
<1> HIDE DEF f, g
<1>5. Sum(g) = Sum(f) + (g[k] - f[k])
  BY <1>3, <1>4, SumChange
<1> QED
  BY <1>2, <1>4, <1>5 DEF DueAll, f, g, r

LEMMA DueAppended ==
    ASSUME NEW t \in Nat, NEW q, SoundAll(q, t), NEW s, Sound(s, t)
    PROVE  /\ SoundAll(Append(q, s), t)
           /\ DueAll(Append(q, s)) = DueAll(q) + Due(s)
<1> DEFINE r == Append(q, s)
           n == Len(q) + 1
           f == [i \in DOMAIN q |-> Due(q[i])]
           g == [i \in DOMAIN r |-> Due(r[i])]
<1>1. /\ r \in Seq(VestingSchedule) /\ Len(r) = n /\ r[n] = s
      /\ \A i \in 1..Len(q) : r[i] = q[i]
      /\ Len(q) \in Nat /\ DOMAIN q = 1..Len(q) /\ DOMAIN r = 1..n
  BY AppendProperties, LenProperties DEF SoundAll, Sound
<1> HIDE DEF r
<1>2. SoundAll(r, t)
  <2>1. ASSUME NEW i \in DOMAIN r PROVE Sound(r[i], t)
    <3>1. i = n \/ i \in DOMAIN q
      BY <1>1
    <3> QED
      BY <1>1, <3>1 DEF SoundAll
  <2> QED
    BY <1>1, <2>1 DEF SoundAll
<1>3. /\ f \in [DOMAIN q -> Nat] /\ g \in [DOMAIN r -> Nat]
      /\ IsFiniteSet(DOMAIN q)
  BY <1>2, DueAllType
<1>4. /\ \A i : i \in DOMAIN r <=> i \in DOMAIN q \/ i = n
      /\ n \notin DOMAIN q
      /\ \A i \in DOMAIN q : f[i] = g[i]
      /\ g[n] = Due(s)
  BY <1>1
<1> HIDE DEF f, g
<1>5. Sum(g) = Sum(f) + g[n]
  BY <1>3, <1>4, SumOneMore
<1> QED
  BY <1>2, <1>4, <1>5 DEF DueAll, f, g, r

-----------------------------------------------------------------------------
(* The steps.                                                              *)

LEMMA OwingType ==
    ASSUME VestInv
    PROVE  Owing \in [Beneficiaries -> Nat] /\ Sum(Owing) \in Nat
<1>1. Owing \in [Beneficiaries -> Nat]
  BY DueAllType DEF VestInv, Owing
<1> QED
  BY <1>1, SumType, VestingAssumption

(* A step that changes the schedules of one beneficiary and moves enough.  *)
LEMMA OneBeneficiary ==
    ASSUME VestInv, NEW b \in Beneficiaries, NEW q, SoundAll(q, vestNow),
           schedules' = [schedules EXCEPT ![b] = q],
           NEW h \in Nat, held' = h, UNCHANGED vestNow,
           held + (DueAll(q) - DueAll(schedules[b])) <= h
    PROVE  VestInv'
<1>1. /\ schedules' \in [Beneficiaries -> Seq(VestingSchedule)]
      /\ schedules'[b] = q
      /\ \A c \in Beneficiaries \ {b} : schedules'[c] = schedules[c]
  BY DEF VestInv, SoundAll
<1>2. \A c \in Beneficiaries : SoundAll(schedules'[c], vestNow)
  BY <1>1 DEF VestInv
<1>3. Owing \in [Beneficiaries -> Nat] /\ Sum(Owing) \in Nat
  BY OwingType
<1>4. Owing' \in [Beneficiaries -> Nat]
  BY <1>2, DueAllType DEF Owing, VestInv
<1>5. /\ Owing'[b] = DueAll(q) /\ Owing[b] = DueAll(schedules[b])
      /\ \A c \in Beneficiaries \ {b} : Owing'[c] = Owing[c]
  BY <1>1 DEF Owing
<1>6. Sum(Owing') = Sum(Owing) + (Owing'[b] - Owing[b])
  BY <1>3, <1>4, <1>5, SumChange, VestingAssumption
<1>7. DueAll(q) \in Nat /\ DueAll(schedules[b]) \in Nat
  BY DueAllType DEF VestInv
<1>8. Sum(Owing') <= h
  BY <1>3, <1>5, <1>6, <1>7 DEF VestInv
<1> QED
  BY <1>1, <1>2, <1>8 DEF VestInv

LEMMA NewScheduleSound ==
    ASSUME NEW t \in Nat, NEW amount \in VestAmounts, NEW start \in StartTimes,
           NEW cliff \in Cliffs, NEW duration \in Durations
    PROVE  LET s == NewSchedule(amount, start, cliff, duration)
           IN  Sound(s, t) /\ Due(s) = amount
<1> DEFINE s == NewSchedule(amount, start, cliff, duration)
<1>1. /\ s \in VestingSchedule /\ s.startTime <= s.cliffEnd
      /\ s.startTime <= s.vestingEnd /\ s.claimedAmount = 0
      /\ s.totalAmount = amount /\ ~s.revoked /\ amount \in Nat
  BY VestingAssumption DEF NewSchedule, VestingSchedule
<1> HIDE DEF s
<1>2. VestedAt(s, t) \in Nat
  BY <1>1, VestedAtBounds
<1>3. Sound(s, t) /\ Due(s) = amount
  BY <1>1, <1>2 DEF Sound, Due
<1> QED
  BY <1>3 DEF s

LEMMA CreateScheduleKeeps ==
    ASSUME VestInv, NEW b \in Beneficiaries, NEW amount \in VestAmounts,
           NEW start \in StartTimes, NEW cliff \in Cliffs,
           NEW duration \in Durations,
           CreateSchedule(b, amount, start, cliff, duration)
    PROVE  VestInv'
<1> DEFINE s == NewSchedule(amount, start, cliff, duration)
           q == Append(schedules[b], s)
<1>1. Sound(s, vestNow) /\ Due(s) = amount
  BY NewScheduleSound DEF VestInv
<1> HIDE DEF s
<1>2. /\ SoundAll(q, vestNow)
      /\ DueAll(q) = DueAll(schedules[b]) + amount
  BY <1>1, DueAppended DEF VestInv
<1>3. DueAll(schedules[b]) \in Nat /\ held \in Nat /\ amount \in Nat
  BY DueAllType, VestingAssumption DEF VestInv
<1>4. /\ schedules' = [schedules EXCEPT ![b] = q]
      /\ held' = held + amount /\ UNCHANGED vestNow
  BY DEF CreateSchedule, s, VestInv
<1>5. /\ held + amount \in Nat
      /\ held + (DueAll(q) - DueAll(schedules[b])) <= held + amount
  BY <1>2, <1>3
<1> HIDE DEF q
<1> QED
  BY <1>2, <1>4, <1>5, OneBeneficiary

(* The batch adds to what is due to each of its beneficiaries the amount   *)
(* of its own schedule.                                                    *)
LEMMA BatchKeeps ==
    ASSUME VestInv, NEW S \in SUBSET Beneficiaries,
           NEW amounts \in [S -> VestAmounts], NEW start \in StartTimes,
           NEW cliff \in Cliffs, NEW duration \in Durations,
           BatchCreateSchedules(amounts, start, cliff, duration)
    PROVE  VestInv'
<1> DEFINE added == [b \in Beneficiaries |->
                        IF b \in S THEN amounts[b] ELSE 0]
<1>1. /\ DOMAIN amounts = S /\ amounts \in [S -> Nat]
      /\ added \in [Beneficiaries -> Nat]
      /\ IsFiniteSet(Beneficiaries)
      /\ held \in Nat /\ vestNow \in Nat
  BY VestingAssumption DEF VestInv
<1>2. /\ schedules' \in [Beneficiaries -> Seq(VestingSchedule)]
      /\ \A b \in Beneficiaries :
            /\ SoundAll(schedules'[b], vestNow)
            /\ DueAll(schedules'[b]) = DueAll(schedules[b]) + added[b]
  <2>0. ASSUME NEW b \in S
        PROVE  amounts[b] \in VestAmounts
    OBVIOUS
  <2>1. ASSUME NEW b \in Beneficiaries
        PROVE  /\ SoundAll(schedules'[b], vestNow)
               /\ DueAll(schedules'[b]) = DueAll(schedules[b]) + added[b]
    <3>1. SoundAll(schedules[b], vestNow) /\ DueAll(schedules[b]) \in Nat
      BY DueAllType DEF VestInv
    <3>2. CASE b \in S
      <4> DEFINE s == NewSchedule(amounts[b], start, cliff, duration)
      <4>1. schedules'[b] = Append(schedules[b], s) /\ added[b] = amounts[b]
        BY <1>1, <3>2 DEF BatchCreateSchedules
      <4>2. Sound(s, vestNow) /\ Due(s) = amounts[b]
        BY <1>1, <2>0, <3>2, NewScheduleSound
      <4> HIDE DEF s
      <4> QED
        BY <1>1, <3>1, <4>1, <4>2, DueAppended
    <3>3. CASE b \notin S
      <4>1. schedules'[b] = schedules[b] /\ added[b] = 0
        BY <1>1, <3>3 DEF BatchCreateSchedules
      <4> QED
        BY <3>1, <4>1
    <3> QED
      BY <3>2, <3>3
  <2>2. schedules' = [b \in Beneficiaries |-> schedules'[b]]
    BY DEF BatchCreateSchedules
  <2> QED
    BY <2>1, <2>2 DEF SoundAll
<1>3. Sum(amounts) \in Nat /\ Sum(added) = Sum(amounts)
  <2>1. IsFiniteSet(S)
    BY <1>1, FS_Subset
  <2>2. Sum(amounts) \in Nat
    BY <1>1, <2>1, SumType
  <2>3. /\ \A b \in Beneficiaries : b \notin S => added[b] = 0
        /\ \A b \in S : added[b] = amounts[b]
    OBVIOUS
  <2> HIDE DEF added
  <2> QED
    BY <1>1, <2>2, <2>3, SumPadded
<1> HIDE DEF added
<1>4. Owing \in [Beneficiaries -> Nat] /\ Sum(Owing) \in Nat
  BY OwingType
<1>5. /\ Owing' \in [Beneficiaries -> Nat]
      /\ \A b \in Beneficiaries : Owing'[b] = Owing[b] + added[b]
  BY <1>1, <1>2, DueAllType DEF Owing
<1>6. Sum(Owing') = Sum(Owing) + Sum(amounts)
  BY <1>1, <1>3, <1>4, <1>5, SumPlus
<1>7. held' = held + Sum(amounts) /\ UNCHANGED vestNow
  BY DEF BatchCreateSchedules
<1>8. held' \in Nat /\ Sum(Owing') <= held'
  BY <1>1, <1>3, <1>4, <1>6, <1>7 DEF VestInv
<1> QED
  BY <1>1, <1>2, <1>7, <1>8 DEF VestInv

(* Revocation pays the unvested part and frees the rest.                   *)
LEMMA RevokeKeeps ==
    ASSUME VestInv, NEW b \in Beneficiaries, NEW k, RevokeSchedule(b, k)
    PROVE  VestInv'
<1> DEFINE s == schedules[b][k]
           r == [s EXCEPT !.revoked = TRUE]
           unvested == s.totalAmount - VestedAt(s, vestNow)
           q == [schedules[b] EXCEPT ![k] = r]
<1>1. /\ k \in DOMAIN schedules[b] /\ ~s.revoked /\ unvested <= held
      /\ held' = held - unvested /\ UNCHANGED vestNow
      /\ SoundAll(schedules[b], vestNow) /\ Sound(s, vestNow)
      /\ held \in Nat /\ vestNow \in Nat
  BY DEF RevokeSchedule, VestInv, SoundAll
<1>2. schedules' = [schedules EXCEPT ![b] = q]
  BY DEF RevokeSchedule
<1>3. Sound(r, vestNow) /\ Due(r) = 0
  BY <1>1 DEF Sound, VestingSchedule, Due
<1>4. /\ VestedAt(s, vestNow) \in Nat
      /\ VestedAt(s, vestNow) <= s.totalAmount
      /\ s.totalAmount \in Nat /\ s.claimedAmount \in Nat
      /\ s.claimedAmount <= VestedAt(s, vestNow)
      /\ Due(s) = s.totalAmount - s.claimedAmount
  BY <1>1, VestedAtBounds DEF Sound, VestingSchedule, Due
<1> HIDE DEF r, s
<1>5. /\ SoundAll(q, vestNow)
      /\ DueAll(q) = DueAll(schedules[b]) + (0 - Due(s))
  BY <1>1, <1>3, DueReplaced DEF s
<1>6. DueAll(schedules[b]) \in Nat
  BY <1>1, DueAllType
<1>7. /\ held - unvested \in Nat
      /\ held + (DueAll(q) - DueAll(schedules[b])) <= held - unvested
  BY <1>1, <1>4, <1>5, <1>6
<1> HIDE DEF q, unvested
<1> QED
  BY <1>1, <1>2, <1>5, <1>7, OneBeneficiary

(* A claim makes the claimed amount what is vested.                        *)
LEMMA ClaimedSchedule ==
    ASSUME NEW t \in Nat, NEW s, Sound(s, t)
    PROVE  LET r == [s EXCEPT !.claimedAmount = s.claimedAmount + Claimable(s, t)]
           IN  /\ Claimable(s, t) \in Nat
               /\ Sound(r, t)
               /\ Due(r) + Claimable(s, t) = Due(s)
<1> DEFINE n == Claimable(s, t)
           r == [s EXCEPT !.claimedAmount = s.claimedAmount + n]
<1>1. /\ VestedAt(s, t) \in Nat
      /\ VestedAt(s, t) <= s.totalAmount
      /\ s.totalAmount \in Nat /\ s.claimedAmount \in Nat
      /\ s.revoked \in BOOLEAN /\ s.cliffEnd \in Nat
  BY VestedAtBounds DEF Sound, VestingSchedule
<1>2. /\ n \in Nat
      /\ s.revoked => n = 0
      /\ ~s.revoked => s.claimedAmount + n <= VestedAt(s, t)
  BY <1>1 DEF Claimable, Sound, VestedAt
<1> HIDE DEF n
<1>3. /\ r \in VestingSchedule
      /\ r.startTime = s.startTime /\ r.cliffEnd = s.cliffEnd
      /\ r.vestingEnd = s.vestingEnd /\ r.totalAmount = s.totalAmount
      /\ r.revoked = s.revoked /\ r.claimedAmount = s.claimedAmount + n
  BY <1>1, <1>2 DEF Sound, VestingSchedule
<1> HIDE DEF r
<1>4. VestedAt(r, t) = VestedAt(s, t)
  BY <1>3 DEF VestedAt
<1>5. Sound(r, t)
  BY <1>2, <1>3, <1>4 DEF Sound
<1>6. Due(r) + n = Due(s)
  BY <1>1, <1>2, <1>3 DEF Due
<1> QED
  BY <1>2, <1>5, <1>6 DEF r, n

LEMMA ClaimTrancheKeeps ==
    ASSUME VestInv, NEW b \in Beneficiaries, NEW k, ClaimTranche(b, k)
    PROVE  VestInv'
<1> DEFINE s == schedules[b][k]
           n == Claimable(s, vestNow)
           r == [s EXCEPT !.claimedAmount = s.claimedAmount + n]
           q == [schedules[b] EXCEPT ![k] = r]
<1>1. /\ k \in DOMAIN schedules[b] /\ n <= held
      /\ held' = held - n /\ UNCHANGED vestNow
      /\ SoundAll(schedules[b], vestNow) /\ Sound(s, vestNow)
      /\ held \in Nat /\ vestNow \in Nat
  BY DEF ClaimTranche, VestInv, SoundAll
<1>2. schedules' = [schedules EXCEPT ![b] = q]
  BY DEF ClaimTranche
<1>3. n \in Nat /\ Sound(r, vestNow) /\ Due(r) + n = Due(s)
  BY <1>1, ClaimedSchedule
<1>4. Due(r) \in Nat /\ Due(s) \in Nat /\ DueAll(schedules[b]) \in Nat
  BY <1>1, <1>3, DueType, DueAllType
<1> HIDE DEF r, n, s
<1>5. /\ SoundAll(q, vestNow)
      /\ DueAll(q) = DueAll(schedules[b]) + (Due(r) - Due(s))
  BY <1>1, <1>3, DueReplaced DEF s
<1>6. /\ held - n \in Nat
      /\ held + (DueAll(q) - DueAll(schedules[b])) <= held - n
  BY <1>1, <1>3, <1>4, <1>5
<1> HIDE DEF q
<1> QED
  BY <1>1, <1>2, <1>5, <1>6, OneBeneficiary

LEMMA ClaimAllKeeps ==
    ASSUME VestInv, NEW b \in Beneficiaries, ClaimAll(b)
    PROVE  VestInv'
<1> DEFINE p == schedules[b]
           open == [k \in DOMAIN p |-> Claimable(p[k], vestNow)]
           q == [k \in DOMAIN p |-> [p[k] EXCEPT
                    !.claimedAmount = p[k].claimedAmount + Claimable(p[k], vestNow)]]
           f == [k \in DOMAIN p |-> Due(p[k])]
           g == [k \in DOMAIN q |-> Due(q[k])]
<1>1. /\ SoundAll(p, vestNow) /\ held \in Nat /\ vestNow \in Nat
      /\ Sum(open) <= held /\ held' = held - Sum(open)
      /\ UNCHANGED vestNow
  BY DEF VestInv, ClaimAll
<1>2. schedules' = [schedules EXCEPT ![b] = q]
  BY DEF ClaimAll
<1>3. DOMAIN q = DOMAIN p /\ DOMAIN p = 1..Len(p) /\ Len(p) \in Nat
  BY <1>1, LenProperties DEF SoundAll
<1>4. ASSUME NEW k \in DOMAIN p
      PROVE  /\ open[k] \in Nat /\ Sound(q[k], vestNow)
             /\ g[k] + open[k] = f[k] /\ g[k] \in Nat
  <2>1. Sound(p[k], vestNow)
    BY <1>1 DEF SoundAll
  <2>2. /\ open[k] \in Nat /\ Sound(q[k], vestNow)
        /\ Due(q[k]) + open[k] = Due(p[k])
    BY <1>1, <2>1, ClaimedSchedule
  <2>3. Due(q[k]) \in Nat
    BY <1>1, <2>2, DueType
  <2> HIDE DEF open, q
  <2> QED
    BY <1>3, <2>2, <2>3
<1>5. /\ open \in [DOMAIN p -> Nat] /\ g \in [DOMAIN p -> Nat]
      /\ f \in [DOMAIN p -> Nat] /\ IsFiniteSet(DOMAIN p)
  <2>1. f \in [DOMAIN p -> Nat] /\ IsFiniteSet(DOMAIN p)
    BY <1>1, DueAllType
  <2>2. open \in [DOMAIN p -> Nat]
    BY <1>4
  <2>3. g \in [DOMAIN p -> Nat]
    <3> HIDE DEF q
    <3> QED
      BY <1>3, <1>4
  <2> QED
    BY <2>1, <2>2, <2>3
<1>6. SoundAll(q, vestNow)
  <2>1. \A k \in DOMAIN p : q[k] \in VestingSchedule
    BY <1>4 DEF Sound
  <2> HIDE DEF p
  <2>2. q \in [1..Len(p) -> VestingSchedule]
    BY <1>3, <2>1
  <2> HIDE DEF q
  <2>3. q \in Seq(VestingSchedule)
    BY <1>3, <2>2, SeqDef
  <2> QED
    BY <1>3, <1>4, <2>3 DEF SoundAll
<1> HIDE DEF p, q, f, g, open
<1>7. Sum(f) = Sum(g) + Sum(open)
  BY <1>4, <1>5, SumPlus
<1>8. Sum(f) \in Nat /\ Sum(g) \in Nat /\ Sum(open) \in Nat
  BY <1>5, SumType
<1>9. Sum(f) = DueAll(p) /\ Sum(g) = DueAll(q)
  BY DEF DueAll, f, g
<1>10. /\ held - Sum(open) \in Nat
       /\ held + (DueAll(q) - DueAll(p)) <= held - Sum(open)
  BY <1>1, <1>7, <1>8, <1>9
<1> QED
  BY <1>1, <1>2, <1>6, <1>10, OneBeneficiary DEF p

LEMMA VestTickKeeps ==
    ASSUME VestInv, VestTick
    PROVE  VestInv'
<1>1. /\ vestNow \in Nat /\ vestNow' = vestNow + 1
      /\ UNCHANGED <<schedules, held>>
  BY DEF VestInv, VestTick
<1>2. ASSUME NEW s, Sound(s, vestNow) PROVE Sound(s, vestNow + 1)
  <2>1. /\ VestedAt(s, vestNow) \in Nat
        /\ VestedAt(s, vestNow) <= VestedAt(s, vestNow + 1)
    BY <1>1, <1>2, VestedAtBounds DEF Sound
  <2>2. VestedAt(s, vestNow + 1) \in Nat
    BY <1>1, <1>2, VestedAtBounds DEF Sound
  <2> QED
    BY <1>2, <2>1, <2>2 DEF Sound, VestingSchedule
<1>3. \A b \in Beneficiaries : SoundAll(schedules[b], vestNow + 1)
  BY <1>2 DEF VestInv, SoundAll
<1>4. Owing' = Owing
  BY <1>1 DEF Owing
<1> QED
  BY <1>1, <1>3, <1>4 DEF VestInv

LEMMA VestInvariant == VestSpec => []VestInv
<1>1. VestInit => VestInv
  <2> SUFFICES ASSUME VestInit PROVE VestInv
    OBVIOUS
  <2>1. \A b \in Beneficiaries : schedules[b] = <<>>
    BY DEF VestInit
  <2>2. DueAll(<<>>) = 0
    <3> DEFINE f == [k \in DOMAIN <<>> |-> Due(<<>>[k])]
    <3>1. f \in [{} -> Nat] /\ \A x \in {} : f[x] = 0
      OBVIOUS
    <3> HIDE DEF f
    <3>2. Sum(f) = 0
      BY <3>1, SumZero
    <3> QED
      BY <3>2 DEF DueAll, f
  <2>3. Owing \in [Beneficiaries -> Nat] /\ \A b \in Beneficiaries : Owing[b] = 0
    BY <2>1, <2>2 DEF Owing
  <2>4. Sum(Owing) = 0
    BY <2>3, SumZero
  <2>5. \A b \in Beneficiaries : SoundAll(schedules[b], vestNow)
    <3>1. <<>> \in Seq(VestingSchedule) /\ DOMAIN <<>> = {}
      BY EmptySeq
    <3> QED
      BY <2>1, <3>1, Zenon DEF SoundAll
  <2> QED
    BY <2>4, <2>5 DEF VestInit, VestInv
<1>2. VestInv /\ [VestNext]_vestVars => VestInv'
  <2> SUFFICES ASSUME VestInv, [VestNext]_vestVars PROVE VestInv'
    OBVIOUS
  <2>1. CASE UNCHANGED vestVars
    BY <2>1 DEF vestVars, VestInv, Owing
  <2> QED
    BY <2>1, CreateScheduleKeeps, BatchKeeps, RevokeKeeps, ClaimTrancheKeeps,
       ClaimAllKeeps, VestTickKeeps DEF VestNext
<1> QED
  BY <1>1, <1>2, PTL DEF VestSpec

(* Every live schedule is honoured: whatever mix of single and batch       *)
(* creations, claims, batch claims, revocations and time, no subtraction   *)
(* of the contract underflows and its tokens cover all that is still due.  *)
THEOREM VestingSchedulesHonoured == VestSpec => []SchedulesHonoured
<1>1. VestInv => SchedulesHonoured
  <2> SUFFICES ASSUME VestInv PROVE SchedulesHonoured
    OBVIOUS
  <2>1. ASSUME NEW b \in Beneficiaries, NEW k \in DOMAIN schedules[b],
               ~schedules[b][k].revoked
        PROVE  LET s == schedules[b][k]
               IN  /\ s.claimedAmount <= VestedAt(s, vestNow)
                   /\ VestedAt(s, vestNow) <= VestedAt(s, vestNow + 1)
                   /\ VestedAt(s, vestNow + 1) <= s.totalAmount
    <3>1. vestNow \in Nat /\ Sound(schedules[b][k], vestNow)
      BY DEF VestInv, SoundAll
    <3> QED
      BY <2>1, <3>1, VestedAtBounds DEF Sound
  <2>2. held >= Sum([b \in Beneficiaries |-> Outstanding(b)])
    <3>1. \A b \in Beneficiaries : Outstanding(b) = DueAll(schedules[b])
      BY DEF Outstanding, DueAll, Due
    <3>2. [b \in Beneficiaries |-> Outstanding(b)] = Owing
      BY <3>1 DEF Owing
    <3>3. Sum(Owing) \in Nat
      BY OwingType
    <3> QED
      BY <3>2, <3>3 DEF VestInv
  <2> QED
    BY <2>1, <2>2 DEF SchedulesHonoured
<1> QED
  BY <1>1, VestInvariant, PTL

-----------------------------------------------------------------------------
(* The dividend distributor.  A balance is registered for an epoch that    *)
(* exists, and only registered balances are paid: so a claimed epoch's     *)
(* share never changes again.                                              *)

Epoch == [totalAmount : Nat, totalSupplySnapshot : Nat \ {0}]

DivTyped ==
    /\ epochs \in Seq(Epoch)
    /\ Len(epochs) <= MaxEpochs
    /\ epochClaimed \subseteq snapshotTaken
    /\ snapshotTaken \subseteq (1..Len(epochs)) \X Holders
    /\ holderSnapshots \in [EpochIds \X Holders -> Nat]
    /\ totalClaimedByHolder \in [Holders -> Nat]
    /\ lastClaimedEpoch \in [Holders -> Nat]
    /\ usdcHeld \in Nat
    /\ balance \in [Holders -> Nat]
    /\ totalSupply \in Nat

PaidEpochs(h) == {e \in EpochIds : <<e, h>> \in epochClaimed}

PaidOnce ==
    \A h \in Holders :
        totalClaimedByHolder[h] = Sum([e \in PaidEpochs(h) |-> Share(h, e)])

Deposited == [e \in DOMAIN epochs |-> epochs[e].totalAmount]

RestIsHeld == usdcHeld + Sum(totalClaimedByHolder) = Sum(Deposited)

DivInv == DivTyped /\ PaidOnce /\ RestIsHeld

LEMMA EpochIdsFinite ==
    /\ IsFiniteSet(EpochIds)
    /\ \A E : E \subseteq EpochIds => IsFiniteSet(E)
<1>1. 1 \in Int /\ MaxEpochs \in Int
  BY DividendAssumption
<1>2. IsFiniteSet(EpochIds)
  BY <1>1, FS_Interval DEF EpochIds
<1> QED
  BY <1>2, FS_Subset

LEMMA EpochFacts ==
    ASSUME DivTyped
    PROVE  /\ DOMAIN epochs = 1..Len(epochs) /\ Len(epochs) \in Nat
           /\ DOMAIN epochs \subseteq EpochIds
           /\ IsFiniteSet(DOMAIN epochs)
           /\ \A e \in DOMAIN epochs :
                 /\ epochs[e] \in Epoch
                 /\ epochs[e].totalAmount \in Nat
                 /\ epochs[e].totalSupplySnapshot \in Nat \ {0}
           /\ Deposited \in [DOMAIN epochs -> Nat]
<1>1. DOMAIN epochs = 1..Len(epochs) /\ Len(epochs) \in Nat
  BY LenProperties DEF DivTyped
<1>2. DOMAIN epochs \subseteq EpochIds
  BY <1>1, DividendAssumption DEF DivTyped, EpochIds
<1>3. \A e \in DOMAIN epochs : epochs[e] \in Epoch
  BY <1>1, ElementOfSeq DEF DivTyped
<1>4. \A e \in DOMAIN epochs : /\ epochs[e].totalAmount \in Nat
                              /\ epochs[e].totalSupplySnapshot \in Nat \ {0}
  BY <1>3 DEF Epoch
<1> QED
  BY <1>1, <1>2, <1>3, <1>4, EpochIdsFinite DEF Deposited

LEMMA ShareType ==
    ASSUME DivTyped, NEW h \in Holders, NEW e \in EpochIds
    PROVE  Share(h, e) \in Nat
<1>1. CASE <<e, h>> \in snapshotTaken
  <2>1. e \in DOMAIN epochs
    BY <1>1, EpochFacts DEF DivTyped
  <2> DEFINE n == holderSnapshots[<<e, h>>]
             m == epochs[e].totalAmount
             d == epochs[e].totalSupplySnapshot
  <2>2. n \in Nat /\ m \in Nat /\ d \in Nat \ {0}
    BY <2>1, EpochFacts DEF DivTyped
  <2>3. Share(h, e) = (n * m) \div d
    BY <1>1 DEF Share
  <2> HIDE DEF n, m, d
  <2>4. n * m \in Nat
    BY <2>2
  <2> QED
    BY <2>2, <2>3, <2>4, DivFacts
<1>2. CASE <<e, h>> \notin snapshotTaken
  BY <1>2 DEF Share
<1> QED
  BY <1>1, <1>2

LEMMA PaidType ==
    ASSUME DivTyped, NEW h \in Holders, NEW E \in SUBSET EpochIds
    PROVE  /\ [e \in E |-> Share(h, e)] \in [E -> Nat]
           /\ Sum([e \in E |-> Share(h, e)]) \in Nat
<1>1. [e \in E |-> Share(h, e)] \in [E -> Nat]
  BY ShareType
<1> QED
  BY <1>1, SumType, EpochIdsFinite

(* A step that pays nobody and leaves the share of every claimed epoch.    *)
LEMMA PaysNobody ==
    ASSUME DivInv, UNCHANGED <<epochClaimed, totalClaimedByHolder>>,
           \A h \in Holders : \A e \in PaidEpochs(h) : Share(h, e)' = Share(h, e)
    PROVE  PaidOnce'
<1>1. ASSUME NEW h \in Holders
      PROVE  totalClaimedByHolder'[h]
                 = Sum([e \in PaidEpochs(h)' |-> Share(h, e)'])
  <2>1. PaidEpochs(h)' = PaidEpochs(h)
    BY DEF PaidEpochs
  <2>2. [e \in PaidEpochs(h)' |-> Share(h, e)']
            = [e \in PaidEpochs(h) |-> Share(h, e)]
    BY <2>1
  <2>3. totalClaimedByHolder[h] = Sum([e \in PaidEpochs(h) |-> Share(h, e)])
    BY DEF DivInv, PaidOnce
  <2> QED
    BY <2>2, <2>3
<1> QED
  BY <1>1 DEF PaidOnce

LEMMA DepositKeeps ==
    ASSUME DivInv, NEW amount \in Deposits, Deposit(amount)
    PROVE  DivInv'
<1> DEFINE n == Len(epochs) + 1
           rec == [totalAmount |-> amount, totalSupplySnapshot |-> totalSupply]
<1>1. DivTyped /\ amount \in Nat /\ totalSupply \in Nat \ {0}
  BY DividendAssumption DEF DivInv, Deposit, DivTyped
<1>2. /\ epochs' = Append(epochs, rec) /\ usdcHeld' = usdcHeld + amount
      /\ Len(epochs) < MaxEpochs
      /\ UNCHANGED <<epochClaimed, totalClaimedByHolder, lastClaimedEpoch,
                     holderSnapshots, snapshotTaken, balance, totalSupply>>
  BY DEF Deposit, snapVars, shareVars
<1>3. rec \in Epoch /\ rec.totalAmount = amount
  BY <1>1 DEF Epoch
<1> HIDE DEF rec
<1>4. /\ epochs' \in Seq(Epoch) /\ Len(epochs') = n /\ epochs'[n] = rec
      /\ \A e \in 1..Len(epochs) : epochs'[e] = epochs[e]
      /\ Len(epochs) \in Nat
  BY <1>1, <1>2, <1>3, AppendProperties, LenProperties DEF DivTyped
<1>5. DivTyped'
  <2>1. Len(epochs)' <= MaxEpochs
    BY <1>2, <1>4, DividendAssumption
  <2>2. 1..Len(epochs) \subseteq 1..Len(epochs)'
    BY <1>4
  <2>3. usdcHeld' \in Nat
    BY <1>1, <1>2 DEF DivTyped
  <2> QED
    BY <1>1, <1>2, <1>4, <2>1, <2>2, <2>3 DEF DivTyped
<1>6. PaidOnce'
  <2>1. ASSUME NEW h \in Holders, NEW e \in PaidEpochs(h)
        PROVE  Share(h, e)' = Share(h, e)
    <3>1. e \in 1..Len(epochs)
      BY <1>1, <2>1 DEF PaidEpochs, DivTyped
    <3> QED
      BY <1>2, <1>4, <3>1 DEF Share
  <2> QED
    BY <1>2, <2>1, PaysNobody
<1>7. RestIsHeld'
  <2>1. /\ DOMAIN epochs = 1..Len(epochs)
        /\ IsFiniteSet(DOMAIN epochs)
        /\ Deposited \in [DOMAIN epochs -> Nat]
    BY <1>1, EpochFacts
  <2>2. /\ DOMAIN epochs' = 1..n
        /\ Deposited' \in [DOMAIN epochs' -> Nat]
    <3>1. DOMAIN epochs' = 1..n
      BY <1>4, LenProperties
    <3>2. \A e \in 1..n : epochs'[e] \in Epoch
      BY <1>4, ElementOfSeq
    <3>3. \A e \in 1..n : epochs'[e].totalAmount \in Nat
      BY <3>2 DEF Epoch
    <3> QED
      BY <3>1, <3>3 DEF Deposited
  <2>3. /\ \A e : e \in DOMAIN epochs' <=> e \in DOMAIN epochs \/ e = n
        /\ n \notin DOMAIN epochs
        /\ \A e \in DOMAIN epochs : Deposited[e] = Deposited'[e]
        /\ Deposited'[n] = amount
    BY <1>3, <1>4, <2>1, <2>2 DEF Deposited
  <2>4. Sum(Deposited') = Sum(Deposited) + Deposited'[n]
    <3> DEFINE U == DOMAIN epochs'
               S == DOMAIN epochs
               f == Deposited'
               g == Deposited
    <3>1. /\ IsFiniteSet(S) /\ n \notin S /\ f \in [U -> Nat]
          /\ g \in [S -> Nat] /\ \A x \in S : g[x] = f[x]
          /\ \A x : x \in U <=> x \in S \/ x = n
      BY <2>1, <2>2, <2>3
    <3> HIDE DEF U, S, f, g, n
    <3>2. Sum(f) = Sum(g) + f[n]
      BY <3>1, SumOneMore
    <3> QED
      BY <3>2 DEF f, g
  <2>5. Sum(Deposited) \in Nat
    BY <2>1, SumType
  <2>6. Sum(totalClaimedByHolder) \in Nat /\ usdcHeld \in Nat
    BY <1>1, SumType, DividendAssumption DEF DivTyped
  <2>7. (usdcHeld + amount) + Sum(totalClaimedByHolder) = Sum(Deposited')
    BY <1>1, <2>3, <2>4, <2>5, <2>6 DEF DivInv, RestIsHeld
  <2> QED
    BY <1>2, <2>7 DEF RestIsHeld
<1> QED
  BY <1>5, <1>6, <1>7 DEF DivInv

LEMMA SnapshotKeeps ==
    ASSUME DivInv, NEW h \in Holders, NEW e \in EpochIds, SnapshotBalance(h, e)
    PROVE  DivInv'
<1>1. /\ DivTyped /\ <<e, h>> \notin snapshotTaken /\ e \in 1..Len(epochs)
      /\ holderSnapshots' = [holderSnapshots EXCEPT ![<<e, h>>] = balance[h]]
      /\ snapshotTaken' = snapshotTaken \cup {<<e, h>>}
      /\ UNCHANGED <<epochs, epochClaimed, totalClaimedByHolder,
                     lastClaimedEpoch, usdcHeld, balance, totalSupply>>
  BY EpochFacts DEF SnapshotBalance, DivInv, claimVars, shareVars, EpochIds
<1>2. DivTyped'
  <2>1. holderSnapshots' \in [EpochIds \X Holders -> Nat]
    BY <1>1 DEF DivTyped
  <2> QED
    BY <1>1, <2>1 DEF DivTyped
<1>3. PaidOnce'
  <2>1. ASSUME NEW g \in Holders, NEW d \in PaidEpochs(g)
        PROVE  Share(g, d)' = Share(g, d)
    <3>1. <<d, g>> \in snapshotTaken /\ d \in EpochIds
      BY <1>1, <2>1 DEF PaidEpochs, DivTyped
    <3>2. <<d, g>> # <<e, h>>
      BY <1>1, <3>1
    <3>3. holderSnapshots'[<<d, g>>] = holderSnapshots[<<d, g>>]
      BY <1>1, <3>1, <3>2 DEF DivTyped
    <3> QED
      BY <1>1, <3>1, <3>3 DEF Share
  <2> QED
    BY <1>1, <2>1, PaysNobody
<1> QED
  BY <1>1, <1>2, <1>3 DEF DivInv, RestIsHeld, Deposited

(* Paying the epochs of a range that are not claimed yet.                  *)
LEMMA PayKeeps ==
    ASSUME DivInv, NEW h \in Holders, NEW E \in SUBSET EpochIds, Pay(h, E),
           lastClaimedEpoch' \in [Holders -> Nat],
           UNCHANGED <<epochs, snapVars, shareVars>>
    PROVE  DivInv'
<1> DEFINE P == Payable(h, E)
           owed == Owed(h, E)
<1>1. /\ DivTyped
      /\ UNCHANGED <<epochs, holderSnapshots, snapshotTaken, balance,
                     totalSupply>>
      /\ owed <= usdcHeld
      /\ epochClaimed' = epochClaimed \cup (P \X {h})
      /\ totalClaimedByHolder' = [totalClaimedByHolder EXCEPT ![h] = @ + owed]
      /\ usdcHeld' = usdcHeld - owed
  BY DEF Pay, snapVars, shareVars, DivInv
<1>2. /\ P \subseteq EpochIds
      /\ \A e \in P : <<e, h>> \notin epochClaimed /\ <<e, h>> \in snapshotTaken
  BY DEF Payable, Share
<1>3. owed \in Nat /\ owed = Sum([e \in P |-> Share(h, e)])
  BY <1>1, <1>2, PaidType DEF Owed
<1> HIDE DEF P, owed
<1>4. usdcHeld \in Nat /\ totalClaimedByHolder \in [Holders -> Nat]
  BY <1>1 DEF DivTyped
<1>5. /\ totalClaimedByHolder' \in [Holders -> Nat]
      /\ totalClaimedByHolder'[h] = totalClaimedByHolder[h] + owed
      /\ \A g \in Holders \ {h} :
            totalClaimedByHolder'[g] = totalClaimedByHolder[g]
  BY <1>1, <1>3, <1>4
<1>6. DivTyped'
  <2>1. usdcHeld' \in Nat
    BY <1>1, <1>3, <1>4
  <2>2. epochClaimed' \subseteq snapshotTaken
    BY <1>1, <1>2 DEF DivTyped
  <2> QED
    BY <1>1, <1>5, <2>1, <2>2 DEF DivTyped
<1>7. \A g, e : Share(g, e)' = Share(g, e)
  BY <1>1 DEF Share
<1>8. PaidOnce'
  <2>1. ASSUME NEW g \in Holders
        PROVE  totalClaimedByHolder'[g]
                   = Sum([e \in PaidEpochs(g)' |-> Share(g, e)])
    <3> DEFINE Q == PaidEpochs(g)
               R == PaidEpochs(g)'
               s(D) == [e \in D |-> Share(g, e)]
    <3>1. totalClaimedByHolder[g] = Sum(s(Q))
      BY DEF DivInv, PaidOnce
    <3>2. CASE g # h
      <4>1. R = Q
        BY <1>1, <3>2 DEF PaidEpochs
      <4> QED
        BY <1>5, <3>1, <3>2, <4>1
    <3>3. CASE g = h
      <4>1. /\ \A e : e \in R <=> e \in Q \/ e \in P
            /\ \A e \in Q : e \notin P
        BY <1>1, <1>2, <3>3 DEF PaidEpochs
      <4>2. /\ Q \subseteq EpochIds /\ R \subseteq EpochIds
        BY <1>2, <4>1 DEF PaidEpochs
      <4>3. /\ s(P) \in [P -> Nat] /\ s(Q) \in [Q -> Nat] /\ s(R) \in [R -> Nat]
            /\ Sum(s(Q)) \in Nat
        BY <1>1, <1>2, <4>2, PaidType
      <4>4. IsFiniteSet(P) /\ IsFiniteSet(Q)
        BY <1>2, <4>2, EpochIdsFinite
      <4>5. /\ \A e \in P : s(P)[e] = s(R)[e]
            /\ \A e \in Q : s(Q)[e] = s(R)[e]
        BY <4>1
      <4>6. Sum(s(P)) = owed
        BY <1>3, <3>3
      <4>7. Sum(s(R)) = Sum(s(Q)) + Sum(s(P))
        <5> DEFINE fP == s(P)
                   fQ == s(Q)
                   fR == s(R)
        <5> HIDE DEF s, fP, fQ, fR, Q, R
        <5>1. /\ fP \in [P -> Nat] /\ fQ \in [Q -> Nat] /\ fR \in [R -> Nat]
              /\ \A e \in P : fP[e] = fR[e]
              /\ \A e \in Q : fQ[e] = fR[e]
          BY <4>3, <4>5 DEF fP, fQ, fR
        <5>2. Sum(fR) = Sum(fQ) + Sum(fP)
          BY <4>1, <4>4, <5>1, SumSplit
        <5> QED
          BY <5>2 DEF fP, fQ, fR
      <4>8. totalClaimedByHolder'[g] = Sum(s(R))
        BY <1>5, <3>1, <3>3, <4>6, <4>7
      <4> QED
        BY <4>8
    <3> QED
      BY <3>2, <3>3
  <2> QED
    BY <1>7, <2>1 DEF PaidOnce
<1>9. RestIsHeld'
  <2>1. Sum(totalClaimedByHolder') = Sum(totalClaimedByHolder)
            + (totalClaimedByHolder'[h] - totalClaimedByHolder[h])
    BY <1>4, <1>5, SumChange, DividendAssumption
  <2>2. /\ Sum(totalClaimedByHolder) \in Nat /\ totalClaimedByHolder[h] \in Nat
    BY <1>4, SumType, DividendAssumption
  <2>3. Deposited' = Deposited
    BY <1>1 DEF Deposited
  <2>4. Sum(totalClaimedByHolder') = Sum(totalClaimedByHolder) + owed
    BY <1>3, <1>5, <2>1, <2>2
  <2>5. (usdcHeld - owed) + (Sum(totalClaimedByHolder) + owed) = Sum(Deposited)
    BY <1>3, <1>4, <2>2 DEF DivInv, RestIsHeld
  <2>6. usdcHeld' + Sum(totalClaimedByHolder') = Sum(Deposited')
    BY <1>1, <2>3, <2>4, <2>5, Zenon
  <2> QED
    BY <2>6 DEF RestIsHeld
<1> QED
  BY <1>6, <1>8, <1>9 DEF DivInv

(* The token's own steps.                                                  *)
LEMMA TradeKeeps ==
    ASSUME DivInv, balance' \in [Holders -> Nat], totalSupply' \in Nat,
           UNCHANGED <<epochs, claimVars, snapVars>>
    PROVE  DivInv'
<1>1. UNCHANGED <<epochs, epochClaimed, totalClaimedByHolder,
                  lastClaimedEpoch, usdcHeld, holderSnapshots, snapshotTaken>>
  BY DEF claimVars, snapVars
<1>2. \A h, e : Share(h, e)' = Share(h, e)
  BY <1>1 DEF Share
<1>3. PaidOnce'
  BY <1>1, <1>2, PaysNobody
<1> QED
  BY <1>1, <1>3 DEF DivInv, DivTyped, RestIsHeld, Deposited

LEMMA DivInvariant == DivSpec => []DivInv
<1>1. DivInit => DivInv
  <2> SUFFICES ASSUME DivInit PROVE DivInv
    OBVIOUS
  <2>1. DivTyped
    <3>1. balance \in [Holders -> Nat]
      BY DividendAssumption DEF DivInit
    <3>2. totalSupply \in Nat
      BY <3>1, SumType, DividendAssumption DEF DivInit
    <3>3. epochs \in Seq(Epoch) /\ Len(epochs) = 0
      BY EmptySeq DEF DivInit
    <3> QED
      BY <3>1, <3>2, <3>3, DividendAssumption DEF DivInit, DivTyped
  <2>2. PaidOnce
    <3>1. ASSUME NEW h \in Holders
          PROVE  Sum([e \in PaidEpochs(h) |-> Share(h, e)]) = 0
      <4> DEFINE f == [e \in PaidEpochs(h) |-> Share(h, e)]
      <4>1. PaidEpochs(h) = {}
        BY DEF PaidEpochs, DivInit
      <4>2. f \in [{} -> Nat] /\ \A e \in {} : f[e] = 0
        BY <4>1
      <4> HIDE DEF f
      <4>3. Sum(f) = 0
        BY <4>2, SumZero
      <4> QED
        BY <4>3 DEF f
    <3> QED
      BY <3>1 DEF PaidOnce, DivInit
  <2>3. RestIsHeld
    <3>1. Deposited \in [{} -> Nat] /\ \A e \in {} : Deposited[e] = 0
      BY DEF DivInit, Deposited
    <3>2. Sum(Deposited) = 0
      BY <3>1, SumZero
    <3>3. Sum(totalClaimedByHolder) = 0
      BY SumZero DEF DivInit
    <3> QED
      BY <3>2, <3>3 DEF RestIsHeld, DivInit
  <2> QED
    BY <2>1, <2>2, <2>3 DEF DivInv
<1>2. DivInv /\ [DivNext]_divVars => DivInv'
  <2> SUFFICES ASSUME DivInv, [DivNext]_divVars PROVE DivInv'
    OBVIOUS
  <2>1. ASSUME NEW h \in Holders, ClaimDividends(h) PROVE DivInv'
    <3>1. /\ lastClaimedEpoch[h] \in Nat /\ Len(epochs) \in Nat
          /\ Len(epochs) <= MaxEpochs
      BY EpochFacts DEF DivInv, DivTyped
    <3>2. ClaimEnd(h) \in Nat /\ ClaimEnd(h) <= Len(epochs)
      BY <3>1, DividendAssumption DEF ClaimEnd
    <3>3. ClaimWindow(h) \subseteq EpochIds
      BY <3>1, <3>2, DividendAssumption DEF ClaimWindow, EpochIds
    <3>4. lastClaimedEpoch' \in [Holders -> Nat]
      BY <2>1, <3>2 DEF ClaimDividends, DivInv, DivTyped
    <3> QED
      BY <2>1, <3>3, <3>4, PayKeeps DEF ClaimDividends
  <2>2. ASSUME NEW h \in Holders, NEW from \in 0..MaxEpochs,
               NEW to \in 0..MaxEpochs, ClaimRange(h, from, to)
        PROVE  DivInv'
    <3>1. (from + 1)..to \subseteq EpochIds
      BY DividendAssumption DEF EpochIds
    <3>2. lastClaimedEpoch' \in [Holders -> Nat]
      BY <2>2, DividendAssumption DEF ClaimRange, DivInv, DivTyped
    <3> QED
      BY <2>2, <3>1, <3>2, PayKeeps DEF ClaimRange
  <2>3. ASSUME NEW h \in Holders, MintToken(h) PROVE DivInv'
    <3>1. balance' \in [Holders -> Nat] /\ totalSupply' \in Nat
      BY <2>3 DEF MintToken, DivInv, DivTyped
    <3> QED
      BY <2>3, <3>1, TradeKeeps DEF MintToken
  <2>4. ASSUME NEW from \in Holders, NEW to \in Holders,
               TransferToken(from, to)
        PROVE  DivInv'
    <3>1. balance' \in [Holders -> Nat] /\ totalSupply' \in Nat
      BY <2>4 DEF TransferToken, DivInv, DivTyped
    <3> QED
      BY <2>4, <3>1, TradeKeeps DEF TransferToken
  <2>5. CASE UNCHANGED divVars
    <3>1. balance' \in [Holders -> Nat] /\ totalSupply' \in Nat
      BY <2>5 DEF divVars, shareVars, DivInv, DivTyped
    <3> QED
      BY <2>5, <3>1, TradeKeeps DEF divVars
  <2> QED
    BY <2>1, <2>2, <2>3, <2>4, <2>5, DepositKeeps, SnapshotKeeps DEF DivNext
<1> QED
  BY <1>1, <1>2, PTL DEF DivSpec

(* Rounding down gives nothing away: the shares of balances within the     *)
(* supply are within the deposit.                                          *)
LEMMA SharesWithinDeposit ==
    ASSUME DivTyped, NEW e \in DOMAIN epochs,
           Sum([h \in Holders |-> holderSnapshots[<<e, h>>]])
               <= epochs[e].totalSupplySnapshot
    PROVE  EpochShares(e) <= epochs[e].totalAmount
<1> DEFINE m == epochs[e].totalAmount
           d == epochs[e].totalSupplySnapshot
           n == [h \in Holders |-> holderSnapshots[<<e, h>>]]
           s == [h \in Holders |-> Share(h, e)]
           ds == [h \in Holders |-> d * s[h]]
           mn == [h \in Holders |-> m * n[h]]
<1>1. m \in Nat /\ d \in Nat \ {0} /\ e \in EpochIds
  BY EpochFacts
<1>2. n \in [Holders -> Nat] /\ s \in [Holders -> Nat] /\ IsFiniteSet(Holders)
  BY <1>1, ShareType, DividendAssumption DEF DivTyped
<1>3. ASSUME NEW h \in Holders
      PROVE  d * s[h] \in Nat /\ m * n[h] \in Nat /\ d * s[h] <= m * n[h]
  <2>1. n[h] \in Nat /\ s[h] \in Nat
    BY <1>2
  <2>2. s[h] = (n[h] * m) \div d \/ s[h] = 0
    BY DEF Share
  <2> HIDE DEF n, s, m, d
  <2>3. d * s[h] \in Nat /\ m * n[h] \in Nat /\ n[h] * m = m * n[h]
    BY <1>1, <2>1
  <2>4. CASE s[h] = (n[h] * m) \div d
    <3> DEFINE a == m * n[h]
    <3>1. a \in Nat /\ s[h] = a \div d
      BY <2>3, <2>4
    <3> HIDE DEF a
    <3>2. d * s[h] <= a
      BY <1>1, <3>1, DivFacts
    <3> QED
      BY <2>3, <3>2 DEF a
  <2>5. CASE s[h] = 0
    <3>1. d * s[h] = 0
      BY <1>1, <2>5
    <3> QED
      BY <2>3, <3>1
  <2> QED
    BY <2>2, <2>3, <2>4, <2>5
<1>4. /\ ds \in [Holders -> Nat] /\ mn \in [Holders -> Nat]
      /\ \A h \in Holders : ds[h] = d * s[h] /\ mn[h] = m * n[h]
                            /\ ds[h] <= mn[h]
  <2> HIDE DEF n, s, m, d
  <2> QED
    BY <1>3
<1>5. Sum(n) <= d
  OBVIOUS
<1> HIDE DEF m, d, n, s, ds, mn
<1>6. Sum(ds) = d * Sum(s) /\ Sum(mn) = m * Sum(n)
  <2>1. d \in Nat
    BY <1>1
  <2>2. Sum(ds) = d * Sum(s)
    <3>1. ds \in [Holders -> Nat] /\ \A h \in Holders : ds[h] = d * s[h]
      BY <1>4
    <3> QED
      BY <1>2, <2>1, <3>1, SumScale
  <2>3. Sum(mn) = m * Sum(n)
    <3>1. mn \in [Holders -> Nat] /\ \A h \in Holders : mn[h] = m * n[h]
      BY <1>4
    <3> QED
      BY <1>1, <1>2, <3>1, SumScale
  <2> QED
    BY <2>2, <2>3
<1>7. Sum(ds) <= Sum(mn)
  BY <1>2, <1>4, SumMonotone
<1>8. Sum(n) \in Nat /\ Sum(s) \in Nat
  BY <1>2, SumType
<1>9. m * Sum(n) <= m * d
  BY <1>1, <1>5, <1>8, MulMonotone
<1>10. Sum(s) <= m
  <2> SUFFICES ASSUME m + 1 <= Sum(s) PROVE FALSE
    BY <1>1, <1>8
  <2>1. d * (m + 1) <= d * Sum(s)
    BY <1>1, <1>8, MulMonotone
  <2>2. /\ d * (m + 1) = m * d + d /\ m * d \in Nat /\ d * Sum(s) \in Nat
        /\ m * Sum(n) \in Nat
    BY <1>1, <1>8
  <2> QED
    BY <1>1, <1>6, <1>7, <1>9, <2>1, <2>2
<1> QED
  BY <1>10 DEF EpochShares, s, m

(* Every holder is paid each claimed epoch's share once, the rest of the   *)
(* deposits is in the contract, and no epoch pays out more than it was     *)
(* given, for any overlapping ranges, trades and mints.                    *)
THEOREM DividendEpochsHonoured == DivSpec => []EpochsHonoured
<1>1. DivInv => EpochsHonoured
  <2> SUFFICES ASSUME DivInv PROVE EpochsHonoured
    OBVIOUS
  <2>1. \A h \in Holders :
           totalClaimedByHolder[h] =
               Sum([e \in {e \in EpochIds : <<e, h>> \in epochClaimed}
                        |-> Share(h, e)])
    BY DEF DivInv, PaidOnce, PaidEpochs
  <2>2. usdcHeld + Sum(totalClaimedByHolder) =
            Sum([e \in DOMAIN epochs |-> epochs[e].totalAmount])
    BY DEF DivInv, RestIsHeld, Deposited
  <2> QED
    BY <2>1, <2>2, SharesWithinDeposit DEF EpochsHonoured, DivInv
<1> QED
  BY <1>1, DivInvariant, PTL

-----------------------------------------------------------------------------
(* Redemptions.  The inductive invariant, for the contract: a request that *)
(* is not written yet has no amount, also when it was fulfilled before its *)
(* time.  For the records: the one update under way of a record that is    *)
(* not contested has seen what the record says.                            *)

ChainRequest == [investor : Redeemers \cup {"none"}, amount : Nat,
                 status : {"Pending", "Fulfilled", "Cancelled"}]

ContractTyped ==
    /\ requests \in [RequestIds -> ChainRequest]
    /\ requestCount \in Nat
    /\ holding \in [Redeemers -> Nat]
    /\ managerBalance \in Nat

Unwritten == \A id \in RequestIds : id > requestCount => requests[id].amount = 0

DbRecord == [user : Redeemers, amount : Nat, status : RedemptionStatuses,
             shipped_at : BOOLEAN, fulfilled_at : BOOLEAN]
Update   == [record : DOMAIN records, to : RedemptionStatuses,
             seen : RedemptionStatuses]

RecordsTyped ==
    /\ \E n \in Nat : DOMAIN records = 1..n
    /\ records \in [DOMAIN records -> DbRecord]
    /\ answered \in [DOMAIN records -> RedemptionStatuses]
    /\ clerk \in [Clerks -> Update \cup {Unserved}]

SeenAsIs ==
    \A r \in DOMAIN records \ contested :
        /\ \A c \in Clerks :
               clerk[c].record = r => clerk[c].seen = records[r].status
        /\ \A c, d \in Clerks :
               clerk[c].record = r /\ clerk[d].record = r => c = d

ContractInv == ContractTyped /\ Unwritten /\ HeldIsOwed
RecordInv   == RecordsTyped /\ SeenAsIs /\ StatusAsAnswered

-----------------------------------------------------------------------------
(* The contract.                                                           *)

LEMMA IdsFinite == IsFiniteSet(RequestIds)
<1>1. 1 \in Int /\ MaxRedemptions \in Int
  BY RedemptionAssumption
<1> QED
  BY <1>1, FS_Interval DEF RequestIds

(* A step that changes what one request has open, and the balance by as    *)
(* much, keeps the balance what is owed.                                   *)
LEMMA OwedChange ==
    ASSUME ContractTyped, HeldIsOwed, requests' \in [RequestIds -> ChainRequest],
           NEW id \in RequestIds,
           \A x \in RequestIds \ {id} : requests'[x] = requests[x],
           managerBalance' = managerBalance + (OpenAmount(id)' - OpenAmount(id))
    PROVE  HeldIsOwed'
<1> DEFINE f == [x \in RequestIds |-> OpenAmount(x)]
           g == [x \in RequestIds |-> OpenAmount(x)']
<1>1. f \in [RequestIds -> Nat] /\ g \in [RequestIds -> Nat]
  BY DEF ContractTyped, ChainRequest, OpenAmount
<1>2. /\ f[id] = OpenAmount(id) /\ g[id] = OpenAmount(id)'
      /\ \A x \in RequestIds \ {id} : g[x] = f[x]
  BY DEF OpenAmount
<1>3. managerBalance = Sum(f)
  BY DEF HeldIsOwed
<1> HIDE DEF f, g
<1>4. Sum(g) = Sum(f) + (g[id] - f[id])
  BY <1>1, <1>2, IdsFinite, SumChange
<1>5. managerBalance' = Sum(g)
  BY <1>2, <1>3, <1>4
<1> QED
  BY <1>5 DEF HeldIsOwed, g

LEMMA RequestSound ==
    ASSUME ContractInv, NEW u \in Redeemers, NEW n \in RedeemAmounts,
           requestRedemption(u, n)
    PROVE  ContractInv'
<1> DEFINE q == [investor |-> u, amount |-> n, status |-> "Pending"]
<1>0. PICK id \in RequestIds : id = requestCount + 1
  BY DEF requestRedemption
<1>1. /\ n \in Nat /\ n <= holding[u]
      /\ requests' = [requests EXCEPT ![id] = q]
      /\ requestCount' = id /\ id \in Nat /\ id > requestCount
      /\ holding' = [holding EXCEPT ![u] = holding[u] - n]
      /\ managerBalance' = managerBalance + n
  BY <1>0, RedemptionAssumption DEF requestRedemption, ContractInv, ContractTyped
<1>2. q \in ChainRequest
  BY <1>1 DEF ChainRequest
<1>3. /\ requests' \in [RequestIds -> ChainRequest] /\ requests'[id] = q
      /\ \A x \in RequestIds \ {id} : requests'[x] = requests[x]
  BY <1>1, <1>2 DEF ContractInv, ContractTyped
<1>4. ContractTyped'
  BY <1>1, <1>3 DEF ContractInv, ContractTyped
<1>5. Unwritten'
  BY <1>0, <1>1, <1>3 DEF ContractInv, ContractTyped, Unwritten, RequestIds
<1>6. OpenAmount(id) = 0 /\ OpenAmount(id)' = n
  <2>1. requests[id].amount = 0
    BY <1>1 DEF ContractInv, ContractTyped, Unwritten
  <2> QED
    BY <1>3, <2>1 DEF OpenAmount
<1>7. managerBalance' = managerBalance + (OpenAmount(id)' - OpenAmount(id))
  BY <1>1, <1>6
<1>8. HeldIsOwed'
  BY <1>1, <1>3, <1>7, OwedChange DEF ContractInv
<1> QED
  BY <1>4, <1>5, <1>8 DEF ContractInv

(* A fulfilment burns, and a cancellation returns, what was open.          *)
LEMMA SettleSound ==
    ASSUME ContractInv, NEW id \in RequestIds, fulfil(id) \/ cancel(id)
    PROVE  ContractInv'
<1>1. PICK s \in {"Fulfilled", "Cancelled"} :
          requests' = [requests EXCEPT ![id].status = s]
  BY DEF fulfil, cancel
<1>2. /\ requests[id] \in ChainRequest /\ requests[id].status = "Pending"
      /\ requests[id].amount \in Nat /\ managerBalance \in Nat
      /\ managerBalance' = managerBalance - requests[id].amount
      /\ requests[id].amount <= managerBalance
      /\ requestCount' = requestCount
  BY DEF fulfil, cancel, ContractInv, ContractTyped, ChainRequest
<1>3. /\ requests'[id] = [requests[id] EXCEPT !.status = s]
      /\ \A x \in RequestIds \ {id} : requests'[x] = requests[x]
      /\ DOMAIN requests' = RequestIds
  BY <1>1 DEF ContractInv, ContractTyped
<1>4. /\ requests'[id] \in ChainRequest
      /\ requests'[id].status = s
      /\ requests'[id].amount = requests[id].amount
  BY <1>2, <1>3 DEF ChainRequest
<1>5. requests' \in [RequestIds -> ChainRequest]
  BY <1>1, <1>3, <1>4 DEF ContractInv, ContractTyped
<1>6. holding' \in [Redeemers -> Nat]
  <2>1. CASE fulfil(id)
    BY <2>1 DEF fulfil, ContractInv, ContractTyped
  <2>2. CASE cancel(id)
    <3>1. PICK u : holding' = [holding EXCEPT ![u] = holding[u] + requests[id].amount]
      BY <2>2 DEF cancel
    <3>2. holding \in [Redeemers -> Nat]
      BY DEF ContractInv, ContractTyped
    <3> DEFINE paid == holding[u] + requests[id].amount
    <3>3. u \in Redeemers => paid \in Nat
      BY <1>2, <3>2
    <3>4. holding' = [holding EXCEPT ![u] = paid]
      BY <3>1
    <3> HIDE DEF paid
    <3> QED
      BY <3>2, <3>3, <3>4
  <2> QED
    BY <2>1, <2>2
<1>7. ContractTyped'
  BY <1>2, <1>5, <1>6 DEF ContractInv, ContractTyped
<1>8. Unwritten'
  BY <1>2, <1>3, <1>4 DEF ContractInv, Unwritten
<1>9. OpenAmount(id) = requests[id].amount /\ OpenAmount(id)' = 0
  BY <1>2, <1>4 DEF OpenAmount
<1>10. managerBalance' = managerBalance + (OpenAmount(id)' - OpenAmount(id))
  BY <1>2, <1>9
<1>11. HeldIsOwed'
  BY <1>3, <1>5, <1>10, OwedChange DEF ContractInv
<1> QED
  BY <1>7, <1>8, <1>11 DEF ContractInv

LEMMA ManagerSound ==
    ASSUME ContractInv, ManagerNext
    PROVE  ContractInv'
<1>1. ASSUME NEW u \in Redeemers, Reverify(u) PROVE ContractInv'
  BY <1>1 DEF Reverify, ContractInv, ContractTyped, Unwritten, HeldIsOwed,
              OpenAmount
<1> QED
  BY <1>1, RequestSound, SettleSound DEF ManagerNext

-----------------------------------------------------------------------------
(* The records.                                                            *)

LEMMA CreateSound ==
    ASSUME RecordInv, NEW u \in Redeemers, NEW n \in RedeemAmounts,
           create_request(u, n)
    PROVE  RecordInv'
<1> DEFINE r == Cardinality(DOMAIN records) + 1
           q == [user |-> u, amount |-> n, status |-> "pending",
                 shipped_at |-> FALSE, fulfilled_at |-> FALSE]
<1>0. RecordsTyped /\ SeenAsIs /\ StatusAsAnswered
  BY DEF RecordInv
<1>1. PICK m \in Nat : DOMAIN records = 1..m
  BY <1>0 DEF RecordsTyped
<1>2. r = m + 1
  <2>1. 1 \in Int /\ m \in Int
    OBVIOUS
  <2>2. Cardinality(1..m) = IF 1 > m THEN 0 ELSE m - 1 + 1
    BY <2>1, FS_Interval
  <2> QED
    BY <1>1, <2>2
<1>3. /\ records' = [x \in DOMAIN records \cup {r} |->
                       IF x = r THEN q ELSE records[x]]
      /\ answered' = [x \in DOMAIN answered \cup {r} |->
                       IF x = r THEN "pending" ELSE answered[x]]
      /\ UNCHANGED <<clerk, contested>>
  BY DEF create_request
<1> HIDE DEF r
<1>4. q \in DbRecord /\ q.status = "pending" /\ "pending" \in RedemptionStatuses
  BY RedemptionAssumption DEF DbRecord, RedemptionStatuses
<1> HIDE DEF q
<1>5. /\ DOMAIN records' = 1..(m + 1) /\ m + 1 \in Nat
      /\ DOMAIN records \subseteq DOMAIN records'
      /\ r \notin DOMAIN records
      /\ DOMAIN answered = DOMAIN records
  BY <1>0, <1>1, <1>2, <1>3 DEF RecordsTyped
<1>6. /\ records'[r] = q /\ answered'[r] = "pending"
      /\ \A x \in DOMAIN records : /\ records'[x] = records[x]
                                   /\ answered'[x] = answered[x]
      /\ DOMAIN records' = DOMAIN records \cup {r}
  BY <1>3, <1>5
<1>7. RecordsTyped'
  <2>1. records' \in [DOMAIN records' -> DbRecord]
    BY <1>0, <1>3, <1>4, <1>6 DEF RecordsTyped
  <2>2. answered' \in [DOMAIN records' -> RedemptionStatuses]
    BY <1>0, <1>3, <1>4, <1>5, <1>6 DEF RecordsTyped
  <2>3. clerk' \in [Clerks -> Update' \cup {Unserved}]
    BY <1>0, <1>3, <1>5 DEF RecordsTyped, Update
  <2> QED
    BY <1>5, <2>1, <2>2, <2>3 DEF RecordsTyped
<1>8. \A c \in Clerks : clerk[c].record # r
  BY <1>0, <1>1, <1>2, <1>5 DEF RecordsTyped, Update, Unserved
<1>9. SeenAsIs'
  BY <1>0, <1>3, <1>6, <1>8 DEF SeenAsIs
<1>10. StatusAsAnswered'
  BY <1>0, <1>3, <1>4, <1>6 DEF StatusAsAnswered
<1> QED
  BY <1>7, <1>9, <1>10 DEF RecordInv

LEMMA ReadSound ==
    ASSUME RecordInv, NEW c \in Clerks, NEW r \in DOMAIN records,
           NEW status \in RedemptionStatuses, UpdateRead(c, r, status)
    PROVE  RecordInv'
<1> DEFINE j == [record |-> r, to |-> status, seen |-> records[r].status]
<1>0. RecordsTyped /\ SeenAsIs /\ StatusAsAnswered
  BY DEF RecordInv
<1>1. /\ UNCHANGED <<records, answered>>
      /\ clerk' = [clerk EXCEPT ![c] = j]
      /\ contested' = IF \E d \in Clerks : clerk[d].record = r
                      THEN contested \cup {r} ELSE contested
  BY DEF UpdateRead
<1>2. j \in Update
  BY <1>0 DEF Update, RecordsTyped, DbRecord
<1>3. j.record = r /\ j.seen = records[r].status
  OBVIOUS
<1> HIDE DEF j
<1>4. /\ clerk'[c] = j
      /\ \A d \in Clerks \ {c} : clerk'[d] = clerk[d]
      /\ clerk' \in [Clerks -> Update \cup {Unserved}]
  BY <1>0, <1>1, <1>2 DEF RecordsTyped
<1>5. RecordsTyped'
  BY <1>0, <1>1, <1>4 DEF RecordsTyped, Update
<1>6. SeenAsIs'
  <2> SUFFICES ASSUME NEW x \in DOMAIN records \ contested'
               PROVE  /\ \A d \in Clerks : clerk'[d].record = x =>
                             clerk'[d].seen = records[x].status
                      /\ \A d, e \in Clerks :
                             clerk'[d].record = x /\ clerk'[e].record = x
                               => d = e
    BY <1>1 DEF SeenAsIs
  <2>1. x \in DOMAIN records \ contested
    BY <1>1
  <2>2. CASE x = r
    <3>1. \A d \in Clerks : clerk[d].record # r
      BY <1>1, <2>2
    <3> QED
      BY <1>3, <1>4, <2>2, <3>1
  <2>3. CASE x # r
    BY <1>0, <1>3, <1>4, <2>1, <2>3 DEF SeenAsIs
  <2> QED
    BY <2>2, <2>3
<1>7. StatusAsAnswered'
  BY <1>0, <1>1 DEF StatusAsAnswered
<1> QED
  BY <1>5, <1>6, <1>7 DEF RecordInv

LEMMA FailSound ==
    ASSUME RecordInv, NEW c \in Clerks, UpdateFails(c)
    PROVE  RecordInv'
<1>1. /\ UNCHANGED <<records, answered, contested>>
      /\ clerk' = [clerk EXCEPT ![c] = Unserved]
  BY DEF UpdateFails
<1>2. RecordsTyped /\ SeenAsIs /\ StatusAsAnswered
  BY DEF RecordInv
<1>3. /\ clerk'[c] = Unserved
      /\ \A d \in Clerks \ {c} : clerk'[d] = clerk[d]
      /\ clerk' \in [Clerks -> Update \cup {Unserved}]
  BY <1>1, <1>2 DEF RecordsTyped
<1>4. RecordsTyped'
  BY <1>1, <1>2, <1>3 DEF RecordsTyped, Update
<1>5. Unserved.record \notin DOMAIN records
  BY <1>2 DEF RecordsTyped, Unserved
<1>6. SeenAsIs'
  BY <1>1, <1>2, <1>3, <1>5 DEF SeenAsIs
<1>7. StatusAsAnswered'
  BY <1>1, <1>2 DEF StatusAsAnswered
<1> QED
  BY <1>4, <1>6, <1>7 DEF RecordInv

LEMMA CommitSound ==
    ASSUME RecordInv, NEW c \in Clerks, UpdateCommit(c)
    PROVE  RecordInv'
<1> DEFINE j == clerk[c]
           r == j.record
           q == [records[r] EXCEPT
                   !.status = IF j.to = j.seen THEN records[r].status ELSE j.to,
                   !.shipped_at = records[r].shipped_at \/ j.to = "shipped",
                   !.fulfilled_at = records[r].fulfilled_at \/ j.to = "fulfilled"]
<1>0. RecordsTyped /\ SeenAsIs /\ StatusAsAnswered
  BY DEF RecordInv
<1>1. /\ j \in Update /\ r \in DOMAIN records /\ j.to \in RedemptionStatuses
      /\ records[r] \in DbRecord
  BY <1>0 DEF UpdateCommit, RecordsTyped, Update
<1>2. /\ records' = [records EXCEPT ![r] = q]
      /\ answered' = [answered EXCEPT ![r] = j.to]
      /\ clerk' = [clerk EXCEPT ![c] = Unserved]
      /\ contested' = contested
  BY <1>0, <1>1 DEF UpdateCommit, RecordsTyped
<1>3. /\ q \in DbRecord
      /\ q.status = IF j.to = j.seen THEN records[r].status ELSE j.to
      /\ q.fulfilled_at = (records[r].fulfilled_at \/ j.to = "fulfilled")
  BY <1>1 DEF DbRecord
<1>3a. r \notin contested => q.status = j.to
  BY <1>0, <1>1, <1>3 DEF SeenAsIs
<1> HIDE DEF q
<1>4. /\ DOMAIN records' = DOMAIN records /\ records'[r] = q
      /\ answered'[r] = j.to
      /\ \A x \in DOMAIN records \ {r} : /\ records'[x] = records[x]
                                        /\ answered'[x] = answered[x]
      /\ clerk'[c] = Unserved
      /\ \A d \in Clerks \ {c} : clerk'[d] = clerk[d]
  BY <1>0, <1>1, <1>2 DEF RecordsTyped
<1>5. RecordsTyped'
  <2>1. /\ records' \in [DOMAIN records -> DbRecord]
        /\ answered' \in [DOMAIN records -> RedemptionStatuses]
        /\ clerk' \in [Clerks -> Update \cup {Unserved}]
    BY <1>0, <1>1, <1>2, <1>3 DEF RecordsTyped
  <2> QED
    BY <1>0, <1>4, <2>1 DEF RecordsTyped, Update
<1>6. Unserved.record \notin DOMAIN records
  BY <1>0 DEF RecordsTyped, Unserved
<1>7. SeenAsIs'
  <2> SUFFICES ASSUME NEW x \in DOMAIN records \ contested
               PROVE  /\ \A d \in Clerks : clerk'[d].record = x =>
                             clerk'[d].seen = records'[x].status
                      /\ \A d, e \in Clerks :
                             clerk'[d].record = x /\ clerk'[e].record = x
                               => d = e
    BY <1>2, <1>4 DEF SeenAsIs
  <2>1. CASE x = r
    <3>1. \A d \in Clerks : clerk'[d].record # r
      BY <1>0, <1>1, <1>4, <1>6, <2>1 DEF SeenAsIs
    <3> QED
      BY <2>1, <3>1
  <2>2. CASE x # r
    BY <1>0, <1>4, <1>6, <2>2 DEF SeenAsIs
  <2> QED
    BY <2>1, <2>2
<1>8. StatusAsAnswered'
  <2> SUFFICES ASSUME NEW x \in DOMAIN records \ contested
               PROVE  /\ records'[x].status = answered'[x]
                      /\ records'[x].status = "fulfilled"
                           => records'[x].fulfilled_at
    BY <1>2, <1>4 DEF StatusAsAnswered
  <2>1. CASE x = r
    BY <1>3, <1>3a, <1>4, <2>1
  <2>2. CASE x # r
    BY <1>0, <1>4, <2>2 DEF StatusAsAnswered
  <2> QED
    BY <2>1, <2>2
<1> QED
  BY <1>5, <1>7, <1>8 DEF RecordInv

-----------------------------------------------------------------------------
(* Together.                                                               *)

LEMMA InitSound == RedemptionInit => ContractInv /\ RecordInv
<1> SUFFICES ASSUME RedemptionInit PROVE ContractInv /\ RecordInv
  OBVIOUS
<1>1. ContractTyped /\ Unwritten
  BY RedemptionAssumption DEF RedemptionInit, ContractTyped, Unwritten,
     ChainRequest, NoRequest
<1>2. HeldIsOwed
  <2> DEFINE f == [id \in RequestIds |-> OpenAmount(id)]
  <2>1. f \in [RequestIds -> Nat] /\ \A id \in RequestIds : f[id] = 0
    BY DEF RedemptionInit, OpenAmount, NoRequest
  <2>2. Sum(f) = 0
    BY <2>1, SumZero
  <2> QED
    BY <2>2 DEF HeldIsOwed, RedemptionInit
<1>3. DOMAIN records = {} /\ DOMAIN answered = {}
  BY DEF RedemptionInit
<1>4. RecordsTyped
  <2>1. DOMAIN records = 1..0 /\ 0 \in Nat
    BY <1>3
  <2>2. /\ records \in [DOMAIN records -> DbRecord]
        /\ answered \in [DOMAIN records -> RedemptionStatuses]
    BY <1>3 DEF RedemptionInit
  <2>3. clerk \in [Clerks -> Update \cup {Unserved}]
    BY DEF RedemptionInit
  <2> QED
    BY <2>1, <2>2, <2>3 DEF RecordsTyped
<1>5. SeenAsIs /\ StatusAsAnswered
  BY <1>3 DEF SeenAsIs, StatusAsAnswered
<1> QED
  BY <1>1, <1>2, <1>4, <1>5 DEF ContractInv, RecordInv

LEMMA ContractFrame ==
    ASSUME ContractInv, UNCHANGED contractVars
    PROVE  ContractInv'
  BY DEF contractVars, ContractInv, ContractTyped, Unwritten, HeldIsOwed,
         OpenAmount

LEMMA RecordFrame ==
    ASSUME RecordInv, UNCHANGED recordVars
    PROVE  RecordInv'
  BY DEF recordVars, RecordInv, RecordsTyped, Update, SeenAsIs,
         StatusAsAnswered

LEMMA StepSound ==
    ASSUME ContractInv, RecordInv, [RedemptionNext]_redemptionVars
    PROVE  ContractInv' /\ RecordInv'
<1>1. CASE ManagerNext
  <2>1. UNCHANGED recordVars
    BY <1>1 DEF ManagerNext, requestRedemption, Reverify, fulfil, cancel
  <2> QED
    BY <1>1, <2>1, ManagerSound, RecordFrame
<1>2. CASE RecordNext
  <2>1. UNCHANGED contractVars
    BY <1>2 DEF RecordNext, create_request, UpdateRead, UpdateCommit,
                UpdateFails
  <2>2. RecordInv'
    BY <1>2, CreateSound, ReadSound, FailSound, CommitSound DEF RecordNext
  <2> QED
    BY <2>1, <2>2, ContractFrame
<1>3. CASE UNCHANGED redemptionVars
  BY <1>3, ContractFrame, RecordFrame DEF redemptionVars
<1> QED
  BY <1>1, <1>2, <1>3 DEF RedemptionNext

(* Both halves hold of the two systems side by side, which share nothing:  *)
(* no order of requests, fulfilments, cancellations and updates ends them. *)
THEOREM RedemptionInvariant == RedemptionSpec => [](ContractInv /\ RecordInv)
  BY InitSound, StepSound, PTL DEF RedemptionSpec

(* The contract holds exactly what its open requests are for: every one of *)
(* them can be fulfilled or cancelled, in any order of calls, ids          *)
(* fulfilled ahead of their request included.                              *)
THEOREM RedemptionHeldIsOwed == RedemptionSpec => []HeldIsOwed
<1>1. ContractInv => HeldIsOwed
  BY DEF ContractInv
<1> QED
  BY <1>1, RedemptionInvariant, PTL

(* A record says what its last update answered, however many clerks there  *)
(* are, as long as no two update it at the same time.                      *)
THEOREM RedemptionStatusAsAnswered == RedemptionSpec => []StatusAsAnswered
<1>1. RecordInv => StatusAsAnswered
  BY DEF RecordInv
<1> QED
  BY <1>1, RedemptionInvariant, PTL
=============================================================================
