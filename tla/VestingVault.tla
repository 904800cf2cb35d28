---------------------------- MODULE VestingVault ----------------------------
(***************************************************************************)
(* contracts/src/vesting/VestingVault.sol: the owner locks tokens for a    *)
(* beneficiary under a schedule with a cliff and linear vesting, and may   *)
(* revoke it.  Schedule ids count from 1.                                  *)
(***************************************************************************)
EXTENDS Sums, Sequences

CONSTANTS
    Beneficiaries,
    VestAmounts,            \* amounts a schedule may be created with
    StartTimes, Cliffs, Durations,
    MaxVestTime,            \* bound on the block clock
    MaxSchedules        \* bound on the schedules of a beneficiary

ASSUME VestingAssumption ==
    /\ IsFiniteSet(Beneficiaries)
    /\ VestAmounts \subseteq Nat
    /\ StartTimes \subseteq Nat
    /\ Cliffs \subseteq Nat
    /\ Durations \subseteq Nat
    /\ MaxVestTime \in Nat
    /\ MaxSchedules \in Nat

VARIABLES
    schedules,          \* per beneficiary, a sequence of schedules
    held,               \* token.balanceOf(vault)
    vestNow                 \* block.timestamp

vestVars == <<schedules, held, vestNow>>

VestingSchedule == [totalAmount : Nat, claimedAmount : Nat, startTime : Nat,
                    cliffEnd : Nat, vestingEnd : Nat, revoked : BOOLEAN]

VestInit ==
    /\ schedules = [b \in Beneficiaries |-> <<>>]
    /\ held = 0
    /\ vestNow = 1

-----------------------------------------------------------------------------
VestedAt(s, t) ==
    IF t < s.cliffEnd THEN 0
    ELSE IF t >= s.vestingEnd THEN s.totalAmount
    ELSE (s.totalAmount * (t - s.startTime)) \div (s.vestingEnd - s.startTime)

(* getClaimable.                                                           *)
Claimable(s, t) ==
    IF s.revoked \/ t < s.cliffEnd THEN 0
    ELSE VestedAt(s, t) - s.claimedAmount

NewSchedule(amount, start, cliff, duration) ==
    [totalAmount |-> amount, claimedAmount |-> 0, startTime |-> start,
     cliffEnd |-> start + cliff, vestingEnd |-> start + duration,
     revoked |-> FALSE]

-----------------------------------------------------------------------------
CreateSchedule(b, amount, start, cliff, duration) ==
    /\ Len(schedules[b]) < MaxSchedules
    /\ amount > 0
    /\ duration > 0
    /\ cliff <= duration
    /\ schedules' = [schedules EXCEPT
           ![b] = Append(@, NewSchedule(amount, start, cliff, duration))]
    /\ held' = held + amount
    /\ UNCHANGED vestNow

(* batchCreateSchedules checks neither the duration nor the cliff.  The    *)
(* batch gives one schedule to each of the beneficiaries in amounts.       *)
BatchCreateSchedules(amounts, start, cliff, duration) ==
    /\ \A b \in DOMAIN amounts :
          amounts[b] > 0 /\ Len(schedules[b]) < MaxSchedules
    /\ schedules' = [b \in Beneficiaries |->
           IF b \in DOMAIN amounts
           THEN Append(schedules[b],
                       NewSchedule(amounts[b], start, cliff, duration))
           ELSE schedules[b]]
    /\ held' = held + Sum(amounts)
    /\ UNCHANGED vestNow

(* The unvested part goes back to the owner.                               *)
RevokeSchedule(b, k) ==
    LET s == schedules[b][k]
        unvested == s.totalAmount - VestedAt(s, vestNow)
    IN  /\ k \in DOMAIN schedules[b]
        /\ ~s.revoked
        /\ unvested <= held
        /\ schedules' = [schedules EXCEPT ![b][k].revoked = TRUE]
        /\ held' = held - unvested
        /\ UNCHANGED vestNow

ClaimTranche(b, k) ==
    LET n == Claimable(schedules[b][k], vestNow)
    IN  /\ k \in DOMAIN schedules[b]
        /\ n > 0
        /\ n <= held
        /\ schedules' = [schedules EXCEPT ![b][k].claimedAmount = @ + n]
        /\ held' = held - n
        /\ UNCHANGED vestNow

(* Slip: claimAll() pays revoked schedules as well.                        *)
ClaimsRevoked(b) ==
    LET open(k) == VestedAt(schedules[b][k], vestNow)
                       - schedules[b][k].claimedAmount
        n == Sum([k \in DOMAIN schedules[b] |-> open(k)])
    IN  /\ n > 0
        /\ n <= held
        /\ schedules' = [schedules EXCEPT ![b] =
               [k \in DOMAIN schedules[b] |->
                   [schedules[b][k] EXCEPT !.claimedAmount = @ + open(k)]]]
        /\ held' = held - n
        /\ UNCHANGED vestNow

(* Every schedule of the caller is credited before one transfer pays all.  *)
ClaimAll(b) ==
    LET open(k) == Claimable(schedules[b][k], vestNow)
        n == Sum([k \in DOMAIN schedules[b] |-> open(k)])
    IN  /\ \A k \in DOMAIN schedules[b] : open(k) >= 0
        /\ n > 0
        /\ n <= held
        /\ schedules' = [schedules EXCEPT ![b] =
               [k \in DOMAIN schedules[b] |->
                   [schedules[b][k] EXCEPT !.claimedAmount = @ + open(k)]]]
        /\ held' = held - n
        /\ UNCHANGED vestNow

VestTick ==
    /\ vestNow < MaxVestTime
    /\ vestNow' = vestNow + 1
    /\ UNCHANGED <<schedules, held>>

VestNext ==
    \/ \E b \in Beneficiaries, amount \in VestAmounts, start \in StartTimes,
          cliff \in Cliffs, duration \in Durations :
           CreateSchedule(b, amount, start, cliff, duration)
    \/ \E S \in SUBSET Beneficiaries : \E amounts \in [S -> VestAmounts],
          start \in StartTimes, cliff \in Cliffs, duration \in Durations :
           BatchCreateSchedules(amounts, start, cliff, duration)
    \/ \E b \in Beneficiaries, k \in 1..MaxSchedules :
           RevokeSchedule(b, k) \/ ClaimTranche(b, k)
    \/ \E b \in Beneficiaries : ClaimAll(b)
    \/ VestTick

VestSpec == VestInit /\ [][VestNext]_vestVars

-----------------------------------------------------------------------------
(* What the vault still owes a live schedule.                              *)
Outstanding(b) ==
    Sum([k \in DOMAIN schedules[b] |->
            IF schedules[b][k].revoked THEN 0
            ELSE schedules[b][k].totalAmount - schedules[b][k].claimedAmount])

(* No subtraction of a view or a claim underflows: for every live schedule *)
(* claimed <= vested <= total, also under the unchecked durations of a     *)
(* batch (no cliff limit, zero duration), and vested never shrinks with    *)
(* time.  The vault can honour every live schedule in full: no mix of      *)
(* claims, batch claims and revocations spends one schedule's tokens on    *)
(* another.                                                                *)
SchedulesHonoured ==
    /\ \A b \in Beneficiaries : \A k \in DOMAIN schedules[b] :
          LET s == schedules[b][k]
          IN  ~s.revoked =>
                  /\ s.claimedAmount <= VestedAt(s, vestNow)
                  /\ VestedAt(s, vestNow) <= VestedAt(s, vestNow + 1)
                  /\ VestedAt(s, vestNow + 1) <= s.totalAmount
    /\ held >= Sum([b \in Beneficiaries |-> Outstanding(b)])
=============================================================================
