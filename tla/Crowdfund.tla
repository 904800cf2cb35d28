----------------------------- MODULE Crowdfund -----------------------------
(***************************************************************************)
(* What a sale promises the people who pay into it, without phases,        *)
(* tokens, fees or vesting: money is held in a pot while the sale is open; *)
(* the sale is settled once, by the soft cap; a funded sale empties the    *)
(* pot, a failed one gives every backer back what that backer paid, once.  *)
(***************************************************************************)
EXTENDS Integers

CONSTANTS
    Backers,
    Sums,       \* what a backer may pay at a time
    goal,       \* least total for which the sale is funded
    limit       \* total at which the sale settles at once

VARIABLES outcome, raised, pledged, refunded, pot

cfVars == <<outcome, raised, pledged, refunded, pot>>

Result(total) == IF total >= goal THEN "funded" ELSE "failed"

CFInit ==
    /\ outcome = "open"
    /\ raised = 0
    /\ pledged = [b \in Backers |-> 0]
    /\ refunded = [b \in Backers |-> FALSE]
    /\ pot = 0

(* A backer pays n; reaching the limit settles the sale in the same step.  *)
Pledge(b, n) ==
    LET total == raised + n
    IN  /\ outcome = "open"
        /\ total <= limit
        /\ raised' = total
        /\ pledged' = [pledged EXCEPT ![b] = @ + n]
        /\ outcome' = IF total >= limit THEN Result(total) ELSE "open"
        /\ pot' = IF outcome' = "funded" THEN 0 ELSE pot + n
        /\ UNCHANGED refunded

Settle ==
    /\ outcome = "open"
    /\ outcome' = Result(raised)
    /\ pot' = IF outcome' = "funded" THEN 0 ELSE pot
    /\ UNCHANGED <<raised, pledged, refunded>>

Refund(b) ==
    /\ outcome = "failed"
    /\ pledged[b] > 0
    /\ ~refunded[b]
    /\ refunded' = [refunded EXCEPT ![b] = TRUE]
    /\ pot' = pot - pledged[b]
    /\ UNCHANGED <<outcome, raised, pledged>>

CFNext ==
    \/ \E b \in Backers, n \in Sums : Pledge(b, n)
    \/ Settle
    \/ \E b \in Backers : Refund(b)

CFSpec == CFInit /\ [][CFNext]_cfVars
=============================================================================
