------------------------------- MODULE MCSale -------------------------------
(* Model-checking instance of the sale.  One open phase whose price does   *)
(* not divide every payment, and a later, whitelisted one.                 *)
EXTENDS Sale, TLC

MCPhaseConfigs ==
    { [pricePerToken |-> 2, allocation |-> 3, minContribution |-> 1,
       maxContribution |-> 3, startTime |-> 1, endTime |-> 1,
       whitelistOnly |-> FALSE],
      [pricePerToken |-> 1, allocation |-> 2, minContribution |-> 1,
       maxContribution |-> 4, startTime |-> 2, endTime |-> 2,
       whitelistOnly |-> TRUE] }

(* For the vested runs: one phase that sells one token for a dollar.       *)
MCVestedPhases ==
    { [pricePerToken |-> 1, allocation |-> 3, minContribution |-> 1,
       maxContribution |-> 2, startTime |-> 1, endTime |-> 2,
       whitelistOnly |-> FALSE] }

MCSymmetry == Permutations(Investors)
=============================================================================
