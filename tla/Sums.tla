-------------------------------- MODULE Sums --------------------------------
(* The sum of a function into the naturals, as the number of unit items it *)
(* stands for: f[x] of them for each x.  A definition by counting, rather  *)
(* than by recursion, is one that both TLC evaluates and TLAPS can reason  *)
(* about.                                                                  *)
EXTENDS Integers, FiniteSets

Units(f) == UNION {{x} \X (1..f[x]) : x \in DOMAIN f}

Sum(f) == Cardinality(Units(f))
=============================================================================
