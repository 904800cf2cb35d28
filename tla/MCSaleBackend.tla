--------------------------- MODULE MCSaleBackend ---------------------------
(* Model-checking instance of the backend's record of a sale.              *)
EXTENDS SaleBackend, TLC

MCSymmetry == Permutations(Slots) \cup Permutations(Txs)
=============================================================================
