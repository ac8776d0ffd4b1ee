----------------------------- MODULE MCSession ------------------------------
(* A small instance of Session for TLC. *)
EXTENDS Session, TLC

Symmetry == Permutations(Requests) \cup Permutations(Tabs) \cup Permutations(Sessions)
=============================================================================
