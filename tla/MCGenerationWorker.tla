------------------------- MODULE MCGenerationWorker -------------------------
(* Small instances of GenerationWorker for TLC. *)
EXTENDS GenerationWorker, TLC

Symmetry == Permutations(Exceptions)
=============================================================================
