----------------------- MODULE MCRevisionPublication ------------------------
EXTENDS RevisionPublication, TLC

(* Runs are interchangeable. *)
Symmetry == Permutations(Worker)
=============================================================================
