--------------------------- MODULE MCTaskWorkflow ---------------------------
EXTENDS TaskWorkflow, TLC

(* Tasks, keys, requests and aborts are interchangeable. *)
Symmetry == Permutations(Task) \cup Permutations(Key)
            \cup Permutations(Request) \cup Permutations(Abort)
=============================================================================
