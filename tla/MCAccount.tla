------------------------------ MODULE MCAccount ------------------------------
EXTENDS Account, TLC

(* Requests, callers and accounts are interchangeable. *)
Symmetry == Permutations(Request) \cup Permutations(Caller) \cup Permutations(Account)
=============================================================================
