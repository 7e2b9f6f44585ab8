---------------------------- MODULE MCModelBuild ----------------------------
EXTENDS ModelBuild, TLC

(* Sources are interchangeable. *)
Symmetry == Permutations(Source)
=============================================================================
