----------------------------- MODULE MCListener -----------------------------
(***************************************************************************)
(* Listener on small instances: two rcopys that ask up to TIMEOUT_MAX      *)
(* times each, so that up to four children run.                            *)
(***************************************************************************)
EXTENDS Listener, TLC

Symmetry == Permutations(Rcopys)
=============================================================================
