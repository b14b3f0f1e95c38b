---------------------------- MODULE FreshCloseMC ----------------------------
(* FreshClose on small instances; close requests are interchangeable.      *)
EXTENDS FreshClose, TLC

CloseSymmetry == Permutations(Jobs)
=============================================================================
