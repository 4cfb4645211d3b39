---------------------------- MODULE MCRefreshRun ----------------------------
(***************************************************************************)
(* Instances of RefreshRun for TLC: the products are interchangeable.      *)
(***************************************************************************)
EXTENDS RefreshRun, TLC

AnyProduct == Permutations(Products)
=============================================================================
