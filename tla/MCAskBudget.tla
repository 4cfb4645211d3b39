---------------------------- MODULE MCAskBudget ----------------------------
(***************************************************************************)
(* Instances of AskBudget for TLC: the requests are interchangeable.       *)
(***************************************************************************)
EXTENDS AskBudget, TLC

AnyRequest == Permutations(Requests)
=============================================================================
