------------------------------ MODULE MCReader ------------------------------
(***************************************************************************)
(* Instances of Reader for TLC.  The products are interchangeable, and     *)
(* with liveness to check TLC cannot use it.  A tab opens on the article,  *)
(* plain, filtered or at a section, or on one chosen product with a        *)
(* filter; without one a reload opens it.                                  *)
(***************************************************************************)
EXTENDS Reader

FirstProduct == CHOOSE p \in Products : TRUE

MCInit ==
  /\ Init
  /\ \/ shown.page = "article" /\ (shown.filter = "" \/ shown.hash = None)
     \/ shown.page = FirstProduct /\ shown.filter # ""
MCSpec == MCInit /\ [][Next]_vars /\ Fairness
=============================================================================
