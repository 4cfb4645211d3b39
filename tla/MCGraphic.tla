----------------------------- MODULE MCGraphic -----------------------------
(***************************************************************************)
(* An instance of Graphic for TLC: a story of three steps over a product   *)
(* that shrank, one that grew, one unchanged and one that shrank and is no *)
(* longer listed; a window side by side, where the stage has room or the   *)
(* size cards do not fit in, and stacked, where it is short.               *)
(***************************************************************************)
EXTENDS Graphic

ThreeSteps == <<"grid", "swarm", "shrinks">>
LeftOut   == [shrinks |-> {"dropped"}, grows |-> {}]
Ranks     ==
  [s \in Steps |-> IF s = "shrinks" THEN [dropped |-> 1, cut |-> 2, grown |-> 3, same |-> 4]
                   ELSE [cut |-> 1, grown |-> 2, same |-> 3, dropped |-> 4]]
Kinds     == [cut |-> "shrink", grown |-> "grow", same |-> None]
TwoLines  == [beside |-> <<0, 1, 2>>, stacked |-> <<-1, 0, 2>>]
TwoStages == [beside |-> {"roomy", "tight"}, stacked |-> {"short"}]

\* The reader begins at the top of the article; a phone may prefer less motion.
MCInit == Init /\ window = "beside" /\ scroll = 0 /\ reduced = touch
MCSpec == MCInit /\ [][Next]_vars /\ Fairness
=============================================================================
