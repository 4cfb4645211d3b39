------------------------------- MODULE Quota -------------------------------
(***************************************************************************)
(* What the question budget of agent/routes.py keeps for one visitor: a    *)
(* question of the day is granted while fewer than Limit are held, a held  *)
(* question may be given back, and only a new day starts with nothing      *)
(* held.  A question of an earlier day that is given back late makes room  *)
(* for one more of today's.                                                *)
(***************************************************************************)
EXTENDS Naturals, FiniteSets

CONSTANTS Requests, Limit

VARIABLES
  day,    \* the date
  held,   \* today's questions that count against the visitor
  late    \* how many questions of earlier days were given back today

Init == day = 1 /\ held = {} /\ late = 0

Grant(r) ==
  /\ r \notin held
  /\ Cardinality(held) < Limit + late
  /\ held' = held \cup {r}
  /\ UNCHANGED <<day, late>>

GiveBack(r) ==
  /\ r \in held
  /\ held' = held \ {r}
  /\ UNCHANGED <<day, late>>

GiveBackLate ==
  /\ late' = late + 1
  /\ UNCHANGED <<day, held>>

NewDay ==
  /\ day' = day + 1
  /\ held' = {} /\ late' = 0

Next == NewDay \/ GiveBackLate \/ \E r \in Requests : Grant(r) \/ GiveBack(r)

Spec == Init /\ [][Next]_<<day, held, late>>
=============================================================================
