------------------------------- MODULE Values -------------------------------
(***************************************************************************)
(* Percentages as the article, its table and its chart share them, in      *)
(* tenths of a percent (lib/swarm.ts).                                     *)
(***************************************************************************)
EXTENDS Integers, FiniteSets

CONSTANTS
  None,        \* null
  OffScale     \* OFF_SCALE: larger moves are drawn beyond the axis

ASSUME ValuesAssumption == OffScale \in Nat \ {0}

Magnitude(n) == IF n < 0 THEN -n ELSE n

\* isOffScale
IsOffScale(value) == Magnitude(value) > OffScale

\* The elements of S in an order that is total on it.
InOrder(S, Before(_, _)) ==
  [i \in 1..Cardinality(S) |-> CHOOSE x \in S : Cardinality({y \in S : Before(y, x)}) = i - 1]
=============================================================================
