----------------------------- MODULE StoryText ------------------------------
(***************************************************************************)
(* What the article says and what its graphic draws, from the same feeds:  *)
(* buildStory (lib/story.ts) and the dots of components/Graphic.tsx.  A    *)
(* sentence is its form and the numbers and products in it; wording, dates *)
(* and names are left out.  S is the set of the feed's changes, field the  *)
(* kind of each product's newest change as the field endpoint has it.      *)
(***************************************************************************)
EXTENDS Changes

Of(S, kinds) == {c \in S : c.kind \in kinds}
PriceMoves(S) == S \ Of(S, SizeKinds)

\* Mutant of SizeChanges: every size change has a card of its own.
SizeChangesEach(S) == Of(S, SizeKinds)

\* sizeChanges: the newest size change of each product.
SizeChanges(S) == LatestByProduct(Of(S, SizeKinds))

Ids(S) == {c.product : c \in S}

\* The cards of a group, by the price per unit: the largest increases or decreases first.
UnitPct(c) == IF c.unitPct # None THEN c.unitPct ELSE 0
Shrinks(S) ==
  InOrder(Of(SizeChanges(S), SizeDown),
    LAMBDA a, b : UnitPct(a) > UnitPct(b) \/ (UnitPct(a) = UnitPct(b) /\ Newer(a, b)))
Grows(S) ==
  InOrder(Of(SizeChanges(S), {"grow"}),
    LAMBDA a, b : UnitPct(a) < UnitPct(b) \/ (UnitPct(a) = UnitPct(b) /\ Newer(a, b)))

\* StoryCounts
Counts(S) ==
  LET latest == LatestByProduct(S)
      moves  == PriceMoves(S)
      SizeOf(T) == Cardinality(T)
  IN  [changed    |-> SizeOf(latest),
       up         |-> SizeOf({c \in latest : Direction(c) = "more"}),
       down       |-> SizeOf({c \in latest : Direction(c) = "less"}),
       priceUp    |-> SizeOf(Of(moves, {"price_increase"})),
       priceDown  |-> SizeOf(Of(moves, {"price_decrease"})),
       priceMoves |-> SizeOf(moves),
       under10    |-> SizeOf({c \in moves : Magnitude(UnitChangePct(c)) < 100}),
       shrinks    |-> Len(Shrinks(S)),
       grows      |-> Len(Grows(S)),
       sizeDots   |-> SizeOf(Of(latest, SizeKinds))]

Say(form, n) == [form |-> form, n |-> n]
SayIfAny(form, n) == IF n > 0 THEN <<Say(form, n)>> ELSE <<>>

\* headlineFor
Headline(k) ==
  LET prices == SayIfAny("prices_rose", k.priceUp) \o SayIfAny("prices_fell", k.priceDown)
      sizes  == IF k.shrinks > 0 /\ k.grows > 0 THEN <<Say("sizes_changed", k.shrinks + k.grows)>>
                ELSE SayIfAny("sizes_down", k.shrinks) \o SayIfAny("sizes_up", k.grows)
  IN  IF prices = <<>> /\ sizes = <<>> THEN <<Say("nothing_changed", 0)>>
      ELSE IF prices = <<>> THEN <<Say("no_price_moved", 0)>> \o sizes
      ELSE prices \o sizes

\* under10Sentence
Under10(moves, under) ==
  CASE under = 0 -> Say("none_under_10", moves)
    [] under = moves -> Say("all_under_10", moves)
    [] OTHER -> Say("under_10", under)

\* dekFor: the largest price move, one or several that share it.
Dek(S, k) ==
  LET moves   == PriceMoves(S)
      Size(c) == Magnitude(UnitChangePct(c))
      largest == {c \in moves : \A d \in moves : Size(d) <= Size(c)}
  IN  [lead    |-> CASE moves = {} -> Say("dates_of_sizes", Cardinality(SizeChanges(S)))
                     [] Cardinality(moves) = 1 -> Say("one_move", 1)
                     [] OTHER -> Under10(k.priceMoves, k.under10),
       largest |-> Ids(largest),
       shared  |-> Cardinality(largest)]

\* colorSentence, of the changed step
ColorSentence(k) == SayIfAny("up", k.up) \o SayIfAny("down", k.down)

\* swarmText; median, two and one are about price moves.
SwarmText(k) ==
  CASE k.priceMoves >= 3 -> Say("median", k.priceMoves)
    [] k.priceMoves \in 1..2 -> Say("price_moves", k.priceMoves)
    [] k.priceMoves = 0 /\ k.sizeDots > 0 -> Say("all_are_sizes", k.sizeDots)
    [] OTHER -> Say("empty", 0)

\* The kinds of buildStory's steps, in order.
StepsOf(k) ==
  <<"grid", "changed", "swarm">>
    \o (IF k.shrinks > 0 THEN <<"shrinks">> ELSE <<>>)
    \o (IF k.grows > 0 THEN <<"grows">> ELSE <<>>)
    \o <<"end">>

InScale(S) == {c \in LatestByProduct(S) : ~IsOffScale(UnitChangePct(c))}

\* The product of the largest move in one direction: of two alike the newest.
FirstOf(T, sign) ==
  LET Move(c) == sign * UnitChangePct(c)
  IN  IF T = {} THEN None
      ELSE (CHOOSE c \in T : \A d \in T \ {c} :
              Move(c) > Move(d) \/ (Move(c) = Move(d) /\ Newer(c, d))).product

\* The products the chart names, the largest moves on its axis.
Up(S)   == FirstOf({c \in InScale(S) : UnitChangePct(c) > 0}, 1)
Down(S) == FirstOf({c \in InScale(S) : UnitChangePct(c) < 0}, -1)

\* buildStory
Story(S) ==
  LET k == Counts(S)
  IN  [counts   |-> k,
       headline |-> Headline(k),
       dek      |-> Dek(S, k),
       color    |-> ColorSentence(k),
       swarm    |-> SwarmText(k),
       steps    |-> StepsOf(k),
       up       |-> Up(S),
       down     |-> Down(S),
       offScale |-> Ids(LatestByProduct(S) \ InScale(S)),
       shrinks  |-> [i \in DOMAIN Shrinks(S) |-> Shrinks(S)[i].product],
       grows    |-> [i \in DOMAIN Grows(S) |-> Grows(S)[i].product]]

---------------------------------------------------------------------------
(* The graphic's dots.                                                     *)

\* changeById.get; a product the feed has no change of has none.
ChangeOf(S, p) ==
  IF p \in Ids(S) THEN CHOOSE c \in LatestByProduct(S) : c.product = p ELSE None

\* dots: color and size group; the field's kind counts where the feed has nothing.
DotOf(S, story, field, p) ==
  LET c == ChangeOf(S, p)
      way == IF c # None THEN Direction(c) ELSE KindDirection(field[p])
  IN  [direction |-> IF way = "flat" THEN None ELSE way,
       sizeKind  |-> CASE p \in Range(story.shrinks) -> "shrink"
                       [] p \in Range(story.grows) \ Range(story.shrinks) -> "grow"
                       [] OTHER -> None,
       value     |-> IF c # None THEN UnitChangePct(c) ELSE 0]

\* The field has the active products; Gone for the others.
DotsOf(S, story, field, gone) ==
  [p \in {q \in DOMAIN field : field[q] # gone} |-> DotOf(S, story, field, p)]

\* swarmDots
SwarmDots(dots) == {[id |-> p, value |-> dots[p].value] : p \in {q \in DOMAIN dots : dots[q].direction # None}}
=============================================================================
