------------------------------ MODULE Article -------------------------------
(***************************************************************************)
(* The article once its feeds are there (pages/HomePage.tsx): the story's  *)
(* numbers, the graphic's dots and chart, and the table, all drawn from    *)
(* one list of changes.  The feeds arrive together, the stage is measured  *)
(* and resized, and the reader works the table's controls.                 *)
(***************************************************************************)
EXTENDS ChangeTable, StoryText, ChartLayout, GridLayout

CONSTANTS
  Feeds,       \* what the API may answer: changes, field, the number of changes /categories has
               \* for each category, None for one it does not list, and per category the products
               \* that never changed and are only counted
  Stages,      \* stage sizes: width, height, narrow, compact
  Links,       \* addresses one may arrive at
  Label,       \* each product's name in the chart: its words and the brand's
  Gone         \* a product the field does not have

\* Feeds in which no row was read twice: what story.ts would count of one, Story does not.
\* Stages as measure has them, 200 px wide at least.
ASSUME ArticleAssumption ==
  /\ IsFiniteSet(Products) /\ IsFiniteSet(Categories)
  /\ None \notin Int \cup Kinds \cup Change \cup {"more", "less"}
  /\ Gone \notin Kinds \cup {None}
  /\ Links \subseteq Addresses
  /\ \A s \in Stages :
       s.width \in Nat /\ s.width >= Px(200) /\ s.height \in Nat /\ s.narrow \in BOOLEAN
  /\ \A f \in Feeds :
       /\ f.changes \in Seq(Change) /\ f.field \in [Products -> Kinds \cup {None, Gone}]
       /\ f.quiet \in [Categories -> Nat] /\ f.categories \in [Categories -> Nat \cup {None}]
       /\ \A i, j \in DOMAIN f.changes : f.changes[i].id = f.changes[j].id => i = j

\* NARROW_BELOW and SHORT_BELOW, and 200 px high at least; a name is words, its brand the first.
ASSUME ChartAssumption ==
  /\ \A s \in Stages :
       /\ s.height >= Px(200) /\ (s.narrow <=> s.width < Px(560))
       /\ s.compact \in BOOLEAN /\ (s.compact <=> s.narrow \/ s.height < Px(480))
  /\ \A p \in Products : Label[p].words \in Seq(Word) /\ Label[p].lead \in 0..Len(Label[p].words)

VARIABLES
  feed,        \* what the API answers in this visit
  stage,       \* the stage's size
  dots,        \* the graphic's dots, None before the first render
  story,
  grid, chart  \* the layouts, None until the stage is measured

pictureVars == <<stage, dots, story, grid, chart>>
vars == <<feed, tableVars, pictureVars>>

\* annotation(): a price part unless there is one price, and a percentage.
LabelOf(S, p) ==
  IF p = None THEN None
  ELSE [id |-> p, words |-> Label[p].words, lead |-> Label[p].lead,
        price |-> IF ChangeOf(S, p).pricePct = 0 THEN Words(<<5>>) ELSE Words(<<5, 2, 5>>),
        percent |-> IF ChangeOf(S, p).unitPct = None THEN Words(<<6>>) ELSE Words(<<6, 3, 2>>)]

\* offText
OffText(s) ==
  IF s.offScale # {} /\ s.offScale \subseteq Range(s.shrinks)
  THEN Words(<<6, 4, 4, 4>>) ELSE Words(<<6, 4, 7>>)

(***************************************************************************)
(* gridCategories: the largest first; in a block what costs more, by how   *)
(* much, then what costs less, then the unchanged by name.                 *)
(***************************************************************************)
Rank(dot) == CASE dot.direction = "more" -> 0 [] dot.direction = "less" -> 1 [] OTHER -> 2

\* Is p drawn before q?  (Categories with as many products: either first.)
Drawn(d, p, q) ==
  LET rank == Rank(d[p])
      move == IF rank = 2 THEN 0 ELSE IF rank = 0 THEN d[p].value - d[q].value ELSE d[q].value - d[p].value
  IN  rank < Rank(d[q]) \/ (rank = Rank(d[q]) /\ (move > 0 \/ (move = 0 /\ p < q)))

\* Mutant of ChangesCount: a category /categories does not list has no changes.
ChangesListed(d, c) == IF feed.categories[c] # None THEN feed.categories[c] ELSE 0

\* counts.get(category)?.changes, or else the number of its listed products that changed.
ChangesCount(d, c) ==
  IF feed.categories[c] # None THEN feed.categories[c]
  ELSE Cardinality({p \in DOMAIN d : Category[p] = c /\ d[p].direction # None})

GridCategories(d) ==
  LET Named(c) == {p \in DOMAIN d : Category[p] = c}
      Count(c) == Cardinality(Named(c)) + feed.quiet[c]
      cats     == {c \in Categories : Count(c) > 0}
      order    == CHOOSE s \in SetToSeqs(cats) : \A i, j \in DOMAIN s : i < j => Count(s[i]) >= Count(s[j])
  IN  [k \in DOMAIN order |->
         [ids     |-> InOrder(Named(order[k]), LAMBDA p, q : Drawn(d, p, q)),
          count   |-> Count(order[k]),
          changes |-> ChangesCount(d, order[k])]]

\* The layout effect's chart for a stage.
Draw(s, d, size) ==
  LET S == Range(feed.changes)
  IN  ChartOf([dots |-> SwarmDots(d), down |-> LabelOf(S, s.down), up |-> LabelOf(S, s.up),
               offCount |-> Cardinality(s.offScale), offText |-> OffText(s)], size)

Init ==
  /\ feed \in Feeds
  /\ changes = None /\ address \in Links /\ showAll = FALSE
  /\ stage = None /\ dots = None /\ story = None /\ grid = None /\ chart = None

\* The feeds have arrived: the story, the dots and the table are rendered.
Render ==
  /\ changes = None
  /\ changes' = feed.changes
  /\ story' = Story(Range(feed.changes))
  /\ dots' = DotsOf(Range(feed.changes), story', feed.field, Gone)
  /\ UNCHANGED <<feed, address, showAll, stage, grid, chart>>

\* measure, and the layout effect with the new size.
Resize ==
  /\ story # None
  /\ \E size \in Stages :
       /\ size # stage /\ stage' = size
       /\ grid' = LayoutGrid(GridCategories(dots), size)
       /\ chart' = Draw(story, dots, size)
  /\ UNCHANGED <<feed, tableVars, dots, story>>

\* The reader at the table, on the stage as first measured or not yet.
AtTable ==
  /\ TableStep \/ Follow(Links)
  /\ UNCHANGED <<feed, pictureVars>>

Next == Render \/ Resize \/ AtTable

Spec == Init /\ [][Next]_vars

---------------------------------------------------------------------------
\* The views the controls ask for.
Asked ==
  {[View EXCEPT !.kind = k] : k \in FeedKinds}
    \cup {[View EXCEPT !.category = c] : c \in CategoryNames(changes, View) \cup {None}}
    \cup {SortedBy(View, k, down) : k \in SortKeys, down \in BOOLEAN}

(***************************************************************************)
(* What a control says is what it leads to, from any address: the number   *)
(* on a chip or an option is the number of rows once the address it writes *)
(* has been read back, and whatever control is used, the view read back is *)
(* the one asked for, with the query's other parameters as they were.      *)
(***************************************************************************)
CountsKeepTheirWord ==
  LET Back(v) == Parse(Serialize(v, address))
  IN  Ready =>
        /\ \A v \in Asked : Back(v) = v /\ Serialize(v, address).other = address.other
        /\ \A k \in FeedKinds :
             ByKind(changes, View)[k] = Len(Rows(changes, Back([View EXCEPT !.kind = k])))
        /\ \A c \in CategoryNames(changes, View) :
             CategoryCount(changes, View, c) = Len(Rows(changes, Back([View EXCEPT !.category = c])))
        /\ IsPrefix(Shown(changes, View), Rows(changes, View))

Dotted(way) == {p \in DOMAIN dots : dots[p].direction = way}
Carded == Range(story.shrinks) \cup Range(story.grows)
Total(clauses) == FoldLeft(LAMBDA sum, c : sum + c.n, 0, clauses)

\* The two endpoints told the same: the same products have changed.
FeedsAgree ==
  {p \in Products : feed.field[p] \notin {None, Gone}} = Ids(Range(feed.changes))

(***************************************************************************)
(* The words match the graphic, when one product changed more than once    *)
(* (story.ts:5-8), when the field has dropped a product and when it        *)
(* already knows a newer change: a product has one card at most and its    *)
(* dot goes to it, every changed product is counted on one side, on the    *)
(* side of its dot unless the field dropped it, a named move that is on    *)
(* the axis is its extreme, and the dots not on the axis are in the        *)
(* off-scale count.  Only when the endpoints agree are the numbers those   *)
(* of all the dots one sees, and the named moves on the axis.              *)
(***************************************************************************)
StoryTellsTheDots ==
  story # None =>
    LET k == story.counts
        known   == Ids(Range(changes))
        dropped == Cardinality(known \ DOMAIN dots)
        onAxis  == {p \in known \cap DOMAIN dots : ~IsOffScale(dots[p].value)}
    IN  /\ Len(story.shrinks) + Len(story.grows) = Cardinality(Carded)
        /\ Total(story.headline) = k.priceUp + k.priceDown + Cardinality(Carded)
        /\ \A p \in DOMAIN dots : (dots[p].sizeKind # None) = (p \in Carded)
        /\ {"shrinks", "grows"} \cap Range(story.steps) = {} <=> Carded = {}
        /\ k.up + k.down = k.changed /\ Total(story.color) = k.changed
        /\ Cardinality(Dotted("more") \cap known) \in k.up - dropped .. k.up
        /\ Cardinality(Dotted("less") \cap known) \in k.down - dropped .. k.down
        /\ story.up \in onAxis => \A p \in onAxis : dots[p].value <= dots[story.up].value
        /\ story.down \in onAxis => \A p \in onAxis : dots[p].value >= dots[story.down].value
        /\ story.offScale \cap DOMAIN dots = {p \in DOMAIN dots : IsOffScale(dots[p].value)}
        /\ FeedsAgree =>
             /\ k.up = Cardinality(Dotted("more")) /\ k.down = Cardinality(Dotted("less"))
             /\ story.swarm.form = "all_are_sizes" => story.swarm.n = k.changed
             /\ \A p \in {story.up, story.down} \ {None} : p \in onAxis
             /\ {story.up, story.down} = {None} => \A p \in onAxis : dots[p].value = 0

\* Two boxes do not meet.
Clear(a, b) == a.x1 <= b.x0 \/ b.x1 <= a.x0 \/ a.bottom <= b.top \/ b.bottom <= a.top

\* The number a category is given is that of its listed products that changed, or the endpoints
\* all tell the same, /categories of the changes of the feed.
CountAgrees(c) ==
  \/ feed.categories[c] = None
  \/ /\ FeedsAgree
     /\ feed.categories[c] = Cardinality({e \in Range(feed.changes) : Category[e.product] = c})

(***************************************************************************)
(* The grid tells the field (grid.ts:6, 19 and 102): every product has     *)
(* one place, the changed ones at the start of their block, and no block   *)
(* runs into another or off the stage unless its dots would be under 3 px. *)
(* On a wide stage the count beside a block stands past its changed dots   *)
(* where it agrees with them, just past them when no product changed twice *)
(* or the changed products are what is counted; an answer of /categories   *)
(* older or newer than the feed may put it anywhere (Graphic.tsx:191).     *)
(***************************************************************************)
GridTellsTheField ==
  grid # None =>
    LET half  == grid.pitch \div 2
        Box(b) == [x0 |-> b.x, x1 |-> DotX(grid, b, b.count) + half, top |-> b.y,
                   bottom |-> DotY(grid, b, Min({b.count, grid.rows})) + half]
        Coloured(b) == {j \in DOMAIN b.ids : dots[b.ids[j]].direction # None}
        Events(b) == {c \in Range(feed.changes) : c.product \in Range(b.ids)}
    IN  /\ UNION {Range(b.ids) : b \in Range(grid.blocks)} = DOMAIN dots
        /\ \A k, l \in DOMAIN grid.blocks :
             \A i \in DOMAIN grid.blocks[k].ids, j \in DOMAIN grid.blocks[l].ids :
               grid.blocks[k].ids[i] = grid.blocks[l].ids[j] => k = l /\ i = j
        /\ \A b, c \in Range(grid.blocks) : b # c => Clear(Box(b), Box(c))
        /\ \A b \in Range(grid.blocks) :
             /\ Coloured(b) = 1..Cardinality(Coloured(b))
             /\ grid.fits => Box(b).x1 <= stage.width /\ Box(b).bottom <= stage.height
             /\ ~stage.narrow =>
                  /\ \A j \in Coloured(b) :
                       CountAgrees(Category[b.ids[j]]) => DotX(grid, b, j) + half < b.changeX
                  /\ \A j \in DOMAIN b.ids \ Coloured(b) :
                       /\ CountAgrees(Category[b.ids[j]])
                       /\ \/ feed.categories[Category[b.ids[j]]] = None
                          \/ Cardinality(Events(b)) = Cardinality(Ids(Events(b)))
                       /\ j > grid.rows * Ceil(Cardinality(Coloured(b)), grid.rows)
                       => b.changeX - Px(5) <= DotX(grid, b, j) - half

(***************************************************************************)
(* Every coloured dot has a place of its own on the stage: none covers     *)
(* another, those on the axis stand in the order of their values between   *)
(* its ends, the others beyond the break on their side.                    *)
(***************************************************************************)
DotsApart ==
  chart # None =>
    LET swarm == chart.swarm
        D     == 2 * swarm.r
        Value(p) == dots[p.id].value
    IN  /\ {p.id : p \in swarm.positions} = Dotted("more") \cup Dotted("less")
        /\ \A p, q \in swarm.positions : p.id # q.id =>
             /\ (p.x - q.x) * (p.x - q.x) + (p.y - q.y) * (p.y - q.y) >= D * D
             /\ Value(p) < Value(q) => p.x <= q.x
        /\ \A p \in swarm.positions :
             /\ p.x >= swarm.r /\ p.x + swarm.r <= stage.width
             /\ p.y >= swarm.r /\ p.y + swarm.r <= chart.axisY
             /\ IF IsOffScale(Value(p)) THEN p.x < swarm.x0 \/ p.x > swarm.x1
                ELSE p.x \in swarm.x0..swarm.x1

\* Dots beyond both ends of the axis need 284 px of the stage.
EndsFit ==
  (\E d, e \in SwarmDots(dots) : d.value > OffScale /\ e.value < -OffScale) => stage.width >= Px(284)

(***************************************************************************)
(* Where layoutSwarm can keep its word: no more dots within 16 px of each  *)
(* other than its heights are enough for, an axis with room for both ends, *)
(* and, where the swarm is not below the labels, the room it asked for     *)
(* found by the smallest of its radii.                                     *)
(***************************************************************************)
Roomy ==
  chart # None =>
    LET swarm     == chart.swarm
        Beside(p) == {q \in swarm.positions : Magnitude(q.x - p.x) <= Px(16)}
    IN  /\ \A p \in swarm.positions :
             p.x \in swarm.x0..swarm.x1 => 31 * Cardinality(Beside(p)) <= MaxTries
        /\ EndsFit
        /\ ~stage.compact => swarm.maxY - swarm.minY <= (stage.height * 36) \div 100

\* On a phone a third column's labels are 34 px from the second's: separateTicks moves a label
\* over a neighbour it was already clear of, or off the stage.
ThreeColumnsOnPhone ==
  stage.narrow /\ \E z \in {chart.swarm.left, chart.swarm.right} \ {None} : Len(z.columns) > 2

\* The name of an extreme, as high as it is written: its leader may reach further down.
Written(a) == [x0 |-> a.x0, x1 |-> a.x1, top |-> a.top, bottom |-> a.base + chart.descent]

\* The boxes of the names of the extremes (no wider than the stage, annotate.ts:118) never meet
\* each other or the off-scale count, and never leave the stage by its sides.
NamesApart ==
  \A i \in DOMAIN chart.annotations :
    LET name == Written(chart.annotations[i])
    IN  /\ name.x0 >= 0 /\ name.x1 <= stage.width
        /\ \A j \in DOMAIN chart.annotations : i < j => Clear(name, Written(chart.annotations[j]))
        /\ \A o \in chart.off : Clear(name, o)

\* The captions stand on the stage, either side of each other.
CaptionsApart ==
  /\ chart.captions[1].x0 >= 0 /\ chart.captions[2].x1 <= stage.width
  /\ chart.captions[1].x1 <= chart.captions[2].x0

\* The ticks likewise.
TicksApart ==
  \A i \in DOMAIN chart.ticks :
    /\ LeftOf(chart.ticks[i]) >= 0 /\ RightOf(chart.ticks[i]) <= stage.width
    /\ i > 1 => RightOf(chart.ticks[i - 1]) <= LeftOf(chart.ticks[i])

(***************************************************************************)
(* Labels never overlap and never leave the stage (annotate.ts:103-106):   *)
(* the names of the extremes, the off-scale count, the ticks and captions, *)
(* on every stage and wherever the extremes are; the ticks of a phone with *)
(* three off-scale columns on one side are the exception.                  *)
(***************************************************************************)
LabelsApart ==
  chart # None =>
    /\ NamesApart /\ CaptionsApart
    /\ ~ThreeColumnsOnPhone => TicksApart
    /\ \A a \in Range(chart.annotations) : a.top >= 0
    /\ \A o \in chart.off : o.x0 >= 0 /\ o.x1 <= stage.width /\ o.top >= 0
    /\ chart.captionY <= stage.height
=============================================================================
