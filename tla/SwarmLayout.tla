---------------------------- MODULE SwarmLayout -----------------------------
(***************************************************************************)
(* Places of the dots on the chart of price moves (lib/swarm.ts).  Lengths *)
(* are tenths of a pixel and values tenths of a percent, rounded down.     *)
(***************************************************************************)
EXTENDS Values, FiniteSets, SequencesExt

CONSTANT MaxTries   \* how many heights a dot tries

\* The largest of capFor's steps is OFF_SCALE; a number or a zone is not null.
ASSUME SwarmAssumption ==
  /\ MaxTries \in Nat \ {0} /\ OffScale <= 500
  /\ None \notin Int \cup [x0 : Int, x1 : Int, columns : Seq([x : Int, value : Int, ids : Seq(Int)])]

Px(n) == 10 * n
RoundPx(length) == 10 * ((length + 5) \div 10)

SortByValue(dots) ==
  InOrder(dots, LAMBDA a, b : a.value < b.value \/ (a.value = b.value /\ a.id < b.id))

CapFor(values) ==
  Min({s \in {100, 150, 200, 250, 300, 400, 500} : \A v \in values : Magnitude(v) <= s} \cup {500})

TicksFor(cap, most) ==
  LET fitting == {s \in {50, 100, 150, 200, 250, 500} : cap % s = 0 /\ (2 * cap) \div s + 1 <= most}
      step    == IF fitting = {} THEN cap ELSE Min(fitting)
  IN  [i \in 1..((2 * cap) \div step + 1) |-> (i - 1) * step - cap]

(***************************************************************************)
(* Off the scale: columns by value, at most three.                         *)
(***************************************************************************)
AddToGroups(groups, dot) ==
  IF groups # <<>> /\ dot.value - Last(groups)[1].value < 5
  THEN [groups EXCEPT ![Len(groups)] = Append(@, dot)]
  ELSE Append(groups, <<dot>>)

\* The groups of the first n dots, for every n.
Groups(sorted) ==
  LET groups[n \in 0..Len(sorted)] ==
        IF n = 0 THEN <<>> ELSE AddToGroups(groups[n - 1], sorted[n])
  IN  groups[Len(sorted)]

\* The two neighbours whose values are closest become one.
MergeClosest(groups) ==
  LET Gap(i) == groups[i + 1][1].value - groups[i][1].value
      pairs  == 1..(Len(groups) - 1)
      best   == Min({i \in pairs : \A j \in pairs : Gap(i) <= Gap(j)})
  IN  [i \in pairs |-> CASE i < best -> groups[i]
                         [] i = best -> groups[i] \o groups[i + 1]
                         [] i > best -> groups[i + 1]]

\* ... while there are more than three.
AtMostThree(groups) ==
  LET merged[n \in 0..Len(groups)] ==
        IF n = 0 THEN groups
        ELSE IF Len(merged[n - 1]) <= 3 THEN merged[n - 1] ELSE MergeClosest(merged[n - 1])
  IN  merged[Len(groups)]

ValueSum(group) ==
  LET sum[n \in 0..Len(group)] == IF n = 0 THEN 0 ELSE sum[n - 1] + group[n].value
  IN  sum[Len(group)]

\* The groups at equal distances between the zone's ends.
Columns(groups, x0, x1) ==
  LET n == Len(groups)
  IN  [i \in 1..n |->
        [x     |-> IF n = 1 THEN (x0 + x1) \div 2 ELSE x0 + ((x1 - x0) * (i - 1)) \div (n - 1),
         value |-> ValueSum(groups[i]) \div Len(groups[i]),
         ids   |-> [j \in DOMAIN groups[i] |-> groups[i][j].id]]]

OffColumns(dots, x0, x1) == Columns(AtMostThree(Groups(SortByValue(dots))), x0, x1)

(***************************************************************************)
(* On the scale: each dot at its value, as near to the middle as is free.  *)
(***************************************************************************)
Tried(k) == IF k % 2 = 1 THEN Px((k + 1) \div 2) ELSE -Px(k \div 2)

\* Mutant of Free: dots may touch in the corner.
FreeBeside(placed, x, y, D) ==
  \A i \in DOMAIN placed : Magnitude(placed[i].x - x) + Magnitude(placed[i].y - y) >= D

Free(placed, x, y, D) ==
  \A i \in DOMAIN placed :
    (placed[i].x - x) * (placed[i].x - x) + (placed[i].y - y) * (placed[i].y - y) >= D * D

\* The first height that is free, or the middle.
FreeY(placed, x, D) ==
  LET tries == 0..(MaxTries - 1)
      IsFirst(k) == Free(placed, x, Tried(k), D) /\ \A j \in 0..(k - 1) : ~Free(placed, x, Tried(j), D)
  IN  IF \E k \in tries : Free(placed, x, Tried(k), D) THEN Tried(CHOOSE k \in tries : IsFirst(k)) ELSE 0

\* The dots on the axis, each with the x of its value, after those before it.
PlaceInScale(dots, D) ==
  LET sorted == SortByValue(dots)
      placed[n \in 0..Len(sorted)] ==
        IF n = 0 THEN <<>>
        ELSE LET before == placed[n - 1]
             IN  Append(before, [id |-> sorted[n].id, x |-> sorted[n].x,
                                 y |-> FreeY(before, sorted[n].x, D)])
  IN  placed[Len(sorted)]

PlaceColumn(column, D) ==
  {[id |-> column.ids[j], x |-> column.x, y |-> ((2 * j - 1 - Len(column.ids)) * D) \div 2]
     : j \in DOMAIN column.ids}

(***************************************************************************)
(* layoutSwarm.  stage has width, height and narrow; top is None when the  *)
(* swarm sits in the middle.                                               *)
(***************************************************************************)
Zone(dots, x0, x1, inset) ==
  IF dots = {} THEN None
  ELSE [x0 |-> x0, x1 |-> x1, columns |-> OffColumns(dots, x0 + inset, x1 - inset)]

\* What the values take of the width: the axis and the zones beyond its ends.
AxisOf(dots, stage) ==
  LET narrow    == stage.narrow
      rightDots == {d \in dots : d.value > OffScale}
      leftDots  == {d \in dots : d.value < -OffScale}
      gap       == IF narrow THEN Px(30) ELSE Px(48)
      pad       == IF narrow THEN Px(8) ELSE Px(12)
      beyond    == gap + (IF narrow THEN Px(84) ELSE Px(128))
      edge      == IF narrow THEN Px(4) ELSE Px(8)
      inset     == IF narrow THEN Px(6) ELSE Px(10)
      x0        == pad + (IF leftDots # {} THEN beyond ELSE 0)
      x1        == Max({x0 + Px(40), stage.width - pad - (IF rightDots # {} THEN beyond ELSE 0)})
  IN  [cap   |-> CapFor({d.value : d \in {e \in dots : ~IsOffScale(e.value)}}),
       x0    |-> x0,
       x1    |-> x1,
       right |-> Zone(rightDots, x1 + gap, stage.width - pad - edge, inset),
       left  |-> Zone(leftDots, pad + edge, x0 - gap, inset)]

\* sx
AtValue(axis, value) == axis.x0 + ((value + axis.cap) * (axis.x1 - axis.x0)) \div (2 * axis.cap)

\* All dots around the middle line, at a radius.
PlacedAt(dots, axis, narrow, r) ==
  LET D       == 2 * r + (IF narrow THEN 12 ELSE 16)
      onAxis  == {[id |-> d.id, value |-> d.value, x |-> AtValue(axis, d.value)]
                    : d \in {e \in dots : ~IsOffScale(e.value)}}
      columns == UNION {Range(z.columns) : z \in {axis.left, axis.right} \ {None}}
      placed  == Range(PlaceInScale(onAxis, D)) \cup UNION {PlaceColumn(c, D) : c \in columns}
  IN  [r |-> r, dots |-> placed,
       minY |-> Min({-D} \cup {p.y - r : p \in placed}),
       maxY |-> Max({D} \cup {p.y + r : p \in placed})]

Smaller(r) == Max({Px(2), (r * 85) \div 100})

\* The radius shrinks until the tallest column fits the room, eight times at most.
Fitted(dots, axis, narrow, room) ==
  LET Settled(p) == p.maxY - p.minY <= room \/ p.r <= Px(2)
      attempt[n \in 0..7] ==
        IF n = 0 THEN PlacedAt(dots, axis, narrow, IF narrow THEN 56 ELSE Px(7))
        ELSE LET p == attempt[n - 1]
             IN  IF Settled(p) THEN p ELSE PlacedAt(dots, axis, narrow, Smaller(p.r))
      last == attempt[7]
  IN  IF Settled(last) THEN last ELSE [last EXCEPT !.r = Smaller(@)]

\* At its height, in the middle of the stage or below top.
Moved(fitted, axis, stage, top) ==
  LET cy   == RoundPx(IF top = None THEN stage.height \div 2 ELSE top - fitted.minY)
      most == (axis.x1 - axis.x0) \div (IF stage.narrow THEN Px(56) ELSE Px(80))
  IN  [r |-> fitted.r, cy |-> cy, minY |-> fitted.minY + cy, maxY |-> fitted.maxY + cy,
       positions |-> {[p EXCEPT !.y = @ + cy] : p \in fitted.dots},
       ticks     |-> TicksFor(axis.cap, Max({3, Min({7, most})})),
       cap |-> axis.cap, x0 |-> axis.x0, x1 |-> axis.x1, right |-> axis.right, left |-> axis.left]

SwarmOn(axis, dots, stage, top, bottom) ==
  LET room == IF top = None THEN (stage.height * 36) \div 100
              ELSE Max({Px(40), stage.height - top - bottom})
  IN  Moved(Fitted(dots, axis, stage.narrow, room), axis, stage, top)

LayoutSwarm(dots, stage, top, bottom) == SwarmOn(AxisOf(dots, stage), dots, stage, top, bottom)
=============================================================================
