---------------------------- MODULE ChartLayout -----------------------------
(***************************************************************************)
(* The text of the chart of price moves (lib/chartLayout.ts,               *)
(* lib/annotate.ts, balancedWrap of lib/text.ts) around the dots of        *)
(* SwarmLayout.  A text is the sequence of its words; a word is its number *)
(* of characters, and whether it joins others ("and", "of").  Characters   *)
(* have the widths textMeasure of components/Graphic.tsx falls back to.    *)
(***************************************************************************)
EXTENDS SwarmLayout

CONSTANT NameRows   \* NAME_ROWS

Word == [chars : Nat, joins : BOOLEAN]
W(n) == [chars |-> n, joins |-> FALSE]
Words(lengths) == [i \in DOMAIN lengths |-> W(lengths[i])]

\* The words' characters and the spaces between them.
Chars(text) ==
  LET sum[n \in 0..Len(text)] == IF n = 0 THEN Len(text) - 1 ELSE sum[n - 1] + text[n].chars
  IN  sum[Len(text)]

\* textMeasure at a font size; weights from 600 are wider.
Measure(text, px, bold) == IF bold THEN Chars(text) * px * 6 ELSE (Chars(text) * px * 11) \div 2

---------------------------------------------------------------------------
(* Wrapping                                                                *)

AddWord(lines, word, max, px, bold) ==
  IF lines = <<>> \/ Measure(Append(Last(lines), word), px, bold) > max
  THEN Append(lines, <<word>>)
  ELSE [lines EXCEPT ![Len(lines)] = Append(@, word)]

\* The lines of the first n words, for every n.
WrapText(text, max, px, bold) ==
  LET lines[n \in 0..Len(text)] ==
        IF n = 0 THEN <<>> ELSE AddWord(lines[n - 1], text[n], max, px, bold)
  IN  lines[Len(text)]

\* The narrowest width that needs no more lines; the code bisects for it.
Balanced(lines, text, max, px, bold) ==
  LET widths == {Measure(SubSeq(text, i, j), px, bold) : i, j \in DOMAIN text}
      enough == {w \in widths : 0 < w /\ w <= max /\ Len(WrapText(text, w, px, bold)) <= Len(lines)}
  IN  IF Len(lines) < 2 \/ enough = {} THEN lines ELSE WrapText(text, Min(enough), px, bold)

BalancedWrap(text, max, px, bold) == Balanced(WrapText(text, max, px, bold), text, max, px, bold)

\* nameRows: a long name keeps its brand and as many of its last words as fit.
RowsOfName(label, max, px) ==
  LET full     == BalancedWrap(label.words, max, px, TRUE)
      Cut(i)   == BalancedWrap(SubSeq(label.words, 1, label.lead) \o <<W(1)>>
                                 \o SubSeq(label.words, i, Len(label.words)), max, px, TRUE)
      cuts     == {i \in (label.lead + 2)..Len(label.words) :
                     ~label.words[i].joins /\ Len(Cut(i)) <= NameRows}
  IN  IF Len(full) <= NameRows \/ cuts = {} THEN full ELSE Cut(Min(cuts))

Row(text, bold) == [text |-> text, bold |-> bold]
AsRows(lines, bold) == [i \in DOMAIN lines |-> Row(lines[i], bold)]

\* A label has a price or <<>>, and a percentage; the comma belongs to the price.
AnnotationRows(label, narrow, max, px) ==
  AsRows(RowsOfName(label, max, px), TRUE) \o
  (IF label.price = <<>> THEN <<Row(label.percent, FALSE)>>
   ELSE IF narrow THEN <<Row(label.price, FALSE), Row(label.percent, FALSE)>>
   ELSE <<Row(Front(label.price) \o <<W(Last(label.price).chars + 1)>> \o label.percent, FALSE)>>)

RowsWidth(rows, px) == Max({Measure(rows[i].text, px, rows[i].bold) : i \in DOMAIN rows})

---------------------------------------------------------------------------
(* The two annotations                                                     *)

\* Mutant of Hits: a label is clear of another above or below it by its own corner.
HitsInside(x0, x1, top, bottom, taken) ==
  {o \in taken : x0 >= o.x0 /\ x1 <= o.x1 /\ top < o.bottom + Px(4) /\ bottom > o.top - Px(4)}

\* CLEARANCE beside and 4 px above and below.
Hits(x0, x1, top, bottom, taken) ==
  {o \in taken : /\ x0 < o.x1 + Px(12) /\ x1 > o.x0 - Px(12)
                 /\ top < o.bottom + Px(4) /\ bottom > o.top - Px(4)}

\* The options o of placeAnnotations: sizes of the type and distances.
TopOf(base, rows, o) == base - (Len(rows) - 1) * o.rowH - o.ascent
HitsAt(x0, w, base, rows, o, taken) == Hits(x0, x0 + w, TopOf(base, rows, o), base + o.descent, taken)

\* On the preferred side, else the other: inside the stage and, if possible, clear of the others.
BesideDot(l, w, start, o, taken) ==
  LET Beside(s) == [anchor |-> s, x0 |-> IF s = "start" THEN l.dot.x + o.gap ELSE l.dot.x - o.gap - w]
      other     == IF l.prefer = "start" THEN "end" ELSE "start"
      sides     == <<Beside(l.prefer), Beside(other)>>
      inside    == {i \in 1..2 : sides[i].x0 >= 0 /\ sides[i].x0 + w <= o.width}
      clear     == {i \in inside : HitsAt(sides[i].x0, w, start, l.rows, o, taken) = {}}
  IN  IF clear # {} THEN sides[Min(clear)]
      ELSE IF inside # {} THEN sides[Min(inside)]
      ELSE [Beside(l.prefer) EXCEPT !.x0 = Max({0, Min({o.width - w, @})})]

\* Lifted above whatever it hits, eight times at most.
Lifted(l, w, box, start, o, taken) ==
  LET Above(base) ==
        LET hit == HitsAt(box.x0, w, base, l.rows, o, taken)
        IN  IF hit = {} THEN base ELSE Min({h.top : h \in hit}) - Px(6) - o.descent - o.leaderGap
      lift[n \in 0..8] == IF n = 0 THEN start ELSE Above(lift[n - 1])
      base == lift[8]
  IN  [id |-> l.id, anchor |-> box.anchor, rows |-> Len(l.rows), base |-> base,
       x0 |-> box.x0, x1 |-> box.x0 + w, top |-> TopOf(base, l.rows, o),
       bottom |-> base + Max({o.descent, o.leaderGap})]

PlaceOne(l, w, start, o, taken) == Lifted(l, w, BesideDot(l, w, start, o, taken), start, o, taken)

\* labels is a sequence of products, their rows, dots and preferred sides; start is the base of
\* a label that is not lifted.
PlaceAnnotations(labels, start, o, obstacles) ==
  LET placed[n \in 0..Len(labels)] ==
        IF n = 0 THEN <<>>
        ELSE LET l == labels[n]
             IN  Append(placed[n - 1], PlaceOne(l, Min({o.width, RowsWidth(l.rows, o.px)}), start, o,
                                                Range(placed[n - 1]) \cup obstacles))
  IN  placed[Len(labels)]

---------------------------------------------------------------------------
(* The axis: its ticks and captions                                        *)

\* tickAnchor and formatPercent(value, 0): a sign, the digits rounded half up and the percent sign.
Tick(value, x, width, px) ==
  LET digits == CASE Magnitude(value) < 95 -> 1 [] Magnitude(value) < 995 -> 2 [] OTHER -> 3
      w      == Measure(<<W(IF value = 0 THEN 1 ELSE digits + 2)>>, px, FALSE)
      half   == w \div 2
  IN  IF x < half THEN [x |-> Max({0, x - half}), anchor |-> "start", w |-> w, shown |-> TRUE]
      ELSE IF x + half > width
           THEN [x |-> Min({width, x + half}), anchor |-> "end", w |-> w, shown |-> TRUE]
           ELSE [x |-> x, anchor |-> "middle", w |-> w, shown |-> TRUE]

LeftOf(t)  == CASE t.anchor = "start" -> t.x [] t.anchor = "end" -> t.x - t.w
                [] t.anchor = "middle" -> t.x - t.w \div 2
RightOf(t) == LeftOf(t) + t.w

Apart(t, u) == RightOf(t) + Px(6) <= LeftOf(u)

\* One neighbour pair of separateTicks: anchored away from each other, or the left one goes.
SeparatePair(labels, i) ==
  LET left  == [labels[i] EXCEPT !.anchor = IF @ = "middle" THEN "end" ELSE @]
      right == [labels[i + 1] EXCEPT !.anchor = IF @ = "middle" THEN "start" ELSE @]
  IN  IF Apart(labels[i], labels[i + 1]) THEN labels
      ELSE [labels EXCEPT ![i] = [left EXCEPT !.shown = @ /\ Apart(left, right)], ![i + 1] = right]

SeparateTicks(labels) ==
  LET sorted == SortSeq(labels, LAMBDA t, u : t.x < u.x)
  IN  FoldLeft(SeparatePair, sorted, [i \in 1..(Len(labels) - 1) |-> i])

\* placeCaptions: the long pair, the short one, or the short one slid inside.
Captions(zeroX, width, px) ==
  LET Width(chars) == chars * px * 6
      longFits == zeroX - Px(10) - Width(21) >= 0 /\ zeroX + Px(10) + Width(21) <= width
      w        == Width(IF longFits THEN 21 ELSE 6)
      end      == Max({w, zeroX - Px(10)})
      start    == Min({width - w, zeroX + Px(10)})
  IN  <<[x0 |-> end - w, x1 |-> end], [x0 |-> start, x1 |-> start + w]>>

---------------------------------------------------------------------------
(* The whole chart                                                         *)

\* The lengths of the chart on a stage; the leader's and the label's options among them.
SizesOn(stage) ==
  LET narrow == stage.narrow
      px     == IF narrow THEN 12 ELSE 13
      axis   == CASE narrow -> Px(12) [] ~narrow /\ stage.compact -> Px(18) [] OTHER -> Px(26)
      caption == CASE narrow -> Px(34) [] ~narrow /\ stage.compact -> Px(40) [] OTHER -> Px(46)
  IN  [narrow    |-> narrow, width |-> stage.width, px |-> px,
       tickPx    |-> IF narrow THEN 11 ELSE 12,
       rowH      |-> IF narrow THEN Px(14) ELSE Px(16),
       ascent    |-> RoundPx((px * 74) \div 10),
       descent   |-> RoundPx((px * 22) \div 10),
       zero      |-> IF narrow THEN Px(8) ELSE Px(14),
       gap       |-> IF narrow THEN Px(4) ELSE Px(6),
       leaderGap |-> IF narrow THEN Px(6) ELSE Px(9),
       axis      |-> axis,
       caption   |-> caption,
       bottom    |-> axis + caption + RoundPx(3 * px) + Px(4),
       maxWidth  |-> IF narrow THEN Min({Px(170), 10 * ((stage.width * 48) \div 1000)})
                     ELSE Min({Px(260), 10 * ((stage.width * 38) \div 1000)})]

\* offLabelFor: above the columns, inside their zone and the break beside it.
OffBox(swarm, zone, rows, m) ==
  LET isRight == zone = swarm.right
      w       == RowsWidth(rows, m.px)
      ids     == UNION {Range(c.ids) : c \in Range(zone.columns)}
      top     == Min({p.y - swarm.r : p \in {q \in swarm.positions : q.id \in ids}})
      base    == RoundPx(top - (IF m.narrow THEN Px(8) ELSE Px(12)))
  IN  [x0 |-> IF isRight THEN zone.x1 - w ELSE zone.x0,
       x1 |-> IF isRight THEN zone.x1 ELSE zone.x0 + w,
       top |-> base - (Len(rows) - 1) * m.rowH - (m.rowH * 7) \div 10, bottom |-> base + Px(4)]

OffLabel(swarm, count, text, m) ==
  LET zone     == IF swarm.right # None THEN swarm.right ELSE swarm.left
      maxWidth == IF swarm.right # None THEN zone.x1 - (swarm.x1 + Px(6)) ELSE swarm.x0 - Px(6) - zone.x0
  IN  IF zone = None \/ count = 0 THEN {}
      ELSE {OffBox(swarm, zone, AsRows(BalancedWrap(Words(<<1, 3, 3, 5>>), maxWidth, m.px, TRUE), TRUE)
                                  \o AsRows(BalancedWrap(text, maxWidth, m.px, FALSE), FALSE), m)}

\* The label of an extreme, if its dot is drawn.
Labelled(swarm, label, side, m) ==
  IF label = None \/ ~\E p \in swarm.positions : p.id = label.id THEN <<>>
  ELSE <<[id |-> label.id, rows |-> AnnotationRows(label, m.narrow, m.maxWidth, m.px), prefer |-> side,
          dot |-> CHOOSE p \in swarm.positions : p.id = label.id]>>

\* What one placing of the swarm gives, and how high it reaches.
Placement(swarm, annotations, off, m) ==
  [swarm |-> swarm, annotations |-> annotations, off |-> off,
   highest |-> Min({swarm.minY - m.zero} \cup {b.top : b \in Range(annotations) \cup off})]

WithLabels(in, swarm, off, m) ==
  Placement(swarm,
            PlaceAnnotations(Labelled(swarm, in.down, "start", m) \o Labelled(swarm, in.up, "end", m),
                             swarm.minY - (IF m.narrow THEN Px(14) ELSE Px(24)), m, off),
            off, m)

Labels(in, swarm, m) == WithLabels(in, swarm, OffLabel(swarm, in.offCount, in.offText, m), m)

PlaceChart(in, stage, top, m) == Labels(in, LayoutSwarm(in.dots, stage, top, m.bottom), m)

\* A compact stage: the swarm as high as the labels above it allow, in four passes.
Shifted(acc, result, m) ==
  LET shift == Px(4) - result.highest
  IN  IF Magnitude(shift) < Px(1) THEN [top |-> acc.top, result |-> result, settled |-> TRUE]
      ELSE [top |-> Max({m.zero + Px(4), acc.top + shift}), result |-> result, settled |-> FALSE]

Passes(in, stage, m) ==
  LET pass[n \in 0..4] ==
        IF n = 0 THEN [top |-> Px(60), result |-> None, settled |-> FALSE]
        ELSE LET acc == pass[n - 1]
             IN  IF acc.settled THEN acc ELSE Shifted(acc, PlaceChart(in, stage, acc.top, m), m)
  IN  pass[4].result

\* Room left over goes above and below.
Centred(in, stage, passed, m) ==
  LET spare == Px((stage.height - passed.swarm.maxY - m.bottom) \div 20)
  IN  IF spare > Px(6) THEN PlaceChart(in, stage, RoundPx(passed.swarm.minY + spare), m) ELSE passed

\* The axis below the swarm, and the whole.
Assembled(placed, m) ==
  LET swarm   == placed.swarm
      columns == FlattenSeq([i \in 1..2 |-> LET z == <<swarm.left, swarm.right>>[i]
                                             IN  IF z = None THEN <<>> ELSE z.columns])
      axisY   == RoundPx(swarm.maxY + m.axis)
  IN  [swarm       |-> swarm,
       axisY       |-> axisY,
       captionY    |-> axisY + m.caption,
       descent     |-> m.descent,
       annotations |-> placed.annotations,
       off         |-> placed.off,
       ticks       |-> SelectSeq(SeparateTicks(
                         [i \in DOMAIN swarm.ticks |->
                            Tick(swarm.ticks[i], AtValue(swarm, swarm.ticks[i]), m.width, m.tickPx)]
                         \o [i \in DOMAIN columns |->
                               Tick(columns[i].value, columns[i].x, m.width, m.tickPx)]),
                         LAMBDA t : t.shown),
       captions    |-> Captions(AtValue(swarm, 0), m.width, m.px)]

ChartWith(in, stage, m) ==
  Assembled(IF stage.compact THEN Centred(in, stage, Passes(in, stage, m), m)
            ELSE PlaceChart(in, stage, None, m), m)

\* layoutSwarmChart.  in has dots, down, up (labels or None), offCount and offText.
ChartOf(in, stage) == ChartWith(in, stage, SizesOn(stage))
=============================================================================
