----------------------------- MODULE MCArticle ------------------------------
(* Small feeds of every shape, and the swarm's extremes at many values.     *)
EXTENDS Article

MCProducts == 1..8
MCCategory == [p \in MCProducts |-> IF p % 2 = 1 THEN "cereal" ELSE "coffee"]
MCLabel ==
  [p \in MCProducts |->
     CASE p % 3 = 1 -> [words |-> <<W(6), W(16), W(14), [chars |-> 3, joins |-> TRUE], W(12), W(7)>>, lead |-> 1]
       [] p % 3 = 2 -> [words |-> Words(<<6, 3>>), lead |-> 2]
       [] OTHER -> [words |-> Words(<<7, 5, 9>>), lead |-> 1]]

Size(width, height, narrow, compact) ==
  [width |-> Px(width), height |-> Px(height), narrow |-> narrow, compact |-> compact]
Smallest == Size(288, 260, TRUE, TRUE)
MCStages ==
  {Smallest, Size(328, 284, TRUE, TRUE), Size(736, 396, FALSE, TRUE),
   Size(560, 600, FALSE, FALSE), Size(782, 700, FALSE, FALSE)}

Query(kind, category, sort) == [kind |-> kind, category |-> category, sort |-> sort, other |-> "ref"]
Plain == Query(None, None, None)
MCLinks ==
  {Plain, Query("grow", None, None), Query(Unknown, Unknown, [key |-> Unknown, minus |-> TRUE]),
   Query("price_decrease", "coffee", [key |-> "when", minus |-> FALSE])}

Entry(p, kind, unitPct, pricePct) ==
  [product |-> p, kind |-> kind, unitPct |-> unitPct, pricePct |-> pricePct]

\* The feed has the newest first; two changes of a run were detected together.
FeedOf(entries) ==
  [i \in DOMAIN entries |->
     LET id == Len(entries) + 1 - i
         e  == entries[i]
     IN  [id |-> id, product |-> e.product, kind |-> e.kind, unitPct |-> e.unitPct, pricePct |-> e.pricePct,
          detected |-> (id + 1) \div 2, seen |-> IF e.unitPct = None THEN None ELSE (id + 1) \div 2]]

FieldOf(s) ==
  [p \in MCProducts |-> LET c == ChangeOf(Range(s), p) IN IF c = None THEN None ELSE c.kind]

\* Products that are only counted: none, a few, a catalog, and too many for the stage.
Quiet(n) ==
  CASE n % 4 = 0 -> [cereal |-> 0, coffee |-> 0, tea |-> 0]
    [] n % 4 = 1 -> [cereal |-> 120, coffee |-> 276, tea |-> 33]
    [] n % 4 = 2 -> [cereal |-> 12, coffee |-> 5, tea |-> 30]
    [] OTHER -> [cereal |-> 20, coffee |-> 900, tea |-> 0]

\* What /categories answers: no category, counts as of the feed, and no change yet.
Unlisted == [c \in Categories |-> None]
CountsOf(s) ==
  [c \in Categories |-> IF c = "cereal" /\ Len(s) % 2 = 1 THEN None
                        ELSE Cardinality({e \in Range(s) : Category[e.product] = c})]
NoneYet == [c \in Categories |-> 0]

With(s, field, counts) ==
  [changes |-> s, field |-> field, categories |-> counts, quiet |-> Quiet(Len(s))]

Templates ==
  {<<"shrink", 333, 0>>, <<"shrink", 2430, 0>>, <<"shrink_price_cut", -100, -300>>, <<"grow", -200, 0>>,
   <<"grow", 50, 300>>, <<"price_increase", None, 125>>, <<"price_increase", 0, 5>>,
   <<"price_decrease", -125, -125>>, <<"price_decrease", -600, -600>>}
Entries(ps) == {Entry(p, t[1], t[2], t[3]) : p \in ps, t \in Templates}

\* Up to two changes, of one product or two.
Pairs == {FeedOf(e) : e \in UNION {[1..n -> Entries({1, 2})] : n \in 0..2}}

\* One change; the field has dropped its product, or knows of another's newer change, and
\* /categories lists nothing or has an older answer.
Skewed ==
  {With(FeedOf(<<e>>), f, c) : e \in Entries({2}),
     f \in {[FieldOf(<<>>) EXCEPT ![2] = Gone], [FieldOf(<<>>) EXCEPT ![3] = "price_increase"]},
     c \in {Unlisted, NoneYet}}
  \cup {With(<<>>, [p \in MCProducts |-> Gone], NoneYet)}

\* The extremes of the axis at many values, with moves off the scale or without.
Up1(value) == Entry(1, "price_increase", value, value)
Down2(value) == Entry(2, "price_decrease", -value, -value)
Beyond ==
  {<<>>, <<Entry(3, "shrink", 1000, 0), Entry(4, "shrink", 2430, 0)>>,
   <<Entry(3, "price_decrease", -600, -600)>>,
   <<Entry(3, "price_decrease", -600, -600), Entry(4, "shrink", 1000, 0), Entry(5, "shrink", 1700, 0),
     Entry(6, "shrink", 1700, 0), Entry(7, "shrink", 2430, 0), Entry(8, "shrink", 3600, 0)>>}
Sweep == {10, 60, 140, 230, 310, 420, 500}
Swept == {FeedOf(<<Up1(u), Down2(d)>> \o b) : u, d \in Sweep, b \in Beyond}

\* Many dots at one value and close to each other.
Crowd(values) == FeedOf([i \in 1..8 |-> Entry(i, "price_increase", values[i], values[i])])
Crowds ==
  {Crowd(<<50, 50, 50, 50, 50, 50, 50, 50>>), Crowd(<<50, 52, 54, 56, 58, 60, 62, 64>>),
   Crowd(<<300, 300, 299, 296, 290, 100, 96, 96>>), Crowd(<<510, 511, 513, 516, 700, 702, 800, 901>>)}

\* Some rows for the table: a product twice, ties, more rows than a page.
Tabled ==
  {With(s, FieldOf(s), CountsOf(s)) : s \in
     {<<>>,
      FeedOf(<<Entry(1, "grow", -200, 0), Entry(2, "price_increase", None, 125), Entry(1, "shrink", 333, 0),
               Entry(4, "price_decrease", -125, -125), Entry(3, "shrink_price_cut", -125, -300)>>)}}

Consistent == {With(s, FieldOf(s), CountsOf(s)) : s \in Pairs \cup Swept \cup Crowds}
MCFeeds == Consistent \cup Skewed \cup Tabled

\* The controls do not touch the picture, so the table is worked before it is drawn; and a
\* resize lays the picture out anew, so from one stage to each other is enough.
MCNext ==
  \/ Render
  \/ stage \in {None, Smallest} /\ address = Plain /\ ~showAll /\ Resize
  \/ stage = None /\ feed \in Tabled /\ AtTable
MCSpec == Init /\ [][MCNext]_vars
=============================================================================
