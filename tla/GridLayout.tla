----------------------------- MODULE GridLayout -----------------------------
(***************************************************************************)
(* The grid of all products, a block per category (lib/grid.ts).  Lengths  *)
(* are tenths of a pixel.  A block has the products the model names and    *)
(* then those it only counts, which never changed.                         *)
(***************************************************************************)
EXTENDS SwarmLayout

LabelWidth == Px(172)
RowsTried  == 3..6

Ceil(n, d) == (n + d - 1) \div d

\* Dots in the largest block.
Largest(blocks) == Max({1} \cup {b.count : b \in Range(blocks)})

\* The pitch a number of rows allows, and the first number that allows the largest.
Fit(blocks, stage, rows) ==
  Min({Px(12), (stage.width - LabelWidth) \div Ceil(Largest(blocks), rows),
       (stage.height - Px(6) - Px(12) * (Len(blocks) - 1)) \div (rows * Len(blocks))})

WideRows(blocks, stage) ==
  LET Pitch(rows) == Fit(blocks, stage, rows)
      pitch == Max({0} \cup {Pitch(rows) : rows \in RowsTried})
  IN  [pitch |-> pitch, rows |-> IF pitch = 0 THEN 4 ELSE Min({rows \in RowsTried : Pitch(rows) = pitch})]

\* wideLayout: labels beside the blocks, and the count of changes past the changed dots.
WideLayout(blocks, stage) ==
  LET best  == WideRows(blocks, stage)
      pitch == Max({Px(3), best.pitch})
  IN  [rows   |-> best.rows, pitch |-> pitch, r |-> (pitch * 37) \div 100,
       fits   |-> best.pitch >= Px(3),
       blocks |-> [k \in DOMAIN blocks |->
                     [x |-> LabelWidth, y |-> Px(3) + (k - 1) * (best.rows * pitch + Px(12)),
                      ids |-> blocks[k].ids, count |-> blocks[k].count,
                      changeX |-> LabelWidth + Ceil(blocks[k].changes, best.rows) * pitch + Px(5)]]]

\* narrowLayout: two blocks to a band, each under its label, in the fewest columns that fit.
NarrowLayout(blocks, stage) ==
  LET across  == IF Len(blocks) > 1 THEN 2 ELSE 1
      colW    == (stage.width - Px(14) * (across - 1)) \div across
      bands   == Ceil(Len(blocks), across)
      Fits(c) == bands * Px(19) * c - Px(4) * c + bands * Ceil(Largest(blocks), c) * colW
                   <= (stage.height - Px(2)) * c
      fitting == {c \in 8..399 : Fits(c)}
      cols    == IF fitting = {} THEN 400 ELSE Min(fitting)
      rows    == Ceil(Largest(blocks), cols)
      pitch   == colW \div cols
      band    == Px(15) + rows * pitch + Px(4)
  IN  [rows   |-> rows, pitch |-> pitch, r |-> Max({13, (pitch * 36) \div 100}),
       fits   |-> fitting # {},
       blocks |-> [k \in DOMAIN blocks |->
                     [x |-> ((k - 1) % across) * (colW + Px(14)),
                      y |-> ((k - 1) \div across) * band + Px(15),
                      ids |-> blocks[k].ids, count |-> blocks[k].count, changeX |-> 0]]]

NoLayout == [rows |-> 1, pitch |-> Px(6), r |-> Px(2), fits |-> TRUE, blocks |-> <<>>]

LayoutGrid(blocks, stage) ==
  IF blocks = <<>> THEN NoLayout
  ELSE IF stage.narrow THEN NarrowLayout(blocks, stage) ELSE WideLayout(blocks, stage)

\* Where a block's i-th dot is.
DotX(grid, block, i) == block.x + ((i - 1) \div grid.rows) * grid.pitch + grid.pitch \div 2
DotY(grid, block, i) == block.y + ((i - 1) % grid.rows) * grid.pitch + grid.pitch \div 2
=============================================================================
