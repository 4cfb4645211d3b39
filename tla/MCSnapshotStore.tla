-------------------------- MODULE MCSnapshotStore --------------------------
(***************************************************************************)
(* Instances of SnapshotStore: three labels of one product (a package, a   *)
(* smaller one, and the first under another name), and readings that make  *)
(* them a shrink, a reading too uncertain to publish, and an unknown.      *)
(***************************************************************************)
EXTENDS SnapshotStore

BigLabel     == [text |-> "20 oz", name |-> "chips"]
SmallLabel   == [text |-> "10 oz", name |-> "chips"]
RenamedLabel == [text |-> "20 oz", name |-> "crisps"]

TwoLabels   == {BigLabel, SmallLabel}
ThreeLabels == {BigLabel, SmallLabel, RenamedLabel}
OnePrice    == {100}
\* The first two are the same price to the classifier.
ThreePrices == {1000, 1004, 1200}

\* The labels that take a model.
NoLabels   == {}
SmallOnly  == {SmallLabel}

Sure(q)       == [quantity |-> q, unit |-> "g", conf |-> 95]
UnknownSize   == [quantity |-> None, unit |-> None, conf |-> 0]
SureReadings  == {Sure(10), Sure(20)}
MixedReadings == {Sure(10), Sure(20), UnknownSize}
=============================================================================
