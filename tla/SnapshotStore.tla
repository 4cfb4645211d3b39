--------------------------- MODULE SnapshotStore ---------------------------
(***************************************************************************)
(* The stored history of one tracked product: the snapshots that the       *)
(* refresh and basket jobs write (pipeline/observe.py), the changes they   *)
(* classify, the size parses both are read from, and the reparse command   *)
(* that revises parses and demotes changes (sizes/maintenance.py).         *)
(*                                                                         *)
(* Each run is a process of its own against one Postgres database at READ  *)
(* COMMITTED.  An observation is one transaction: Begin reads the latest   *)
(* snapshot and its parse, Resolve reads the parse of the new state, and   *)
(* Commit writes.  SQLAlchemy flushes the product's new last_seen_at       *)
(* before the first SELECT, so an observation that moves last_seen_at      *)
(* holds the product's row lock from Begin to its end.                     *)
(***************************************************************************)
EXTENDS Classifier, Sequences

CONSTANTS
  Refreshers,     \* refresh jobs: one observation of the product per run
  Baskets,        \* build-basket jobs (at most one): one observation per term
  Labels,         \* what the catalog prints, [text, name]; text is case-folded
  Prices,         \* regular prices, None included
  Readings,       \* what a parse can hold, [quantity, unit, conf]
  ModelRead,      \* labels the rules leave to a model, which may be unavailable
  Overlap,        \* may jobs run at the same time?
  ReparseAlone,   \* is reparse run only while no job runs?
  ReparseFails,   \* may reparse raise or be killed before it demotes?
  MaxRuns, MaxDeploys, MaxCommits   \* bounds for TLC

VARIABLES
  parser,     \* what the deployed parser makes of each label
  seen,       \* Product.last_seen_at, 0 before the product is tracked
  parses,     \* SizeParse row per label, None where there is none
  snaps,      \* Snapshot rows in id order
  changes,    \* Change rows
  clock,      \* start time of the latest job
  pc, now, fetched, txn,     \* per job: step, datetime.now at its start,
                             \* the catalog reading it holds, its transaction
  reparse,    \* the reparse command: [on, todo, revised]
  deploys, commits           \* how many parser updates, committed observations

dbVars    == <<seen, parses, snaps, changes>>
jobVars   == <<pc, now, fetched, txn>>
envVars   == <<parser, deploys>>
vars == <<dbVars, jobVars, envVars, clock, reparse, commits>>

Workers == Refreshers \cup Baskets

ASSUME SnapshotStoreAssumption ==
  /\ Refreshers \cap Baskets = {}
  /\ \A a, b \in Baskets : a = b
  /\ Labels # {} /\ Labels \subseteq [text : STRING, name : STRING]
  /\ Prices # {} /\ Prices \subseteq Nat \cup {None}
  /\ Readings # {} /\ None \notin Readings
  /\ Readings \subseteq [quantity : Nat \cup {None}, unit : STRING \cup {None}, conf : Nat]
  /\ ModelRead \subseteq Labels
  /\ Overlap \in BOOLEAN /\ ReparseAlone \in BOOLEAN /\ ReparseFails \in BOOLEAN
  /\ MaxRuns \in Nat /\ MaxDeploys \in Nat /\ MaxCommits \in Nat

---------------------------------------------------------------------------
(* Rows                                                                    *)

Reading  == [label : Labels, price : Prices]
Parse    == Readings \cup {None}
Snapshot == [label : Labels, price : Prices, first : Nat, last : Nat,
             observations : Nat, parsed : BOOLEAN]
Change   == [before : Nat, after : Nat, kind : Kinds, status : Statuses,
             sized : BOOLEAN, beforeQuantity : Nat \cup {None},
             afterQuantity : Nat \cup {None}]

\* An open transaction: the row id, counter and parses it has read, which of
\* the parses it inserts itself, and whether it holds the product's row lock.
Transaction ==
  [latest : Nat, observations : Nat, locked : BOOLEAN,
   before : Parse, beforeNew : BOOLEAN, after : Parse, afterNew : BOOLEAN]

NoTransaction ==
  [latest |-> 0, observations |-> 0, locked |-> FALSE,
   before |-> None, beforeNew |-> FALSE, after |-> None, afterNew |-> FALSE]

Steps == {"idle", "search", "fetched", "read", "resolved"}
InTransaction(w) == pc[w] \in {"read", "resolved"}

\* Mutants of LatestSnapshot: the order ascending, and the order without the id.
OldestSnapshot == IF snaps = <<>> THEN 0 ELSE 1
FirstOfTies ==
  IF snaps = <<>> THEN 0
  ELSE CHOOSE i \in DOMAIN snaps :
         \A j \in DOMAIN snaps :
           \/ snaps[j].last < snaps[i].last
           \/ snaps[j].last = snaps[i].last /\ i <= j

\* latest_snapshot: ORDER BY last_seen_at DESC, id DESC LIMIT 1; 0 if none.
LatestSnapshot ==
  IF snaps = <<>> THEN 0
  ELSE CHOOSE i \in DOMAIN snaps :
         \A j \in DOMAIN snaps :
           \/ snaps[j].last < snaps[i].last
           \/ snaps[j].last = snaps[i].last /\ j <= i

\* _same_state: size text, price and description all as in the latest snapshot.
SameState(w) ==
  /\ txn[w].latest # 0
  /\ snaps[txn[w].latest].label = fetched[w].label
  /\ snaps[txn[w].latest].price = fetched[w].price

\* SnapshotView.from_snapshot
SnapshotView(label, price, parse) ==
  [text |-> label.text, price |-> price,
   quantity |-> IF parse = None THEN None ELSE parse.quantity,
   unit |-> IF parse = None THEN None ELSE parse.unit,
   conf |-> IF parse = None THEN 0 ELSE parse.conf]

Resolution == [parse : Parse, inserts : BOOLEAN]
NoResolution == [parse |-> None, inserts |-> FALSE]

\* resolve_size: the cached row, or else what the parser answers now, or
\* nothing when it takes a model and none is available.  "inserts" is store_parse.
Resolutions(label) ==
  IF parses[label] # None
  THEN {[parse |-> parses[label], inserts |-> FALSE]}
  ELSE {[parse |-> parser[label], inserts |-> TRUE]}
         \cup (IF label \in ModelRead THEN {NoResolution} ELSE {})

---------------------------------------------------------------------------
(* The environment: deploys                                                *)

\* A parser update is deployed between runs; a run keeps the image it started with.
Deploy ==
  /\ deploys < MaxDeploys
  /\ \A w \in Workers : pc[w] = "idle"
  /\ ~reparse.on
  /\ \E l \in Labels, r \in Readings :
       parser[l] # r /\ parser' = [parser EXCEPT ![l] = r]
  /\ deploys' = deploys + 1
  /\ UNCHANGED <<dbVars, jobVars, clock, reparse, commits>>

---------------------------------------------------------------------------
(* Refresh and basket jobs                                                 *)

\* run_refresh / run_build_basket: "now" is fixed for the whole run.  A refresh
\* only asks for products already in the table.
StartRun(w) ==
  /\ pc[w] = "idle"
  /\ clock < MaxRuns
  /\ w \in Refreshers => seen > 0
  /\ Overlap \/ \A v \in Workers : pc[v] = "idle"
  /\ ReparseAlone => ~reparse.on
  /\ clock' = clock + 1
  /\ now' = [now EXCEPT ![w] = clock + 1]
  /\ pc' = [pc EXCEPT ![w] = "search"]
  /\ UNCHANGED <<dbVars, envVars, fetched, txn, reparse, commits>>

\* The batch or search page that holds the product arrives: the catalog may
\* have changed in any way since the last one.
Fetch(w) ==
  /\ pc[w] = "search"
  /\ commits < MaxCommits
  /\ \E r \in Reading : fetched' = [fetched EXCEPT ![w] = r]
  /\ pc' = [pc EXCEPT ![w] = "fetched"]
  /\ UNCHANGED <<dbVars, envVars, now, txn, clock, reparse, commits>>

\* The process is gone, and its locals and open transaction with it.
EndOfRun(w) ==
  /\ pc' = [pc EXCEPT ![w] = "idle"]
  /\ now' = [now EXCEPT ![w] = 0]
  /\ fetched' = [fetched EXCEPT ![w] = None]
  /\ txn' = [txn EXCEPT ![w] = NoTransaction]

\* The run ends: nothing more to read, the batch failed, or the product is
\* not listed any more.
FinishRun(w) ==
  /\ pc[w] = "search"
  /\ EndOfRun(w)
  /\ UNCHANGED <<dbVars, envVars, clock, reparse, commits>>

\* Mutant of UpdatesProduct: the touch may be flushed after the SELECT.
TouchesLate(w) == BOOLEAN

\* Does the transaction update the product's row?  Not when a basket meets the
\* product again in the same run (same now) under a term already recorded.
UpdatesProduct(w) == IF seen = now[w] THEN BOOLEAN ELSE {TRUE}

\* Mutant of RowFree: nothing waits for the row.
NeverWaits == TRUE

\* The UPDATE waits for a transaction that holds the row.
RowFree == \A v \in Workers : ~(InTransaction(v) /\ txn[v].locked)

\* The parse of the latest snapshot, resolved if it has none.
LatestResolutions ==
  IF LatestSnapshot = 0 THEN {NoResolution}
  ELSE Resolutions(snaps[LatestSnapshot].label)

\* observe_product up to the comparison: touch the product, read the latest
\* snapshot and resolve its parse if it has none.
Begin(w) ==
  /\ pc[w] = "fetched"
  /\ \E lock \in UpdatesProduct(w), r \in LatestResolutions :
       /\ lock => RowFree
       /\ txn' = [txn EXCEPT ![w] =
            [latest |-> LatestSnapshot, locked |-> lock,
             observations |-> IF LatestSnapshot = 0 THEN 0
                              ELSE snaps[LatestSnapshot].observations,
             before |-> r.parse, beforeNew |-> r.inserts,
             after |-> None, afterNew |-> FALSE]]
  /\ pc' = [pc EXCEPT ![w] = "read"]
  /\ UNCHANGED <<dbVars, envVars, now, fetched, clock, reparse, commits>>

\* Under an unchanged label the session returns the very row it already holds.
Held(w) ==
  /\ txn[w].latest # 0
  /\ snaps[txn[w].latest].label = fetched[w].label
  /\ txn[w].before # None

\* The state differs: resolve the new state's parse.
Resolve(w) ==
  /\ pc[w] = "read" /\ ~SameState(w)
  /\ \E r \in IF Held(w) THEN {[parse |-> txn[w].before, inserts |-> FALSE]}
              ELSE Resolutions(fetched[w].label) :
       txn' = [txn EXCEPT ![w].after = r.parse, ![w].afterNew = r.inserts]
  /\ pc' = [pc EXCEPT ![w] = "resolved"]
  /\ UNCHANGED <<dbVars, envVars, now, fetched, clock, reparse, commits>>

---------------------------------------------------------------------------
(* Ends of the transaction                                                 *)

\* session.commit() and what the run does next: a refresh is done with the
\* product, a basket goes on to the next term.
Leave(w) ==
  IF w \in Refreshers THEN EndOfRun(w)
  ELSE /\ pc' = [pc EXCEPT ![w] = "search"]
       /\ txn' = [txn EXCEPT ![w] = NoTransaction]
       /\ fetched' = [fetched EXCEPT ![w] = None]
       /\ UNCHANGED now

TouchProduct(w) == seen' = IF txn[w].locked THEN now[w] ELSE seen

\* The parses the transaction inserts; the unique index refuses a label that
\* got its row meanwhile.
InsertsAllowed(w) ==
  /\ txn[w].beforeNew => parses[snaps[txn[w].latest].label] = None
  /\ txn[w].afterNew  => parses[fetched[w].label] = None

BeforeInserted(w) ==
  IF txn[w].beforeNew
  THEN [parses EXCEPT ![snaps[txn[w].latest].label] = txn[w].before]
  ELSE parses
BothInserted(w) ==
  IF txn[w].afterNew
  THEN [BeforeInserted(w) EXCEPT ![fetched[w].label] = txn[w].after]
  ELSE BeforeInserted(w)

\* Mutant of ParseFilled: the parse found late is not linked to the snapshot.
ParseNotLinked(w) == snaps

\* The latest snapshot with its parse filled in, if it had none and one was found.
ParseFilled(w) ==
  IF txn[w].latest = 0 THEN snaps
  ELSE [snaps EXCEPT ![txn[w].latest].parsed = @ \/ txn[w].before # None]

\* Mutant of Extended: observations is not counted up.
ExtendedUncounted(w) == [snaps EXCEPT ![txn[w].latest].last = now[w]]

\* The catalog still shows the latest state: extend its snapshot.
Extended(w) ==
  [snaps EXCEPT ![txn[w].latest].last = now[w],
                ![txn[w].latest].observations = txn[w].observations + 1]

CommitSameState(w) ==
  /\ pc[w] = "read" /\ SameState(w) /\ InsertsAllowed(w)
  /\ TouchProduct(w)
  /\ parses' = BeforeInserted(w)
  /\ snaps' = [Extended(w) EXCEPT
                 ![txn[w].latest].parsed = @ \/ txn[w].before # None]
  /\ commits' = commits + 1
  /\ Leave(w)
  /\ UNCHANGED <<changes, envVars, clock, reparse>>

NewSnapshot(w) ==
  [label |-> fetched[w].label, price |-> fetched[w].price,
   first |-> now[w], last |-> now[w], observations |-> 1,
   parsed |-> txn[w].after # None]

Draft(w) ==
  LET b == snaps[txn[w].latest]
  IN  Classify(SnapshotView(b.label, b.price, txn[w].before),
               SnapshotView(fetched[w].label, fetched[w].price, txn[w].after))

Quantity(parse) == IF parse = None THEN None ELSE parse.quantity

ChangeRow(w) ==
  [before |-> txn[w].latest, after |-> Len(snaps) + 1,
   kind |-> Draft(w).kind, status |-> Draft(w).status,
   sized |-> Draft(w).sizePct # None,
   beforeQuantity |-> Quantity(txn[w].before),
   afterQuantity |-> Quantity(txn[w].after)]

\* Mutant of NewChanges: no early return when there is no draft.
ChangesWithoutDraft(w) == IF txn[w].latest = 0 THEN {} ELSE {ChangeRow(w)}

\* The Change row of the draft, if the latest snapshot exists and there is one.
NewChanges(w) ==
  IF txn[w].latest = 0 \/ Draft(w) = NoDraft THEN {} ELSE {ChangeRow(w)}

CommitNewState(w) ==
  /\ pc[w] = "resolved" /\ InsertsAllowed(w)
  /\ TouchProduct(w)
  /\ parses' = BothInserted(w)
  /\ snaps' = Append(ParseFilled(w), NewSnapshot(w))
  /\ changes' = changes \cup NewChanges(w)
  /\ commits' = commits + 1
  /\ Leave(w)
  /\ UNCHANGED <<envVars, clock, reparse>>

\* A refresh rolls the whole observation back when anything in it raises.
FailRefresh(w) ==
  /\ w \in Refreshers /\ InTransaction(w)
  /\ Leave(w)
  /\ UNCHANGED <<dbVars, envVars, clock, reparse, commits>>

\* The basket catches the exception inside the session, so what the ORM objects
\* held when the model call raised is committed.  A model is called only for a
\* state without a parse: the latest one's (nothing else written in a new state,
\* the extension written in an unchanged one) or the new one's.
LatestUnparsed(w) ==
  /\ txn[w].latest # 0 /\ txn[w].before = None
  /\ ~snaps[txn[w].latest].parsed
  /\ snaps[txn[w].latest].label \in ModelRead

FailBasketSameState(w) ==
  /\ w \in Baskets /\ pc[w] = "read" /\ SameState(w)
  /\ LatestUnparsed(w)
  /\ TouchProduct(w)
  /\ snaps' = Extended(w)
  /\ commits' = commits + 1
  /\ Leave(w)
  /\ UNCHANGED <<parses, changes, envVars, clock, reparse>>

FailBasketNewState(w) ==
  /\ w \in Baskets /\ pc[w] = "read" /\ ~SameState(w) /\ InsertsAllowed(w)
  /\ \/ LatestUnparsed(w)
     \/ ~Held(w) /\ parses[fetched[w].label] = None /\ fetched[w].label \in ModelRead
  /\ TouchProduct(w)
  /\ parses' = BeforeInserted(w)
  /\ snaps' = ParseFilled(w)
  /\ Leave(w)
  /\ UNCHANGED <<changes, envVars, clock, reparse, commits>>

\* The process is killed (replica timeout) or a database error aborts the run.
Kill(w) ==
  /\ pc[w] # "idle"
  /\ EndOfRun(w)
  /\ UNCHANGED <<dbVars, envVars, clock, reparse, commits>>

Job(w) ==
  \/ StartRun(w) \/ Fetch(w) \/ FinishRun(w) \/ Begin(w) \/ Resolve(w)
  \/ CommitSameState(w) \/ CommitNewState(w)
  \/ FailRefresh(w) \/ FailBasketSameState(w) \/ FailBasketNewState(w)
  \/ Kill(w)

---------------------------------------------------------------------------
(* The reparse command                                                     *)

\* needs_reparse of an unknown reading, or of a label the rules now read differently.
NeedsReparse(l) ==
  \/ parses[l].quantity = None
  \/ l \notin ModelRead /\ parses[l].quantity # parser[l].quantity

\* The selection, before any row is read again.  "weak" are the labels whose row
\* another model than the strong one has read.
ReparseStart ==
  /\ ~reparse.on
  /\ ReparseAlone => \A w \in Workers : pc[w] = "idle"
  /\ \E everything \in BOOLEAN, weak \in SUBSET ModelRead :
       LET todo == {l \in Labels : /\ parses[l] # None
                                  /\ (everything \/ l \in weak \/ NeedsReparse(l))}
       IN  /\ todo # {}   \* with nothing selected the command changes nothing
           /\ reparse' = [on |-> TRUE, todo |-> todo, revised |-> {}]
  /\ UNCHANGED <<dbVars, jobVars, envVars, clock, commits>>

\* One selected row, read, parsed and committed in a transaction of its own.
ReparseRow(l) ==
  /\ reparse.on /\ l \in reparse.todo
  /\ \/ /\ parses' = [parses EXCEPT ![l] = parser[l]]
        /\ reparse' = [reparse EXCEPT
             !.todo = @ \ {l},
             !.revised = IF parser[l] = parses[l] THEN @ ELSE @ \cup {l}]
     \/ /\ l \in ModelRead                                \* no model available
        /\ reparse' = [reparse EXCEPT !.todo = @ \ {l}]
        /\ UNCHANGED parses
  /\ UNCHANGED <<seen, snaps, changes, jobVars, envVars, clock, commits>>

\* Mutant of Affected: only the newer of the two snapshots is looked at.
AffectedAfter(c) ==
  /\ c.status = "published"
  /\ snaps[c.after].parsed /\ snaps[c.after].label \in reparse.revised

\* _demote_affected_changes
Affected(c) ==
  /\ c.status = "published"
  /\ \E i \in {c.before, c.after} :
       snaps[i].parsed /\ snaps[i].label \in reparse.revised

Demoted(c) ==
  IF Affected(c) THEN [c EXCEPT !.status = "needs_review"] ELSE c

ReparseDemote ==
  /\ reparse.on /\ reparse.todo = {}
  /\ changes' = {Demoted(c) : c \in changes}
  /\ reparse' = [on |-> FALSE, todo |-> {}, revised |-> {}]
  /\ UNCHANGED <<seen, parses, snaps, jobVars, envVars, clock, commits>>

\* A model error other than budget or invalid output, or a kill, ends the command
\* with its in-memory list of revised rows.
ReparseFail ==
  /\ ReparseFails /\ reparse.on
  /\ reparse' = [on |-> FALSE, todo |-> {}, revised |-> {}]
  /\ UNCHANGED <<dbVars, jobVars, envVars, clock, commits>>

Reparse == ReparseStart \/ (\E l \in Labels : ReparseRow(l)) \/ ReparseDemote \/ ReparseFail

---------------------------------------------------------------------------
Init ==
  /\ parser \in [Labels -> Readings]
  \* Without a basket in the model, the product starts as a basket leaves it when
  \* the first observation fails: tracked, with no snapshot.
  /\ seen = IF Baskets = {} THEN 1 ELSE 0
  /\ parses = [l \in Labels |-> None]
  /\ snaps = <<>>
  /\ changes = {}
  /\ clock = seen
  /\ pc = [w \in Workers |-> "idle"]
  /\ now = [w \in Workers |-> 0]
  /\ fetched = [w \in Workers |-> None]
  /\ txn = [w \in Workers |-> NoTransaction]
  /\ reparse = [on |-> FALSE, todo |-> {}, revised |-> {}]
  /\ deploys = 0 /\ commits = 0

Next == Deploy \/ (\E w \in Workers : Job(w)) \/ Reparse

Spec == Init /\ [][Next]_vars

---------------------------------------------------------------------------
(* Properties                                                              *)

\* Every row and every job is of its type.
TypeOK ==
  /\ parser \in [Labels -> Readings]
  /\ seen \in Nat
  /\ parses \in [Labels -> Parse]
  /\ snaps \in Seq(Snapshot)
  /\ changes \subseteq Change
  /\ clock \in Nat
  /\ pc \in [Workers -> Steps]
  /\ now \in [Workers -> Nat]
  /\ fetched \in [Workers -> Reading \cup {None}]
  /\ txn \in [Workers -> Transaction]
  /\ reparse \in [on : BOOLEAN, todo : SUBSET Labels, revised : SUBSET Labels]
  /\ deploys \in Nat /\ commits \in Nat

(***************************************************************************)
(* What an observation read of the latest snapshot is still what the table *)
(* holds when it commits: the same row is the latest one and its counter   *)
(* is the one that was read, so no observation is lost and no change is    *)
(* classified against a snapshot that another run has superseded.  The     *)
(* code never locks the row explicitly; it holds because the autoflushed   *)
(* UPDATE of last_seen_at precedes the SELECT in observe_product.          *)
(***************************************************************************)
LatestStable ==
  \A w \in Workers : InTransaction(w) =>
    /\ txn[w].latest = LatestSnapshot
    /\ txn[w].latest # 0 => txn[w].observations = snaps[txn[w].latest].observations

\* The observations counters together count every committed observation
\* (latest.observations += 1 in observe_product loses no update).
NoLostObservation ==
  LET total[i \in 0..Len(snaps)] ==
        IF i = 0 THEN 0 ELSE total[i - 1] + snaps[i].observations
  IN  total[Len(snaps)] = commits

(***************************************************************************)
(* db/models.py:113: a change is "A detected transition between two        *)
(* consecutive snapshots of one product."  It also means that no snapshot  *)
(* is the start, or the end, of two changes.                               *)
(***************************************************************************)
ConsecutiveChanges == \A c \in changes : c.after = c.before + 1

(***************************************************************************)
(* One snapshot per state change (db/models.py:57): two neighbours differ  *)
(* in label or price, and their intervals of observation do not overlap.   *)
(***************************************************************************)
SnapshotsTellTheTimeline ==
  \A i \in 1..(Len(snaps) - 1) :
    /\ snaps[i].label # snaps[i + 1].label \/ snaps[i].price # snaps[i + 1].price
    /\ snaps[i].first <= snaps[i].last /\ snaps[i].last <= snaps[i + 1].first

(***************************************************************************)
(* No move is missed: wherever two neighbouring snapshots differ in their  *)
(* size text or by more than noise in price, the change between them is on *)
(* record, whatever failed, was rolled back or was killed on the way.      *)
(***************************************************************************)
EveryMoveRecorded ==
  \A i \in 1..(Len(snaps) - 1) :
    (\/ snaps[i].label.text # snaps[i + 1].label.text
     \/ PriceMoved(snaps[i], snaps[i + 1]))
    => \E c \in changes : c.before = i /\ c.after = i + 1

(***************************************************************************)
(* What the feed publishes agrees with the parses its evidence links to:   *)
(* the stored quantities of a published change are those of the SizeParse  *)
(* rows of its two snapshots, except while a reparse that revised one of   *)
(* them has still to demote it.  maintenance.py:32: "A revised parse can   *)
(* contradict the stored percentages and kind, so those rows stop being    *)
(* publicly served".                                                       *)
(***************************************************************************)
SideAgrees(i, quantity) ==
  \/ snaps[i].label \in reparse.revised
  \/ snaps[i].parsed /\ Quantity(parses[snaps[i].label]) = quantity

EvidenceAgrees ==
  \A c \in changes :
    c.status = "published" /\ c.sized =>
      SideAgrees(c.before, c.beforeQuantity) /\ SideAgrees(c.after, c.afterQuantity)
=============================================================================
