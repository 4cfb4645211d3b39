----------------------------- MODULE RefreshRun -----------------------------
(***************************************************************************)
(* The daily refresh over all tracked products (pipeline/refresh.py) with  *)
(* the run bookkeeping of pipeline/runs.py and the basket build that adds  *)
(* products and revives inactive ones (pipeline/basket.py): batches that   *)
(* fail, observations that fail, runs that are killed or raise, the retry  *)
(* of the scheduled job, and the deactivation of products not seen for     *)
(* INACTIVE_AFTER.                                                         *)
(*                                                                         *)
(* One job runs at a time and within one day (infra/main.bicep: cron once  *)
(* a day, parallelism 1, replicaTimeout 3600 s, replicaRetryLimit 1).      *)
(* What an observation writes of a product's history is SnapshotStore's    *)
(* subject; here it only moves last_seen_at.                               *)
(***************************************************************************)
EXTENDS Integers, FiniteSets

CONSTANTS
  Products,
  BatchSize,       \* BATCH_SIZE
  InactiveAfter,   \* INACTIVE_AFTER, in days
  Attempts         \* times the scheduled job starts a day: 1 + replicaRetryLimit

ASSUME RefreshRunAssumption ==
  /\ IsFiniteSet(Products)
  /\ BatchSize \in Nat \ {0} /\ InactiveAfter \in Nat \ {0} /\ Attempts \in Nat \ {0}

VARIABLES
  listed,    \* products the store's catalog lists now
  healthy,   \* do Kroger, the model provider and the platform work without errors?
  tracked,   \* products in the table
  active,    \* ... with Product.active
  age,       \* whole days since Product.last_seen_at, capped beyond InactiveAfter
  lastRun,   \* status of the newest refresh row that is not "running"
  started,   \* scheduled starts of the refresh today
  job,       \* the running job
  dropped,   \* history: products missing from an answer since they were last seen,
  failed     \* ... and those whose batch or observation failed since then

dbVars == <<tracked, active, age, lastRun>>
history == <<dropped, failed>>
vars == <<listed, healthy, dbVars, started, job, history>>

\* What last_run reports: no finished refresh yet, or its status.
RunStatuses == {"none", "ok", "partial"}

NoJob == [kind |-> "none", requested |-> {}, todo |-> {}, batch |-> {}, errors |-> FALSE]
Jobs  == [kind : {"none", "refresh", "basket"}, requested : SUBSET Products,
          todo : SUBSET Products, batch : SUBSET Products, errors : BOOLEAN]

Running(kind) == job.kind = kind
Stale == InactiveAfter + 1   \* the cap of age: any number of days beyond INACTIVE_AFTER

---------------------------------------------------------------------------
(* The environment                                                         *)

CatalogChange(p) ==
  /\ listed' = IF p \in listed THEN listed \ {p} ELSE listed \cup {p}
  /\ UNCHANGED <<healthy, dbVars, started, job, history>>

HealthChange ==
  /\ healthy' = ~healthy
  /\ UNCHANGED <<listed, dbVars, started, job, history>>

\* Midnight between two jobs.  The schedule does not skip a day.
NextDay ==
  /\ Running("none") /\ started > 0
  /\ age' = [p \in Products |-> IF age[p] < Stale THEN age[p] + 1 ELSE Stale]
  /\ started' = 0
  /\ UNCHANGED <<listed, healthy, tracked, active, lastRun, job, history>>

---------------------------------------------------------------------------
(* The refresh                                                             *)

\* Mutants of StartRefresh: deactivating before anything is read, and asking only
\* for what was seen yesterday.
StartByDeactivating ==
  /\ Running("none") /\ started < Attempts
  /\ active' = {p \in active : age[p] <= InactiveAfter}
  /\ job' = [kind |-> "refresh", requested |-> active', todo |-> active',
             batch |-> {}, errors |-> FALSE]
  /\ started' = started + 1
  /\ UNCHANGED <<listed, healthy, tracked, age, lastRun, history>>
StartWithRecentOnly ==
  /\ Running("none") /\ started < Attempts
  /\ LET recent == {p \in active : age[p] <= 1}
     IN  job' = [kind |-> "refresh", requested |-> recent, todo |-> recent,
                 batch |-> {}, errors |-> FALSE]
  /\ started' = started + 1
  /\ UNCHANGED <<listed, healthy, dbVars, history>>

\* start_run and the selection of the active products, in one transaction.  The
\* platform starts the job once, and again after an attempt that did not finish.
StartRefresh ==
  /\ Running("none") /\ started < Attempts
  /\ job' = [kind |-> "refresh", requested |-> active, todo |-> active,
             batch |-> {}, errors |-> FALSE]
  /\ started' = started + 1
  /\ UNCHANGED <<listed, healthy, dbVars, history>>

IsBatch(b) ==
  /\ b \subseteq job.todo
  /\ Cardinality(b) = IF Cardinality(job.todo) < BatchSize
                      THEN Cardinality(job.todo) ELSE BatchSize

ReadyForBatch == Running("refresh") /\ job.batch = {} /\ job.todo # {}

\* Mutant of BatchAnswered: every product asked for counts as seen.
BatchTouched(b) ==
  /\ ReadyForBatch /\ IsBatch(b)
  /\ job' = [job EXCEPT !.todo = @ \ b, !.batch = b \cap listed]
  /\ age' = [p \in Products |-> IF p \in b THEN 0 ELSE age[p]]
  /\ dropped' = dropped \cup (b \ listed)
  /\ UNCHANGED <<listed, healthy, tracked, active, lastRun, started, failed>>

\* products_by_ids answers: the listed products of the batch have a reading, the
\* others are passed over.
BatchAnswered(b) ==
  /\ ReadyForBatch /\ IsBatch(b)
  /\ job' = [job EXCEPT !.todo = @ \ b, !.batch = b \cap listed]
  /\ dropped' = dropped \cup (b \ listed)
  /\ UNCHANGED <<listed, healthy, dbVars, started, failed>>

\* Mutant of BatchFailed: the failed batch is not counted.
BatchFailedUncounted(b) ==
  /\ ~healthy
  /\ ReadyForBatch /\ IsBatch(b)
  /\ job' = [job EXCEPT !.todo = @ \ b]
  /\ failed' = failed \cup b
  /\ UNCHANGED <<listed, healthy, dbVars, started, dropped>>

\* products_by_ids raises KrogerError: counted, and the run goes on.
BatchFailed(b) ==
  /\ ~healthy
  /\ ReadyForBatch /\ IsBatch(b)
  /\ job' = [job EXCEPT !.todo = @ \ b, !.errors = TRUE]
  /\ failed' = failed \cup b
  /\ UNCHANGED <<listed, healthy, dbVars, started, dropped>>

\* products_by_ids raises httpx.HTTPError after its last attempt: nothing in
\* _refresh catches it, so the process ends and its row stays "running".
BatchRaised ==
  /\ ~healthy
  /\ ReadyForBatch
  /\ job' = NoJob
  /\ UNCHANGED <<listed, healthy, dbVars, started, history>>

\* Mutant of Observed: a product met for the first time is not kept.
ObservedUntracked(p) ==
  /\ job.kind # "none" /\ p \in job.batch
  /\ active' = active \cup {p}
  /\ age' = [age EXCEPT ![p] = 0]
  /\ job' = [job EXCEPT !.batch = @ \ {p}]
  /\ dropped' = dropped \ {p} /\ failed' = failed \ {p}
  /\ UNCHANGED <<listed, healthy, tracked, lastRun, started>>

\* observe_product committed.
Observed(p) ==
  /\ job.kind # "none" /\ p \in job.batch
  /\ tracked' = tracked \cup {p}
  /\ active' = active \cup {p}
  /\ age' = [age EXCEPT ![p] = 0]
  /\ job' = [job EXCEPT !.batch = @ \ {p}]
  /\ dropped' = dropped \ {p} /\ failed' = failed \ {p}
  /\ UNCHANGED <<listed, healthy, lastRun, started>>

\* observe_product raised in a refresh: rolled back and counted.
ObserveFailed(p) ==
  /\ ~healthy
  /\ Running("refresh") /\ p \in job.batch
  /\ job' = [job EXCEPT !.batch = @ \ {p}, !.errors = TRUE]
  /\ failed' = failed \cup {p}
  /\ UNCHANGED <<listed, healthy, dbVars, started, dropped>>

\* last_seen_at < now - INACTIVE_AFTER.  Exactly InactiveAfter days on, it is the
\* seconds by which the two runs started late that decide.
Overdue == {p \in active : age[p] > InactiveAfter}
DueToday == {p \in active : age[p] = InactiveAfter}

\* The last transaction: deactivate what was not seen for INACTIVE_AFTER, and
\* finish_run.
FinishRefresh ==
  /\ Running("refresh") /\ job.todo = {} /\ job.batch = {}
  /\ \E late \in SUBSET DueToday : active' = active \ (Overdue \cup late)
  /\ lastRun' = IF job.errors THEN "partial" ELSE "ok"
  /\ started' = Attempts   \* the job succeeded: no retry today
  /\ job' = NoJob
  /\ UNCHANGED <<listed, healthy, tracked, age, history>>

---------------------------------------------------------------------------
(* The basket build, started by hand                                       *)

StartBasket ==
  /\ Running("none")
  /\ job' = [NoJob EXCEPT !.kind = "basket", !.todo = Products]
  /\ UNCHANGED <<listed, healthy, dbVars, started, history>>

\* One search page: some of the listed, eligible products.  A page that fails is
\* passed over; a product met again under a later term is only touched again.
SearchPage(b) ==
  /\ Running("basket") /\ job.batch = {}
  /\ b # {} /\ b \subseteq job.todo \cap listed
  /\ job' = [job EXCEPT !.todo = @ \ b, !.batch = b]
  /\ UNCHANGED <<listed, healthy, dbVars, started, history>>

\* observe_product raised in a basket: the exception is caught inside the session,
\* so the touched product is committed without a snapshot.
BasketObserveFailed(p) ==
  /\ ~healthy
  /\ Running("basket") /\ p \in job.batch
  /\ tracked' = tracked \cup {p}
  /\ active' = active \cup {p}
  /\ age' = [age EXCEPT ![p] = 0]
  /\ job' = [job EXCEPT !.batch = @ \ {p}]
  /\ dropped' = dropped \ {p} /\ failed' = failed \ {p}
  /\ UNCHANGED <<listed, healthy, lastRun, started>>

\* No more terms.  last_run of the refresh is not touched.
FinishBasket ==
  /\ Running("basket") /\ job.batch = {}
  /\ job' = NoJob
  /\ UNCHANGED <<listed, healthy, dbVars, started, history>>

\* The replica is stopped: its run stays "running" in the table.
Kill ==
  /\ ~healthy /\ ~Running("none")
  /\ job' = NoJob
  /\ UNCHANGED <<listed, healthy, dbVars, started, history>>

---------------------------------------------------------------------------
Init ==
  /\ listed \in SUBSET Products
  /\ healthy = TRUE
  /\ tracked = {} /\ active = {}
  /\ age = [p \in Products |-> 0]
  /\ lastRun = "none"
  /\ started = 0
  /\ job = NoJob
  /\ dropped = {} /\ failed = {}

RefreshStep ==
  \/ \E b \in SUBSET Products : BatchAnswered(b) \/ BatchFailed(b)
  \/ BatchRaised
  \/ \E p \in Products : Observed(p) \/ ObserveFailed(p)
  \/ FinishRefresh

BasketStep ==
  \/ \E b \in SUBSET Products : SearchPage(b)
  \/ \E p \in Products : BasketObserveFailed(p)
  \/ FinishBasket

Next ==
  \/ \E p \in Products : CatalogChange(p)
  \/ HealthChange \/ NextDay \/ StartRefresh \/ StartBasket
  \/ RefreshStep \/ BasketStep \/ Kill

Spec == Init /\ [][Next]_vars

(***************************************************************************)
(* Days pass, the scheduler starts the job it is due to start whatever     *)
(* else has been running, and a running job takes its steps (its requests  *)
(* and model calls time out).  Nothing is assumed of the catalog, of the   *)
(* services around the job, or of the basket, which an operator starts.    *)
(***************************************************************************)
Fairness ==
  /\ SF_vars(NextDay)
  /\ SF_vars(StartRefresh /\ started = 0)
  /\ WF_vars(RefreshStep)
  /\ WF_vars(BasketStep)

FairSpec == Spec /\ Fairness

---------------------------------------------------------------------------
(* Properties                                                              *)

\* The tables and the job are of their types; what is active is tracked.
TypeOK ==
  /\ listed \subseteq Products
  /\ healthy \in BOOLEAN
  /\ tracked \subseteq Products /\ active \subseteq tracked
  /\ age \in [Products -> 0..Stale]
  /\ lastRun \in RunStatuses
  /\ started \in 0..Attempts
  /\ job \in Jobs
  /\ dropped \subseteq Products /\ failed \subseteq Products

(***************************************************************************)
(* A product is deactivated only for a reason of its own: since it was     *)
(* last seen the catalog answered without it, or its own batch or          *)
(* observation failed.  Runs that raise, are killed or are retried before  *)
(* they read it never cost a product its place in the refresh.             *)
(***************************************************************************)
InactiveMeansMissed == tracked \ active \subseteq dropped \cup failed

(***************************************************************************)
(* A product the site calls "dropped from the listing" (ProductDrawer.tsx: *)
(* 230, shown when Product.active is false) was asked for since it was     *)
(* last seen, and the catalog answered without it.                         *)
(***************************************************************************)
InactiveMeansDropped == tracked \ active \subseteq dropped

(***************************************************************************)
(* A run that ends "ok" has a word on every product it asked for: each was *)
(* observed today or was missing from an answer of the catalog.  What the  *)
(* page says of the last check rests on this (freshnessFor, story.ts:368). *)
(***************************************************************************)
OkMeansEveryProductRead ==
  [][FinishRefresh /\ lastRun' = "ok"
     => \A p \in job.requested : age[p] = 0 \/ p \in dropped]_vars

(***************************************************************************)
(* Once Kroger answers for good, a product that stays on the shelf and has *)
(* not been given up is read again and again, and stays active: no failure *)
(* of the past, and no product around it, makes the refresh lose it.       *)
(* (After longer trouble only a basket build, an operator's command,       *)
(* brings a product back that a refresh deactivated.)                      *)
(***************************************************************************)
ListedStaysSeen ==
  \A p \in Products :
    [](/\ [](healthy /\ p \in listed)
       /\ Running("none") /\ p \in active /\ age[p] < InactiveAfter
       => [](p \in active) /\ []<>(age[p] = 0))

\* A product that leaves the shelf for good is dropped by the site in the end.
DroppedIsDeactivated ==
  \A p \in Products : <>[](healthy /\ p \notin listed) => <>[](p \notin active)
=============================================================================
