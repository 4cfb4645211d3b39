------------------------- MODULE RefreshRunProofs --------------------------
(***************************************************************************)
(* Proofs about RefreshRun, for every set of products, batch size, number  *)
(* of days before a product is given up and number of attempts a day: the  *)
(* types of its tables, that only a product that was missed is             *)
(* deactivated and only in time, that a run that ends "ok" read every      *)
(* product, and that a product on the shelf is not lost in good health.    *)
(***************************************************************************)
EXTENDS RefreshRun, TLAPS

\* What a running refresh knows of the products it asked for.
RunInv ==
  /\ TypeOK
  /\ Running("none") => job = NoJob
  /\ Running("refresh") =>
       /\ job.batch \subseteq job.requested /\ job.todo \subseteq job.requested
       /\ \A p \in active : p \in job.requested \/ age[p] = 0
       /\ \A p \in job.requested \ (job.todo \cup job.batch) :
            age[p] = 0 \/ p \in dropped \/ (job.errors /\ p \in failed)
  /\ InactiveMeansMissed

LEMMA RunInit == Init => RunInv
  BY RefreshRunAssumption
  DEF Init, RunInv, TypeOK, InactiveMeansMissed, Running, NoJob, Jobs, RunStatuses, Stale

\* The products' catalog and the services' health are read by nothing in the invariant.
LEMMA EnvironmentStep ==
  ASSUME RunInv, (\E p \in Products : CatalogChange(p)) \/ HealthChange \/ UNCHANGED vars
  PROVE  RunInv'
<1>1. UNCHANGED <<dbVars, started, job, history>> /\ listed' \subseteq Products
      /\ healthy' \in BOOLEAN
  BY DEF CatalogChange, HealthChange, vars, RunInv, TypeOK
<1>2. QED BY <1>1 DEF RunInv, TypeOK, Running, InactiveMeansMissed, dbVars, history

LEMMA NextDayStep ==
  ASSUME RunInv, NextDay
  PROVE  RunInv'
<1>1. age' \in [Products -> 0..Stale]
  BY RefreshRunAssumption DEF NextDay, RunInv, TypeOK, Stale
<1>2. started' \in 0..Attempts
  BY RefreshRunAssumption DEF NextDay
<1>3. TypeOK'
  BY <1>1, <1>2 DEF NextDay, RunInv, TypeOK, history
<1>4. QED BY <1>3 DEF NextDay, RunInv, Running, InactiveMeansMissed, history

\* A job that starts, and one that stops without finishing.
LEMMA JobStep ==
  ASSUME RunInv, UNCHANGED <<listed, healthy, dbVars, history>>, started' \in 0..Attempts,
         job' \in Jobs,
         Running("none")' => job' = NoJob,
         Running("refresh")' =>
           job'.requested = active /\ job'.todo = active /\ job'.batch = {}
  PROVE  RunInv'
  BY DEF RunInv, TypeOK, InactiveMeansMissed, dbVars, history

LEMMA StartAndStop ==
  ASSUME RunInv,
         StartRefresh \/ StartBasket \/ BatchRaised \/ FinishBasket \/ Kill
  PROVE  RunInv'
<1> USE DEF RunInv, TypeOK
<1>1. started \in 0..Attempts /\ Attempts \in Nat
  BY RefreshRunAssumption
<1>2. NoJob \in Jobs /\ NoJob.kind = "none"
  BY DEF NoJob, Jobs
<1>3. CASE StartRefresh
  <2>1. job'.kind = "refresh" /\ job' \in Jobs /\ started' \in 0..Attempts
        /\ job'.requested = active /\ job'.todo = active /\ job'.batch = {}
    BY <1>1, <1>3 DEF StartRefresh, Jobs
  <2>2. QED BY <1>3, <2>1, JobStep DEF StartRefresh, Running
<1>4. CASE StartBasket
  <2>1. job'.kind = "basket" /\ job' \in Jobs
    BY <1>4 DEF StartBasket, NoJob, Jobs
  <2>2. QED BY <1>1, <1>4, <2>1, JobStep DEF StartBasket, Running
<1>5. CASE BatchRaised \/ FinishBasket \/ Kill
  <2>1. job' = NoJob /\ UNCHANGED <<listed, healthy, dbVars, started, history>>
    BY <1>5 DEF BatchRaised, FinishBasket, Kill
  <2>2. QED BY <1>1, <1>2, <2>1, JobStep DEF Running
<1>6. QED BY <1>3, <1>4, <1>5

LEMMA BatchStep ==
  ASSUME RunInv, NEW b \in SUBSET Products,
         BatchAnswered(b) \/ BatchFailed(b) \/ SearchPage(b)
  PROVE  RunInv'
<1> USE DEF RunInv
<1>1. CASE BatchAnswered(b)
  <2>1. /\ job.kind = "refresh" /\ b \subseteq job.todo /\ job.batch = {} /\ job \in Jobs
        /\ job' = [job EXCEPT !.todo = @ \ b, !.batch = b \cap listed]
        /\ dropped' = dropped \cup (b \ listed)
        /\ UNCHANGED <<listed, healthy, dbVars, started, failed>>
    BY <1>1 DEF BatchAnswered, ReadyForBatch, IsBatch, Running, TypeOK
  <2>2. /\ job' \in Jobs /\ job'.kind = "refresh" /\ job'.todo = job.todo \ b
        /\ job'.batch = b \cap listed
        /\ job'.requested = job.requested /\ job'.errors = job.errors
    BY <2>1 DEF Jobs
  <2>3. TypeOK'
    BY <2>1, <2>2 DEF TypeOK, dbVars
  <2>4. QED BY <2>1, <2>2, <2>3 DEF Running, InactiveMeansMissed, dbVars
<1>2. CASE BatchFailed(b)
  <2>1. /\ job.kind = "refresh" /\ b \subseteq job.todo /\ job.batch = {} /\ job \in Jobs
        /\ job' = [job EXCEPT !.todo = @ \ b, !.errors = TRUE]
        /\ failed' = failed \cup b
        /\ UNCHANGED <<listed, healthy, dbVars, started, dropped>>
    BY <1>2 DEF BatchFailed, ReadyForBatch, IsBatch, Running, TypeOK
  <2>2. /\ job' \in Jobs /\ job'.kind = "refresh" /\ job'.todo = job.todo \ b
        /\ job'.batch = {}
        /\ job'.requested = job.requested /\ job'.errors = TRUE
    BY <2>1 DEF Jobs
  <2>3. TypeOK'
    BY <2>1, <2>2 DEF TypeOK, dbVars
  <2>4. QED BY <2>1, <2>2, <2>3 DEF Running, InactiveMeansMissed, dbVars
<1>3. CASE SearchPage(b)
  <2>1. /\ job.kind = "basket" /\ b \subseteq Products /\ job \in Jobs
        /\ job' = [job EXCEPT !.todo = @ \ b, !.batch = b]
        /\ UNCHANGED <<listed, healthy, dbVars, started, history>>
    BY <1>3 DEF SearchPage, Running, TypeOK
  <2>2. job' \in Jobs /\ job'.kind = "basket"
    BY <2>1 DEF Jobs
  <2>3. TypeOK'
    BY <2>1, <2>2 DEF TypeOK, dbVars, history
  <2>4. QED BY <2>1, <2>2, <2>3 DEF Running, InactiveMeansMissed, dbVars, history
<1>4. QED BY <1>1, <1>2, <1>3

\* A product that was seen: by its observation, or by one that failed in a basket.
LEMMA SeenStep ==
  ASSUME RunInv, NEW p \in Products, p \in job.batch, job.kind # "none",
         tracked' = tracked \cup {p}, active' = active \cup {p},
         age' = [age EXCEPT ![p] = 0],
         job' = [job EXCEPT !.batch = @ \ {p}],
         dropped' = dropped \ {p}, failed' = failed \ {p},
         UNCHANGED <<listed, healthy, lastRun, started>>
  PROVE  RunInv'
<1> USE DEF RunInv
<1>1. job \in Jobs /\ age \in [Products -> 0..Stale] /\ Stale \in Nat
  BY RefreshRunAssumption DEF TypeOK, Stale
<1>2. /\ job' \in Jobs /\ job'.kind = job.kind /\ job'.batch = job.batch \ {p}
      /\ job'.todo = job.todo /\ job'.requested = job.requested /\ job'.errors = job.errors
  BY <1>1 DEF Jobs
<1>3. age' \in [Products -> 0..Stale] /\ age'[p] = 0 /\ \A q \in Products \ {p} : age'[q] = age[q]
  BY <1>1
<1>4. active \subseteq Products /\ job.requested \subseteq Products
  BY <1>1 DEF TypeOK, Jobs
<1>5. TypeOK'
  BY <1>2, <1>3 DEF TypeOK
<1>6. QED BY <1>2, <1>3, <1>4, <1>5 DEF Running, InactiveMeansMissed

LEMMA ObserveStep ==
  ASSUME RunInv, NEW p \in Products, Observed(p) \/ BasketObserveFailed(p)
  PROVE  RunInv'
  BY SeenStep DEF Observed, BasketObserveFailed, Running

LEMMA ObserveFailedStep ==
  ASSUME RunInv, NEW p \in Products, ObserveFailed(p)
  PROVE  RunInv'
<1> USE DEF RunInv
<1>1. /\ job.kind = "refresh" /\ job \in Jobs
      /\ job' = [job EXCEPT !.batch = @ \ {p}, !.errors = TRUE]
      /\ failed' = failed \cup {p}
      /\ UNCHANGED <<listed, healthy, dbVars, started, dropped>>
  BY DEF ObserveFailed, Running, TypeOK
<1>2. /\ job' \in Jobs /\ job'.kind = "refresh" /\ job'.batch = job.batch \ {p}
      /\ job'.todo = job.todo /\ job'.requested = job.requested /\ job'.errors = TRUE
  BY <1>1 DEF Jobs
<1>3. TypeOK'
  BY <1>1, <1>2 DEF TypeOK, dbVars
<1>4. QED BY <1>1, <1>2, <1>3 DEF Running, InactiveMeansMissed, dbVars

\* What a finished refresh deactivates, it had asked for and missed.
LEMMA FinishStep ==
  ASSUME RunInv, FinishRefresh
  PROVE  /\ RunInv'
         /\ lastRun' = "ok" => \A p \in job.requested : age[p] = 0 \/ p \in dropped
<1> USE DEF RunInv
<1>1. PICK late \in SUBSET DueToday : active' = active \ (Overdue \cup late)
  BY DEF FinishRefresh
<1>2. /\ job.kind = "refresh" /\ job.todo = {} /\ job.batch = {}
      /\ job' = NoJob /\ started' = Attempts
      /\ lastRun' = IF job.errors THEN "partial" ELSE "ok"
      /\ UNCHANGED <<listed, healthy, tracked, age, history>>
  BY DEF FinishRefresh, Running
<1>3. \A p \in job.requested : age[p] = 0 \/ p \in dropped \/ (job.errors /\ p \in failed)
  BY <1>2 DEF Running
<1>4. \A p \in active : age[p] \in Nat /\ InactiveAfter \in Nat \ {0}
  BY RefreshRunAssumption DEF TypeOK, Stale
<1>5. \A p \in active \ active' : age[p] # 0
  BY <1>1, <1>4 DEF Overdue, DueToday
<1>6. \A p \in active \ active' : p \in dropped \cup failed
  BY <1>2, <1>3, <1>5 DEF Running
<1>7. TypeOK'
  BY <1>1, <1>2, RefreshRunAssumption DEF TypeOK, NoJob, Jobs, RunStatuses, history
<1>8. job'.kind = "none"
  BY <1>2 DEF NoJob
<1>9. RunInv'
  BY <1>2, <1>6, <1>7, <1>8 DEF Running, InactiveMeansMissed, history
<1>10. QED BY <1>2, <1>3, <1>9

LEMMA RunNext == RunInv /\ [Next]_vars => RunInv'
<1> SUFFICES ASSUME RunInv, [Next]_vars PROVE RunInv'
  OBVIOUS
<1>1. CASE RefreshStep
  BY <1>1, BatchStep, StartAndStop, ObserveStep, ObserveFailedStep, FinishStep DEF RefreshStep
<1>2. CASE BasketStep
  BY <1>2, BatchStep, StartAndStop, ObserveStep DEF BasketStep
<1>3. CASE ~RefreshStep /\ ~BasketStep
  BY <1>3, EnvironmentStep, NextDayStep, StartAndStop DEF Next
<1>4. QED BY <1>1, <1>2, <1>3

---------------------------------------------------------------------------
LEMMA RunInvariant == Spec => []RunInv
  BY RunInit, RunNext, PTL DEF Spec

\* The rows and the job of pipeline/refresh.py and pipeline/basket.py keep their types.
THEOREM RunTypes == Spec => []TypeOK
<1>1. RunInv => TypeOK
  BY DEF RunInv
<1>2. QED BY RunInvariant, <1>1, PTL

(***************************************************************************)
(* pipeline/refresh.py:95-104 deactivates a product only when, since it was *)
(* last seen, the catalog answered without it or its own batch or          *)
(* observation failed, for every number of days it waits.                  *)
(***************************************************************************)
THEOREM OnlyMissedAreDeactivated == Spec => []InactiveMeansMissed
<1>1. RunInv => InactiveMeansMissed
  BY DEF RunInv
<1>2. QED BY RunInvariant, <1>1, PTL

(***************************************************************************)
(* pipeline/runs.py: a run that finishes with "ok" read every product it   *)
(* asked for today, or the catalog answered without it.                    *)
(***************************************************************************)
THEOREM OkReadsEveryProduct == Spec => OkMeansEveryProductRead
<1>1. RunInv /\ [Next]_vars =>
        [FinishRefresh /\ lastRun' = "ok"
           => \A p \in job.requested : age[p] = 0 \/ p \in dropped]_vars
  BY FinishStep
<1>2. QED BY RunInvariant, <1>1, PTL DEF Spec, OkMeansEveryProductRead

---------------------------------------------------------------------------
(* Time                                                                    *)

\* An inactive product has not been seen for INACTIVE_AFTER.
InactiveInTime == \A p \in tracked \ active : age[p] >= InactiveAfter

LEMMA InTimeInit == Init => InactiveInTime
  BY DEF Init, InactiveInTime

LEMMA InTimeNext == RunInv /\ InactiveInTime /\ [Next]_vars => InactiveInTime'
<1> SUFFICES ASSUME RunInv, InactiveInTime, [Next]_vars PROVE InactiveInTime'
  OBVIOUS
<1>1. /\ age \in [Products -> 0..Stale] /\ active \subseteq tracked /\ tracked \subseteq Products
      /\ InactiveAfter \in Nat \ {0} /\ Stale = InactiveAfter + 1
  BY RefreshRunAssumption DEF RunInv, TypeOK, Stale
<1>2. CASE UNCHANGED <<tracked, active, age>>
  BY <1>2 DEF InactiveInTime
<1>3. CASE NextDay
  <2>1. /\ tracked' = tracked /\ active' = active
        /\ age' = [p \in Products |-> IF age[p] < Stale THEN age[p] + 1 ELSE Stale]
    BY <1>3 DEF NextDay
  <2>2. \A p \in Products : age'[p] >= age[p] \/ age'[p] >= InactiveAfter
    BY <1>1, <2>1
  <2>3. \A p \in Products : age[p] \in Nat /\ age'[p] \in Nat
    BY <1>1, <2>1
  <2>4. QED BY <1>1, <2>1, <2>2, <2>3 DEF InactiveInTime
<1>4. ASSUME NEW p \in Products, Observed(p) \/ BasketObserveFailed(p) PROVE InactiveInTime'
  <2>1. /\ tracked' = tracked \cup {p} /\ active' = active \cup {p}
        /\ age' = [age EXCEPT ![p] = 0]
    BY <1>4 DEF Observed, BasketObserveFailed
  <2>2. QED BY <1>1, <2>1 DEF InactiveInTime
<1>5. CASE FinishRefresh
  <2>1. PICK late \in SUBSET DueToday : active' = active \ (Overdue \cup late)
    BY <1>5 DEF FinishRefresh
  <2>2. tracked' = tracked /\ age' = age
    BY <1>5 DEF FinishRefresh
  <2>3. \A p \in Overdue \cup late : age[p] >= InactiveAfter
    BY <1>1, <2>1 DEF Overdue, DueToday
  <2>4. QED BY <2>1, <2>2, <2>3 DEF InactiveInTime
<1>6. QED
  BY <1>2, <1>3, <1>4, <1>5
  DEF Next, vars, dbVars, CatalogChange, HealthChange, StartRefresh, StartBasket, RefreshStep, BasketStep,
      BatchAnswered, BatchFailed, BatchRaised, ObserveFailed, SearchPage, FinishBasket, Kill

(***************************************************************************)
(* pipeline/refresh.py:95-104: whatever runs fail, are killed or retried,  *)
(* a product is inactive only when it has not been seen for                *)
(* INACTIVE_AFTER.                                                         *)
(***************************************************************************)
THEOREM NotBeforeItsTime == Spec => []InactiveInTime
  BY RunInvariant, InTimeInit, InTimeNext, PTL DEF Spec

---------------------------------------------------------------------------
(* A product on the shelf, in good health                                  *)

OnTheShelf(p) == healthy /\ p \in listed

\* p has been seen lately, or the refresh of its last day will still ask for it or is asking.
Kept(p) ==
  /\ p \in active
  /\ IF Running("refresh") THEN age[p] = 0 \/ p \in job.todo \cup job.batch
     ELSE age[p] < InactiveAfter \/ (started = 0 /\ age[p] = InactiveAfter)

LEMMA KeptNext ==
  ASSUME NEW p \in Products, RunInv, OnTheShelf(p), Kept(p), [Next]_vars
  PROVE  Kept(p)'
<1>1. /\ age \in [Products -> 0..Stale] /\ job \in Jobs
      /\ InactiveAfter \in Nat \ {0} /\ Stale = InactiveAfter + 1 /\ started \in Nat
      /\ healthy /\ p \in listed
  BY RefreshRunAssumption DEF RunInv, TypeOK, Stale, OnTheShelf
<1>2. CASE UNCHANGED <<active, age, started, job>>
  BY <1>2 DEF Kept, Running
<1>3. CASE NextDay
  <2>1. /\ active' = active /\ job' = job /\ started' = 0 /\ started > 0 /\ job.kind = "none"
        /\ age' = [q \in Products |-> IF age[q] < Stale THEN age[q] + 1 ELSE Stale]
    BY <1>3 DEF NextDay, Running
  <2>2. age[p] < InactiveAfter
    BY <2>1 DEF Kept, Running
  <2>3. age[p] \in Nat /\ age'[p] = age[p] + 1
    BY <1>1, <2>1, <2>2
  <2>4. QED BY <1>1, <2>1, <2>2, <2>3 DEF Kept, Running
<1>4. CASE StartRefresh
  <2>1. /\ job'.kind = "refresh" /\ job'.todo = active
        /\ active' = active
    BY <1>4 DEF StartRefresh, dbVars
  <2>2. QED BY <2>1 DEF Kept, Running
<1>5. CASE StartBasket \/ FinishBasket
  <2>1. job.kind # "refresh" /\ UNCHANGED <<active, age, started>>
    BY <1>5 DEF StartBasket, FinishBasket, Running, dbVars
  <2>2. CASE StartBasket
    <3>1. job' = [NoJob EXCEPT !.kind = "basket", !.todo = Products]
      BY <2>2 DEF StartBasket
    <3>2. job'.kind # "refresh"
      BY <3>1 DEF NoJob
    <3>3. QED BY <2>1, <3>2 DEF Kept, Running
  <2>3. CASE FinishBasket
    <3>1. job'.kind # "refresh"
      BY <2>3 DEF FinishBasket, NoJob
    <3>2. QED BY <2>1, <3>1 DEF Kept, Running
  <2>4. QED BY <1>5, <2>2, <2>3
<1>6. ASSUME NEW b \in SUBSET Products, BatchAnswered(b) PROVE Kept(p)'
  <2>1. /\ job.kind = "refresh" /\ job.batch = {} /\ UNCHANGED <<active, age, started>>
        /\ job' = [job EXCEPT !.todo = @ \ b, !.batch = b \cap listed]
    BY <1>6 DEF BatchAnswered, ReadyForBatch, Running, dbVars
  <2>2. job'.kind = "refresh" /\ job'.todo = job.todo \ b /\ job'.batch = b \cap listed
    BY <1>1, <2>1 DEF Jobs
  <2>3. QED BY <1>1, <2>1, <2>2 DEF Kept, Running
<1>7. ASSUME NEW b \in SUBSET Products, SearchPage(b) PROVE Kept(p)'
  <2>1. /\ job.kind = "basket" /\ UNCHANGED <<active, age, started>>
        /\ job' = [job EXCEPT !.todo = @ \ b, !.batch = b]
    BY <1>7 DEF SearchPage, Running, dbVars
  <2>2. job'.kind = "basket"
    BY <1>1, <2>1 DEF Jobs
  <2>3. QED BY <2>1, <2>2 DEF Kept, Running
<1>8. ASSUME NEW q \in Products, Observed(q) PROVE Kept(p)'
  <2>1. /\ q \in job.batch /\ active' = active \cup {q} /\ age' = [age EXCEPT ![q] = 0]
        /\ job' = [job EXCEPT !.batch = @ \ {q}] /\ started' = started
    BY <1>8 DEF Observed
  <2>2. job'.kind = job.kind /\ job'.todo = job.todo /\ job'.batch = job.batch \ {q}
    BY <1>1, <2>1 DEF Jobs
  <2>3. CASE q = p
    BY <1>1, <2>1, <2>2, <2>3 DEF Kept, Running
  <2>4. CASE q # p
    <3>1. age'[p] = age[p]
      BY <1>1, <2>1, <2>4
    <3>2. QED BY <2>1, <2>2, <2>4, <3>1 DEF Kept, Running
  <2>5. QED BY <2>3, <2>4
<1>9. CASE FinishRefresh
  <2>1. PICK late \in SUBSET DueToday : active' = active \ (Overdue \cup late)
    BY <1>9 DEF FinishRefresh
  <2>2. job.kind = "refresh" /\ job.todo = {} /\ job.batch = {} /\ job' = NoJob /\ age' = age
    BY <1>9 DEF FinishRefresh, Running
  <2>3. age[p] = 0
    BY <2>2 DEF Kept, Running
  <2>4. p \in active' /\ job'.kind = "none"
    BY <1>1, <2>1, <2>2, <2>3 DEF Overdue, DueToday, Kept, NoJob
  <2>5. QED BY <1>1, <2>2, <2>3, <2>4 DEF Kept, Running
<1>10. CASE BatchRaised \/ Kill \/ \E b \in SUBSET Products : BatchFailed(b)
  BY <1>1, <1>10 DEF BatchRaised, Kill, BatchFailed
<1>11. CASE \E q \in Products : ObserveFailed(q) \/ BasketObserveFailed(q)
  BY <1>1, <1>11 DEF ObserveFailed, BasketObserveFailed
<1>12. QED
  BY <1>2, <1>3, <1>4, <1>5, <1>6, <1>7, <1>8, <1>9, <1>10, <1>11
  DEF Next, vars, dbVars, CatalogChange, HealthChange, RefreshStep, BasketStep

\* A product seen less than INACTIVE_AFTER ago, between two jobs.
LatelySeen(p) == Running("none") /\ p \in active /\ age[p] < InactiveAfter

(***************************************************************************)
(* The safety half of ListedStaysSeen, without any fairness: from any      *)
(* moment between two jobs at which a product has been seen lately, as     *)
(* long as the services work and it stays on the shelf, no refresh, basket *)
(* build or retry deactivates it (pipeline/refresh.py:95-104).             *)
(***************************************************************************)
THEOREM ListedStaysActive ==
  ASSUME NEW p \in Products
  PROVE  Spec => []([]OnTheShelf(p) /\ LatelySeen(p) => [](p \in active))
<1>1. LatelySeen(p) => Kept(p)
  BY DEF LatelySeen, Kept, Running
<1>2. Kept(p) => p \in active
  BY DEF Kept
<1>3. RunInv /\ OnTheShelf(p) /\ Kept(p) /\ [Next]_vars => Kept(p)'
  BY KeptNext
<1>4. QED BY RunInvariant, <1>1, <1>2, <1>3, PTL DEF Spec
=============================================================================
