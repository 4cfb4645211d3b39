-------------------------- MODULE AskBudgetProofs --------------------------
(***************************************************************************)
(* Proofs about AskBudget, for every number of requests and days, every    *)
(* limit and every cost of an answer: the counter is exact, what a day     *)
(* lets through is bounded, the steps implement the daily quota, and an    *)
(* answer's tokens are on one row at most, on none only after midnight.    *)
(***************************************************************************)
EXTENDS AskBudget, FiniteSetTheorems, WellFoundedInduction, TLAPS

\* How a request, the row it holds and the clock belong together.
RequestInv(r) ==
  /\ opened[r] = 0 <=> pc[r] = "new"
  /\ opened[r] <= day
  /\ pc[r] \in {"ended", "finishing", "done"} => outcome[r] \in Outcomes
  /\ pc[r] \in {"new", "refused", "counted", "running", "ended"} => read[r] = None
  /\ read[r] # None =>
       read[r] \in Read /\ opened[r] <= read[r].day /\ read[r].day <= day
  /\ pc[r] = "finishing" =>
       /\ read[r] # None
       /\ budget[read[r].day] \in Row
       /\ read[r].used = budget[read[r].day].used
       /\ read[r].tokens = budget[read[r].day].tokens

\* FOR UPDATE: no row is held twice.
LockInv ==
  \A r, s \in Requests :
    pc[r] = "finishing" /\ pc[s] = "finishing" /\ read[r].day = read[s].day => r = s

RowsInv == TypeOK /\ LockInv /\ \A r \in Requests : RequestInv(r)

---------------------------------------------------------------------------
(* The rows and the requests                                               *)

LEMMA RowsInit == Init => RowsInv
  BY AskBudgetAssumption DEF Init, RowsInv, TypeOK, LockInv, RequestInv, Days, Steps

LEMMA ConsumeRows ==
  ASSUME RowsInv, NEW r \in Requests, Consume(r)
  PROVE  RowsInv'
<1> USE DEF RowsInv
<1>1. /\ pc[r] = "new" /\ RowFree(day) /\ day \in Days /\ day \in Nat \ {0}
      /\ opened' = [opened EXCEPT ![r] = day]
      /\ UNCHANGED <<day, log, outcome, read>>
  BY DEF Consume, TypeOK, Days
<1>2. PICK step \in {"counted", "refused"} : pc' = [pc EXCEPT ![r] = step]
  BY DEF Consume
<1>3. PICK row \in Row : budget' = [budget EXCEPT ![day] = row]
  <2> DEFINE row == IF budget[day] = None THEN [used |-> 1, tokens |-> 0]
                    ELSE [used |-> budget[day].used + 1, tokens |-> budget[day].tokens]
  <2>1. budget[day] # None => budget[day] \in Row
    BY <1>1 DEF TypeOK
  <2>2. row \in Row
    BY <2>1 DEF Row
  <2>3. budget' = [budget EXCEPT ![day] = row]
    BY DEF Consume
  <2>4. QED BY <2>2, <2>3
<1>4. TypeOK'
  BY <1>1, <1>2, <1>3 DEF TypeOK, Days, Steps
<1>5. LockInv'
  BY <1>1, <1>2 DEF LockInv, TypeOK
<1>6. ASSUME NEW s \in Requests PROVE RequestInv(s)'
  <2>1. CASE s = r
    BY <1>1, <1>2, <2>1 DEF RequestInv, TypeOK
  <2>2. CASE s # r
    <3>1. UNCHANGED <<pc[s], opened[s]>>
      BY <1>1, <1>2, <2>2 DEF TypeOK
    <3>2. pc[s] = "finishing" => read[s].day # day /\ budget'[read[s].day] = budget[read[s].day]
      BY <1>1, <1>3 DEF RowFree, RequestInv, Read, TypeOK
    <3>3. QED BY <1>1, <3>1, <3>2 DEF RequestInv
  <2>3. QED BY <2>1, <2>2
<1>7. QED BY <1>4, <1>5, <1>6

\* Steps of one request that leave the budget and the clock alone.
LEMMA OwnRows ==
  ASSUME RowsInv, NEW r \in Requests, UNCHANGED <<day, budget, opened>>,
         TypeOK', RequestInv(r)',
         \A s \in Requests \ {r} : UNCHANGED <<pc[s], outcome[s], read[s]>>,
         pc'[r] = "finishing" => RowFree(read'[r].day)
  PROVE  RowsInv'
<1> USE DEF RowsInv
<1>1. LockInv'
  BY DEF LockInv, RowFree
<1>2. \A s \in Requests \ {r} : RequestInv(s)'
  BY DEF RequestInv
<1>3. QED BY <1>1, <1>2

\* Every outcome can be logged.
LEMMA OutcomeIsLogged == Outcomes \subseteq LogRow
<1>1. [status : {"ok"}, tokens : Tokens] \subseteq LogRow
  BY AskBudgetAssumption DEF LogRow
<1>2. [status : {"budget", "error"}, tokens : {0}] \subseteq LogRow
  BY DEF LogRow
<1>3. QED BY <1>1, <1>2 DEF Outcomes

LEMMA RequestRows ==
  ASSUME RowsInv, NEW r \in Requests,
         StartLog(r) \/ Answer(r) \/ ReadBudget(r) \/ FinishWithoutRow(r) \/ Lose(r)
  PROVE  RowsInv'
<1> USE DEF RowsInv
<1>1. CASE StartLog(r)
  <2>1. TypeOK'
    BY <1>1 DEF StartLog, TypeOK, Steps, LogRow
  <2>2. RequestInv(r)'
    BY <1>1 DEF StartLog, RequestInv, TypeOK
  <2>3. QED BY <1>1, <2>1, <2>2, OwnRows DEF StartLog, TypeOK
<1>2. CASE Answer(r)
  <2>1. TypeOK'
    BY <1>2 DEF Answer, TypeOK, Steps
  <2>2. RequestInv(r)'
    BY <1>2 DEF Answer, RequestInv, TypeOK
  <2>3. QED BY <1>2, <2>1, <2>2, OwnRows DEF Answer, TypeOK
<1>3. CASE ReadBudget(r)
  <2> DEFINE row == [day |-> day, used |-> budget[day].used, tokens |-> budget[day].tokens]
  <2>1. budget[day] \in Row /\ day \in Days
    BY <1>3 DEF ReadBudget, TypeOK
  <2>2. row \in Read
    BY <2>1 DEF Read, Row
  <2>3. row # None
    BY <2>2, NoneAssumption
  <2>4. /\ read' = [read EXCEPT ![r] = row] /\ pc' = [pc EXCEPT ![r] = "finishing"]
        /\ pc[r] = "ended" /\ RowFree(day)
        /\ UNCHANGED <<day, budget, log, opened, outcome>>
    BY <1>3 DEF ReadBudget
  <2>5. row.day = day /\ row.used = budget[day].used /\ row.tokens = budget[day].tokens
    OBVIOUS
  <2> HIDE DEF row
  <2>6. TypeOK'
    BY <2>2, <2>4 DEF TypeOK, Steps
  <2>7. read'[r] = row /\ pc'[r] = "finishing" /\ opened[r] \in Int /\ day \in Int /\ opened[r] # 0
    BY <2>4 DEF TypeOK, Days, RequestInv
  <2>8. RequestInv(r)'
    BY <2>1, <2>2, <2>3, <2>4, <2>5, <2>7 DEF RequestInv
  <2>9. QED BY <2>4, <2>5, <2>6, <2>7, <2>8, OwnRows DEF TypeOK
<1>4. CASE FinishWithoutRow(r)
  <2>1. outcome[r] \in LogRow
    BY <1>4, OutcomeIsLogged DEF FinishWithoutRow, RequestInv
  <2>2. TypeOK'
    BY <1>4, <2>1 DEF FinishWithoutRow, Logged, TypeOK, Steps
  <2>3. RequestInv(r)'
    BY <1>4 DEF FinishWithoutRow, RequestInv, TypeOK
  <2>4. QED BY <1>4, <2>2, <2>3, OwnRows DEF FinishWithoutRow, TypeOK
<1>5. CASE Lose(r)
  <2>1. TypeOK'
    BY <1>5 DEF Lose, TypeOK, Steps
  <2>2. RequestInv(r)'
    BY <1>5 DEF Lose, RequestInv, TypeOK, Open
  <2>3. QED BY <1>5, <2>1, <2>2, OwnRows DEF Lose, TypeOK
<1>6. QED BY <1>1, <1>2, <1>3, <1>4, <1>5

\* The row _finish_log writes: read under the lock, so nothing is overwritten.
LEMMA FinishRow ==
  ASSUME RowsInv, NEW r \in Requests, FinishLog(r)
  PROVE  /\ read[r] \in Read /\ read[r].day \in Days /\ opened[r] <= read[r].day
         /\ budget[read[r].day] \in Row /\ read[r].used = budget[read[r].day].used
         /\ \E row \in Row :
              /\ budget' = [budget EXCEPT ![read[r].day] = row]
              /\ row.used = IF Refunds(r) THEN read[r].used - 1 ELSE read[r].used
<1>1. /\ read[r] # None /\ read[r] \in Read /\ opened[r] <= read[r].day
      /\ budget[read[r].day] \in Row /\ read[r].used = budget[read[r].day].used
      /\ outcome[r] \in Outcomes
  BY DEF RowsInv, RequestInv, FinishLog
<1> DEFINE row == [used   |-> IF Refunds(r) THEN read[r].used - 1 ELSE budget[read[r].day].used,
                   tokens |-> IF outcome[r].status = "ok" THEN read[r].tokens + outcome[r].tokens
                              ELSE budget[read[r].day].tokens]
<1>2. budget' = [budget EXCEPT ![read[r].day] = row]
  BY DEF FinishLog
<1>3. read[r].used \in Nat /\ read[r].tokens \in Nat /\ read[r].day \in Days
      /\ budget[read[r].day].used \in Nat /\ budget[read[r].day].tokens \in Nat
  BY <1>1 DEF Read, Row
<1>4. outcome[r].tokens \in Nat
  BY <1>1, OutcomeIsLogged DEF LogRow
<1>5. Refunds(r) => read[r].used - 1 \in Nat
  BY <1>3 DEF Refunds
<1>6. row \in Row
  BY <1>3, <1>4, <1>5 DEF Row
<1>7. QED BY <1>1, <1>2, <1>3, <1>6

LEMMA FinishRows ==
  ASSUME RowsInv, NEW r \in Requests, FinishLog(r)
  PROVE  RowsInv'
<1> USE DEF RowsInv
<1>1. /\ pc[r] = "finishing" /\ pc' = [pc EXCEPT ![r] = "done"]
      /\ log' = [log EXCEPT ![r] = outcome[r]]
      /\ UNCHANGED <<day, opened, outcome, read>>
  BY DEF FinishLog, Logged
<1>2. PICK row \in Row : budget' = [budget EXCEPT ![read[r].day] = row]
  BY FinishRow
<1>3. outcome[r] \in LogRow
  BY <1>1, OutcomeIsLogged DEF RequestInv
<1>4. TypeOK'
  BY <1>1, <1>2, <1>3, FinishRow DEF TypeOK, Steps
<1>5. LockInv'
  BY <1>1 DEF LockInv, TypeOK
<1>6. ASSUME NEW s \in Requests PROVE RequestInv(s)'
  <2>1. CASE s = r
    BY <1>1, <2>1 DEF RequestInv, TypeOK
  <2>2. CASE s # r
    <3>1. pc'[s] = pc[s]
      BY <1>1, <2>2 DEF TypeOK
    <3>2. pc[s] = "finishing" => budget'[read[s].day] = budget[read[s].day]
      BY <1>1, <1>2, <2>2 DEF LockInv, TypeOK
    <3>3. QED BY <1>1, <3>1, <3>2 DEF RequestInv
  <2>3. QED BY <2>1, <2>2
<1>7. QED BY <1>4, <1>5, <1>6

LEMMA MidnightRows ==
  ASSUME RowsInv, Midnight
  PROVE  RowsInv'
<1> USE DEF RowsInv
<1>1. day \in Nat /\ day' = day + 1 /\ day' \in Days
      /\ UNCHANGED <<budget, log, pc, opened, outcome, read>>
  BY AskBudgetAssumption DEF Midnight, TypeOK, Days
<1>2. \A r \in Requests : opened[r] \in Nat
  BY DEF TypeOK
<1>3. \A r \in Requests : read[r] # None => read[r].day \in Nat
  BY DEF RequestInv, Read, Days
<1>4. TypeOK'
  BY <1>1 DEF TypeOK
<1>5. LockInv'
  BY <1>1 DEF LockInv
<1>6. \A r \in Requests : RequestInv(r)'
  BY <1>1, <1>2, <1>3 DEF RequestInv
<1>7. QED BY <1>4, <1>5, <1>6

LEMMA RowsNext == RowsInv /\ [Next]_vars => RowsInv'
<1> SUFFICES ASSUME RowsInv, [Next]_vars PROVE RowsInv'
  OBVIOUS
<1>1. CASE Midnight
  BY <1>1, MidnightRows
<1>2. ASSUME NEW r \in Requests, Request(r) PROVE RowsInv'
  BY <1>2, ConsumeRows, RequestRows, FinishRows DEF Request
<1>3. CASE UNCHANGED vars
  BY <1>3 DEF vars, RowsInv, TypeOK, LockInv, RequestInv
<1>4. QED BY <1>1, <1>2, <1>3 DEF Next

(***************************************************************************)
(* The rows and requests of agent/routes.py keep their types; no counter   *)
(* falls below zero, whatever refunds race it.                             *)
(***************************************************************************)
THEOREM Types == Spec => []TypeOK
<1>1. RowsInv => TypeOK
  BY DEF RowsInv
<1>2. QED BY RowsInit, RowsNext, <1>1, PTL DEF Spec

---------------------------------------------------------------------------
(* The counter is exact                                                    *)

\* Sets of requests are finite, and their sizes are numbers.
LEMMA RequestSets ==
  ASSUME NEW S \in SUBSET Requests
  PROVE  IsFiniteSet(S) /\ Cardinality(S) \in Nat
  BY AskBudgetAssumption, FS_Subset, FS_CardinalityType

LEMMA AddRequest ==
  ASSUME NEW S \in SUBSET Requests, NEW r, r \notin S
  PROVE  Cardinality(S \cup {r}) = Cardinality(S) + 1
  BY RequestSets, FS_AddElement

LEMMA FewerRequests ==
  ASSUME NEW S \in SUBSET Requests, NEW T \in SUBSET S
  PROVE  Cardinality(T) <= Cardinality(S)
  BY RequestSets, FS_Subset

\* The step that counts a request.
LEMMA ConsumeSets ==
  ASSUME RowsInv, NEW r \in Requests, Consume(r)
  PROVE  /\ \A d \in Days : r \notin Counted(d)
         /\ \A d \in Days : Counted(d)' = IF d = day THEN Counted(d) \cup {r} ELSE Counted(d)
         /\ \A d \in Days : Used(d)' = IF d = day THEN Used(d) + 1 ELSE Used(d)
         /\ \A d \in Days : TakenBack(d)' = TakenBack(d) /\ LateRefunds(d)' = LateRefunds(d)
         /\ ~Refunded(r)'
         /\ \A s \in Requests \ {r} : Refunded(s)' = Refunded(s) /\ Accepted(s)' = Accepted(s)
<1> USE DEF RowsInv
<1>1. /\ pc[r] = "new" /\ day \in Days /\ day # 0 /\ opened[r] = 0
      /\ opened' = [opened EXCEPT ![r] = day]
      /\ UNCHANGED <<day, log, outcome, read>>
  BY DEF Consume, TypeOK, Days, RequestInv
<1>2. PICK step \in {"counted", "refused"} : pc' = [pc EXCEPT ![r] = step]
  BY DEF Consume
<1>3. opened'[r] = day /\ pc'[r] = step
      /\ \A s \in Requests \ {r} : opened'[s] = opened[s] /\ pc'[s] = pc[s]
  BY <1>1, <1>2 DEF TypeOK
<1>4. \A d \in Days : r \notin Counted(d)
  BY <1>1 DEF Counted, Days
<1>5. \A d \in Days : Counted(d)' = IF d = day THEN Counted(d) \cup {r} ELSE Counted(d)
  BY <1>1, <1>3 DEF Counted, Days
<1>6. ~Refunded(r) /\ ~Refunded(r)'
      /\ \A s \in Requests \ {r} : Refunded(s)' = Refunded(s) /\ Accepted(s)' = Accepted(s)
  BY <1>1, <1>3 DEF Refunded, Accepted
<1>7. \A d \in Days : TakenBack(d)' = TakenBack(d)
  BY <1>1, <1>6 DEF TakenBack
<1>8. \A d \in Days : LateRefunds(d)' = LateRefunds(d)
  BY <1>1, <1>3, <1>6, <1>7 DEF LateRefunds, TakenBack
<1>9. \A d \in Days : Used(d)' = IF d = day THEN Used(d) + 1 ELSE Used(d)
  <2>1. budget[day] # None => budget[day] \in Row
    BY <1>1 DEF TypeOK
  <2> DEFINE row == IF budget[day] = None THEN [used |-> 1, tokens |-> 0]
                    ELSE [used |-> budget[day].used + 1, tokens |-> budget[day].tokens]
  <2>2. row \in Row /\ row.used = Used(day) + 1
    BY <2>1 DEF Row, Used
  <2>3. row # None
    BY <2>2, NoneAssumption
  <2>4. budget' = [budget EXCEPT ![day] = row]
    BY DEF Consume
  <2> HIDE DEF row
  <2>5. budget'[day] = row /\ \A d \in Days \ {day} : budget'[d] = budget[d]
    BY <1>1, <2>4 DEF TypeOK
  <2>6. QED BY <1>1, <2>2, <2>3, <2>5 DEF Used
<1>10. QED BY <1>1, <1>4, <1>5, <1>6, <1>7, <1>8, <1>9

\* The step that gives a question back, or not.
LEMMA FinishSets ==
  ASSUME RowsInv, NEW r \in Requests, FinishLog(r)
  PROVE  /\ \A d \in Days : Counted(d)' = Counted(d)
         /\ r \notin TakenBack(read[r].day)
         /\ \A d \in Days : TakenBack(d)' =
              IF d = read[r].day /\ Refunds(r) THEN TakenBack(d) \cup {r} ELSE TakenBack(d)
         /\ \A d \in Days : Used(d)' =
              IF d = read[r].day /\ Refunds(r) THEN Used(d) - 1 ELSE Used(d)
         /\ Refunded(r)' = (outcome[r].status = "budget") /\ Accepted(r) /\ Accepted(r)'
         /\ \A s \in Requests \ {r} : Refunded(s)' = Refunded(s) /\ Accepted(s)' = Accepted(s)
<1>1. /\ pc[r] = "finishing" /\ pc'[r] = "done"
      /\ \A s \in Requests \ {r} : pc'[s] = pc[s]
      /\ UNCHANGED <<day, opened, outcome, read>>
  BY DEF FinishLog, RowsInv, TypeOK
<1>2. \A d \in Days : Counted(d)' = Counted(d)
  BY <1>1 DEF Counted
<1>3. /\ ~Refunded(r) /\ Refunded(r)' = (outcome[r].status = "budget")
      /\ Accepted(r) /\ Accepted(r)'
      /\ \A s \in Requests \ {r} : Refunded(s)' = Refunded(s) /\ Accepted(s)' = Accepted(s)
  BY <1>1 DEF Refunded, Accepted
<1>4. \A d \in Days : r \notin TakenBack(d)
  BY <1>3 DEF TakenBack
<1>5. read[r] # None /\ read[r] \in Read /\ read[r].day \in Days
  BY FinishRow, <1>1 DEF RowsInv, RequestInv
<1>6. \A d \in Days : r \in TakenBack(d)' <=> d = read[r].day /\ Refunds(r)
  BY <1>1, <1>3, <1>5 DEF TakenBack, Refunds
<1>7. \A d \in Days, s \in Requests \ {r} : s \in TakenBack(d)' <=> s \in TakenBack(d)
  BY <1>1, <1>3 DEF TakenBack
<1>8. \A d \in Days : TakenBack(d) \subseteq Requests /\ TakenBack(d)' \subseteq Requests
  BY DEF TakenBack
<1>9. \A d \in Days : TakenBack(d)' =
        IF d = read[r].day /\ Refunds(r) THEN TakenBack(d) \cup {r} ELSE TakenBack(d)
  BY <1>4, <1>6, <1>7, <1>8
<1>10. \A d \in Days : Used(d)' =
         IF d = read[r].day /\ Refunds(r) THEN Used(d) - 1 ELSE Used(d)
  <2>1. PICK row \in Row : /\ budget' = [budget EXCEPT ![read[r].day] = row]
                           /\ row.used = IF Refunds(r) THEN read[r].used - 1 ELSE read[r].used
    BY FinishRow
  <2>2. /\ budget'[read[r].day] = row
        /\ \A d \in Days \ {read[r].day} : budget'[d] = budget[d]
    BY <1>5, <2>1 DEF RowsInv, TypeOK
  <2>3. budget[read[r].day] # None /\ row # None /\ read[r].used = budget[read[r].day].used
    BY FinishRow, NoneAssumption
  <2>4. QED BY <2>1, <2>2, <2>3 DEF Used
<1>11. QED BY <1>2, <1>3, <1>4, <1>5, <1>9, <1>10

\* Every other step of a request leaves the counters as they are.
LEMMA OtherSets ==
  ASSUME RowsInv, NEW r \in Requests,
         StartLog(r) \/ Answer(r) \/ ReadBudget(r) \/ FinishWithoutRow(r) \/ Lose(r)
  PROVE  /\ UNCHANGED <<budget, opened, day>>
         /\ \A d \in Days : TakenBack(d)' = TakenBack(d) /\ LateRefunds(d)' = LateRefunds(d)
         /\ Accepted(r) /\ Accepted(r)' /\ (Refunded(r) => Refunded(r)')
         /\ Refunded(r)' => FinishWithoutRow(r)
         /\ \A s \in Requests \ {r} : Refunded(s)' = Refunded(s) /\ Accepted(s)' = Accepted(s)
<1> USE DEF RowsInv
<1>1. /\ UNCHANGED <<budget, opened, day>>
      /\ pc[r] \in Open /\ pc'[r] \in (Open \cup {"done", "lost"}) \ {"counted"}
      /\ pc'[r] = "done" => FinishWithoutRow(r) /\ read'[r] = None
      /\ \A s \in Requests \ {r} : UNCHANGED <<pc[s], outcome[s], read[s]>>
  BY DEF StartLog, Answer, ReadBudget, FinishWithoutRow, Lose, TypeOK, RequestInv, Open
<1>2. /\ Accepted(r) /\ Accepted(r)' /\ ~Refunded(r)
      /\ Refunded(r)' => FinishWithoutRow(r) /\ read'[r] = None
      /\ \A s \in Requests \ {r} : Refunded(s)' = Refunded(s) /\ Accepted(s)' = Accepted(s)
  BY <1>1 DEF Refunded, Accepted, Open
<1>3. \A d \in Days : r \notin TakenBack(d) /\ r \notin TakenBack(d)'
  BY <1>2 DEF TakenBack
<1>4. \A d \in Days, s \in Requests \ {r} : s \in TakenBack(d)' <=> s \in TakenBack(d)
  BY <1>1, <1>2 DEF TakenBack
<1>5. \A d \in Days : TakenBack(d)' = TakenBack(d)
  <2>1. \A d \in Days : TakenBack(d) \subseteq Requests /\ TakenBack(d)' \subseteq Requests
    BY DEF TakenBack
  <2>2. QED BY <1>3, <1>4, <2>1
<1>6. \A d \in Days : LateRefunds(d)' = LateRefunds(d)
  BY <1>1, <1>5 DEF LateRefunds, TakenBack
<1>7. QED BY <1>1, <1>2, <1>5, <1>6

LEMMA ExactInit == Init => UsedIsExact
<1> SUFFICES ASSUME Init, NEW d \in Days PROVE Used(d) = Cardinality(Counted(d)) - Cardinality(TakenBack(d))
  BY DEF UsedIsExact
<1>1. Used(d) = 0 /\ Counted(d) = {} /\ TakenBack(d) = {}
  BY DEF Init, Used, Counted, TakenBack, Refunded, Days
<1>2. QED BY <1>1, FS_EmptySet

LEMMA ExactNext == UsedIsExact /\ RowsInv /\ [Next]_vars => UsedIsExact'
<1> SUFFICES ASSUME UsedIsExact, RowsInv, [Next]_vars PROVE UsedIsExact'
  OBVIOUS
<1>1. \A d \in Days : Counted(d) \in SUBSET Requests /\ TakenBack(d) \in SUBSET Requests
  BY DEF Counted, TakenBack
<1>2. \A d \in Days : Cardinality(Counted(d)) \in Nat /\ Cardinality(TakenBack(d)) \in Nat
  BY <1>1, RequestSets
<1>3. ASSUME NEW r \in Requests, Consume(r) PROVE UsedIsExact'
  <2>1. \A d \in Days : Cardinality(Counted(d) \cup {r}) = Cardinality(Counted(d)) + 1
    BY <1>1, <1>3, ConsumeSets, AddRequest
  <2>2. ASSUME NEW d \in Days
        PROVE  Used(d)' = Cardinality(Counted(d)') - Cardinality(TakenBack(d)')
    <3>1. Used(d) = Cardinality(Counted(d)) - Cardinality(TakenBack(d))
      BY DEF UsedIsExact
    <3>2. TakenBack(d)' = TakenBack(d)
      BY <1>3, ConsumeSets
    <3>3. CASE d = day
      BY <1>2, <1>3, <2>1, <3>1, <3>2, <3>3, ConsumeSets
    <3>4. CASE d # day
      BY <1>3, <3>1, <3>2, <3>4, ConsumeSets
    <3>5. QED BY <3>3, <3>4
  <2>3. QED BY <2>2 DEF UsedIsExact
<1>4. ASSUME NEW r \in Requests, FinishLog(r) PROVE UsedIsExact'
  <2> DEFINE back(d) == d = read[r].day /\ Refunds(r)
  <2>1. ASSUME NEW d \in Days
        PROVE  Used(d)' = Cardinality(Counted(d)') - Cardinality(TakenBack(d)')
    <3>1. Used(d) = Cardinality(Counted(d)) - Cardinality(TakenBack(d))
      BY DEF UsedIsExact
    <3>2. Counted(d)' = Counted(d)
      BY <1>4, FinishSets
    <3>3. CASE back(d)
      <4>1. TakenBack(d)' = TakenBack(d) \cup {r} /\ r \notin TakenBack(d) /\ Used(d)' = Used(d) - 1
        BY <1>4, <3>3, FinishSets
      <4>2. Cardinality(TakenBack(d) \cup {r}) = Cardinality(TakenBack(d)) + 1
        BY <1>1, <4>1, AddRequest
      <4>3. QED BY <1>2, <3>1, <3>2, <4>1, <4>2
    <3>4. CASE ~back(d)
      <4>1. TakenBack(d)' = TakenBack(d) /\ Used(d)' = Used(d)
        BY <1>4, <3>4, FinishSets
      <4>2. QED BY <3>1, <3>2, <4>1
    <3>5. QED BY <3>3, <3>4
  <2>2. QED BY <2>1 DEF UsedIsExact
<1>5. ASSUME NEW r \in Requests,
             StartLog(r) \/ Answer(r) \/ ReadBudget(r) \/ FinishWithoutRow(r) \/ Lose(r)
      PROVE  UsedIsExact'
  <2>1. UNCHANGED <<budget, opened>> /\ \A d \in Days : TakenBack(d)' = TakenBack(d)
    BY <1>5, OtherSets
  <2>2. QED BY <2>1 DEF UsedIsExact, Used, Counted
<1>6. CASE Midnight \/ UNCHANGED vars
  BY <1>6 DEF Midnight, vars, UsedIsExact, Used, Counted, TakenBack, Refunded
<1>7. QED BY <1>3, <1>4, <1>5, <1>6 DEF Next, Request

(***************************************************************************)
(* agent/routes.py:100-128: read under the lock and written back, the      *)
(* counter never loses a question counted, or given back, by another       *)
(* request in between.                                                     *)
(***************************************************************************)
THEOREM CounterIsExact == Spec => []UsedIsExact
<1>1. RowsInv /\ UsedIsExact /\ [Next]_vars => (RowsInv /\ UsedIsExact)'
  BY RowsNext, ExactNext
<1>2. Init => RowsInv /\ UsedIsExact
  BY RowsInit, ExactInit
<1>3. QED BY <1>1, <1>2, PTL DEF Spec

---------------------------------------------------------------------------
(* What a day lets through                                                 *)

\* A day whose counter is within the limit is within its bound.
WithinLimit ==
  \A d \in Days : Used(d) <= Limit =>
    Cardinality(Charged(d)) <= Limit + Cardinality(LateRefunds(d))

LEMMA CountedWithinLimit == RowsInv /\ UsedIsExact => WithinLimit
<1> SUFFICES ASSUME RowsInv, UsedIsExact, NEW d \in Days, Used(d) <= Limit
             PROVE  Cardinality(Charged(d)) <= Limit + Cardinality(LateRefunds(d))
  BY DEF WithinLimit
<1> DEFINE Own == {r \in Counted(d) : Refunded(r)}
<1>1. /\ Counted(d) \in SUBSET Requests /\ TakenBack(d) \in SUBSET Requests
      /\ Charged(d) \in SUBSET Requests /\ LateRefunds(d) \in SUBSET Requests
      /\ Own \in SUBSET Requests
  BY DEF Counted, TakenBack, Charged, LateRefunds
<1>2. Charged(d) \cap Own = {} /\ Charged(d) \cup Own \subseteq Counted(d)
  BY DEF Charged
<1>3. TakenBack(d) \subseteq LateRefunds(d) \cup Own
  <2>1. SUFFICES ASSUME NEW r \in TakenBack(d), ~(opened[r] < d) PROVE r \in Own
    BY DEF LateRefunds
  <2>2. opened[r] <= d /\ opened[r] \in Int /\ d \in Int /\ Refunded(r)
    BY DEF TakenBack, RowsInv, RequestInv, TypeOK, Days
  <2>3. QED BY <2>1, <2>2 DEF Counted, TakenBack
<1>4. Cardinality(Charged(d)) + Cardinality(Own) <= Cardinality(Counted(d))
  <2>1. Cardinality(Charged(d) \cup Own) =
          Cardinality(Charged(d)) + Cardinality(Own) - Cardinality(Charged(d) \cap Own)
    BY <1>1, RequestSets, FS_Union, Zenon
  <2>2. Cardinality(Charged(d) \cap Own) = 0
    BY <1>2, FS_EmptySet
  <2>3. Cardinality(Charged(d) \cup Own) <= Cardinality(Counted(d))
    BY <1>1, <1>2, FewerRequests
  <2> HIDE DEF Own
  <2>4. QED BY <1>1, <2>1, <2>2, <2>3, RequestSets
<1>5. Cardinality(TakenBack(d)) <= Cardinality(LateRefunds(d)) + Cardinality(Own)
  <2>1. Cardinality(LateRefunds(d) \cup Own) = Cardinality(LateRefunds(d)) + Cardinality(Own)
          - Cardinality(LateRefunds(d) \cap Own)
    BY <1>1, RequestSets, FS_Union, Zenon
  <2> HIDE DEF Own
  <2>2. LateRefunds(d) \cup Own \in SUBSET Requests /\ LateRefunds(d) \cap Own \in SUBSET Requests
    BY <1>1
  <2>3. Cardinality(TakenBack(d)) <= Cardinality(LateRefunds(d) \cup Own)
    BY <1>3, <2>2, FewerRequests
  <2>4. QED BY <1>1, <2>1, <2>2, <2>3, RequestSets
<1>6. Used(d) = Cardinality(Counted(d)) - Cardinality(TakenBack(d))
  BY DEF UsedIsExact
<1> HIDE DEF Own
<1>7. QED BY <1>1, <1>4, <1>5, <1>6, RequestSets, AskBudgetAssumption

\* The bound survives steps that charge nobody.
LEMMA BoundKept ==
  ASSUME NEW C \in SUBSET Requests, NEW L \in SUBSET Requests,
         NEW C2 \in SUBSET C, NEW L2 \in SUBSET Requests, L \subseteq L2,
         Cardinality(C) <= Limit + Cardinality(L)
  PROVE  Cardinality(C2) <= Limit + Cardinality(L2)
<1>1. Cardinality(C2) <= Cardinality(C) /\ Cardinality(L) <= Cardinality(L2)
  BY FewerRequests
<1>2. QED BY <1>1, RequestSets, AskBudgetAssumption

\* Only an accepted request is charged, and only when the counter is within the limit.
LEMMA ChargedStep ==
  ASSUME RowsInv, [Next]_vars, NEW d \in Days
  PROVE  /\ LateRefunds(d) \subseteq LateRefunds(d)'
         /\ \/ Charged(d)' \subseteq Charged(d)
            \/ Used(d)' <= Limit
<1>1. ASSUME NEW r \in Requests, Consume(r)
      PROVE  /\ LateRefunds(d)' = LateRefunds(d)
             /\ Charged(d)' \subseteq Charged(d) \/ Used(d)' <= Limit
  <2>1. LateRefunds(d)' = LateRefunds(d)
    BY <1>1, ConsumeSets
  <2>2. CASE d # day
    <3>1. Counted(d)' = Counted(d) /\ r \notin Counted(d) /\ Counted(d) \subseteq Requests
      BY <1>1, <2>2, ConsumeSets DEF Counted
    <3>2. QED BY <1>1, <2>1, <3>1, ConsumeSets DEF Charged
  <2>3. CASE d = day /\ Accepts(UsedToday + 1)
    BY <1>1, <2>1, <2>3, ConsumeSets DEF Accepts, UsedToday, Used
  <2>4. CASE d = day /\ ~Accepts(UsedToday + 1)
    <3>1. pc'[r] = "refused"
      BY <1>1, <2>4 DEF Consume, RowsInv, TypeOK
    <3>2. Counted(d)' = Counted(d) \cup {r} /\ ~Accepted(r)' /\ Counted(d) \subseteq Requests
      BY <1>1, <2>4, <3>1, ConsumeSets DEF Accepted, Counted
    <3>3. QED BY <1>1, <2>1, <3>2, ConsumeSets DEF Charged
  <2>5. QED BY <2>2, <2>3, <2>4
<1>2. ASSUME NEW r \in Requests, FinishLog(r)
      PROVE  LateRefunds(d) \subseteq LateRefunds(d)' /\ Charged(d)' \subseteq Charged(d)
  <2>1. TakenBack(d) \subseteq TakenBack(d)' /\ opened' = opened
    BY <1>2, FinishSets DEF FinishLog
  <2>2. Counted(d)' = Counted(d) /\ Counted(d) \subseteq Requests
    BY <1>2, FinishSets DEF Counted
  <2>3. ~Refunded(r)
    BY <1>2 DEF FinishLog, Refunded
  <2>4. QED BY <1>2, <2>1, <2>2, <2>3, FinishSets DEF LateRefunds, Charged
<1>3. ASSUME NEW r \in Requests,
             StartLog(r) \/ Answer(r) \/ ReadBudget(r) \/ FinishWithoutRow(r) \/ Lose(r)
      PROVE  LateRefunds(d)' = LateRefunds(d) /\ Charged(d)' \subseteq Charged(d)
  <2>1. Counted(d)' = Counted(d) /\ Counted(d) \subseteq Requests
    BY <1>3, OtherSets DEF Counted
  <2>2. QED BY <1>3, <2>1, OtherSets DEF Charged
<1>4. CASE Midnight \/ UNCHANGED vars
  <2>1. UNCHANGED <<pc, opened, outcome, read>>
    BY <1>4 DEF Midnight, vars
  <2>2. QED BY <2>1 DEF LateRefunds, TakenBack, Charged, Counted, Accepted, Refunded
<1>5. QED BY <1>1, <1>2, <1>3, <1>4 DEF Next, Request

LEMMA BoundInit == Init => BudgetBounded
<1> SUFFICES ASSUME Init, NEW d \in Days
             PROVE  Cardinality(Charged(d)) <= Limit + Cardinality(LateRefunds(d))
  BY DEF BudgetBounded
<1>1. Charged(d) = {} /\ LateRefunds(d) = {}
  BY DEF Init, Charged, Counted, LateRefunds, TakenBack, Refunded, Days
<1>2. QED BY <1>1, FS_EmptySet, AskBudgetAssumption

LEMMA BoundNext ==
  ASSUME RowsInv, BudgetBounded, WithinLimit', [Next]_vars
  PROVE  BudgetBounded'
<1> SUFFICES ASSUME NEW d \in Days
             PROVE  Cardinality(Charged(d)') <= Limit + Cardinality(LateRefunds(d)')
  BY DEF BudgetBounded
<1>1. /\ Charged(d) \in SUBSET Requests /\ LateRefunds(d) \in SUBSET Requests
      /\ LateRefunds(d)' \in SUBSET Requests
  BY DEF Charged, Counted, LateRefunds, TakenBack
<1>2. CASE Used(d)' <= Limit
  BY <1>2 DEF WithinLimit
<1>3. CASE Charged(d)' \subseteq Charged(d)
  <2>1. Cardinality(Charged(d)) <= Limit + Cardinality(LateRefunds(d))
    BY DEF BudgetBounded
  <2>2. QED BY <1>1, <1>3, <2>1, ChargedStep, BoundKept
<1>4. QED BY <1>2, <1>3, ChargedStep

\* What holds of every state of the budget.
BudgetInv == RowsInv /\ UsedIsExact /\ BudgetBounded

LEMMA BudgetInvariant == Spec => []BudgetInv
<1>1. Init => BudgetInv
  BY RowsInit, ExactInit, BoundInit DEF BudgetInv
<1>2. (RowsInv /\ UsedIsExact)' => WithinLimit'
  BY CountedWithinLimit, PTL
<1>3. BudgetInv /\ [Next]_vars => BudgetInv'
  BY <1>2, RowsNext, ExactNext, BoundNext DEF BudgetInv
<1>4. QED BY <1>1, <1>3, PTL DEF Spec

(***************************************************************************)
(* agent/routes.py:62-80: however a visitor's requests overlap, fail and   *)
(* are given back, a day lets through no more than the limit and one more  *)
(* for each question of an earlier day that it gave back.                  *)
(***************************************************************************)
THEOREM DaysAreBounded == Spec => []BudgetBounded
<1>1. BudgetInv => BudgetBounded
  BY DEF BudgetInv
<1>2. QED BY BudgetInvariant, <1>1, PTL

---------------------------------------------------------------------------
(* The daily quota                                                         *)

\* Nothing counts on a day that has not begun.
LEMMA NothingTomorrow ==
  ASSUME RowsInv, NEW d \in Days, d > day
  PROVE  Charged(d) = {} /\ LateRefunds(d) = {}
<1>1. \A r \in Requests : opened[r] <= day /\ opened[r] \in Int /\ day \in Int /\ d \in Int
  BY DEF RowsInv, RequestInv, TypeOK, Days
<1>2. \A r \in Requests : read[r] # None => read[r].day <= day /\ read[r].day \in Int
  BY DEF RowsInv, RequestInv, Read, Days
<1>3. \A r \in Requests : opened[r] # d /\ (read[r] # None => read[r].day # d)
  BY <1>1, <1>2
<1>4. QED BY <1>3 DEF Charged, Counted, LateRefunds, TakenBack

\* Quota counts as its own instance of FiniteSets does.
LEMMA SameCardinality ==
  ASSUME NEW S
  PROVE  Budget!Cardinality(S) = Cardinality(S)
  BY DEF Budget!Cardinality, Cardinality

LEMMA ConsumeQuota ==
  ASSUME RowsInv, BudgetBounded', NEW r \in Requests, Consume(r)
  PROVE  Budget!Next \/ UNCHANGED <<day, Charged(day), Cardinality(LateRefunds(day))>>
<1>1. day \in Days /\ day' = day /\ pc[r] = "new" /\ r \notin Charged(day)
  BY ConsumeSets DEF Consume, RowsInv, TypeOK, Charged
<1>2. LateRefunds(day)' = LateRefunds(day)
  BY <1>1, ConsumeSets DEF LateRefunds, TakenBack
<1>3. CASE Accepts(UsedToday + 1)
  <2>1. pc'[r] = "counted" /\ ~Refunded(r)'
    BY <1>3, ConsumeSets DEF Consume, RowsInv, TypeOK
  <2>2. Charged(day)' = Charged(day) \cup {r}
    <3>1. ASSUME NEW d \in Days, d = day
          PROVE  Charged(d)' = Charged(d) \cup {r}
      <4>1. Counted(d)' = Counted(d) \cup {r} /\ Accepted(r)' /\ Counted(d) \subseteq Requests
            /\ r \notin Counted(d)
        BY <2>1, <3>1, ConsumeSets DEF Accepted, Counted
      <4>2. QED BY <2>1, <4>1, ConsumeSets DEF Charged
    <3>2. QED BY <1>1, <3>1
  <2>3. Charged(day) \in SUBSET Requests /\ LateRefunds(day) \in SUBSET Requests
    BY DEF Charged, Counted, LateRefunds, TakenBack
  <2>4. Cardinality(Charged(day)') <= Limit + Cardinality(LateRefunds(day)')
    BY <1>1 DEF BudgetBounded
  <2>5. Cardinality(Charged(day)) + 1 <= Limit + Cardinality(LateRefunds(day))
    BY <1>1, <1>2, <2>2, <2>3, <2>4, AddRequest
  <2>6. Cardinality(Charged(day)) < Limit + Cardinality(LateRefunds(day))
    BY <2>3, <2>5, RequestSets, AskBudgetAssumption
  <2>7. Cardinality(LateRefunds(day))' = Cardinality(LateRefunds(day))
    BY <1>2
  <2>8. Budget!Grant(r)
    BY <1>1, <2>2, <2>6, <2>7, SameCardinality DEF Budget!Grant
  <2>9. QED BY <2>8 DEF Budget!Next
<1>4. CASE ~Accepts(UsedToday + 1)
  <2>1. pc'[r] = "refused"
    BY <1>4 DEF Consume, RowsInv, TypeOK
  <2>2. ASSUME NEW d \in Days, d = day
        PROVE  Charged(d)' = Charged(d)
    <3>1. /\ Counted(d)' = Counted(d) \cup {r} /\ ~Accepted(r)' /\ Counted(d) \subseteq Requests
          /\ r \notin Counted(d)
      BY <2>1, <2>2, ConsumeSets DEF Accepted, Counted
    <3>2. QED BY <3>1, ConsumeSets DEF Charged
  <2>3. Charged(day)' = Charged(day)
    BY <1>1, <2>2
  <2>4. QED BY <1>1, <1>2, <2>3
<1>5. QED BY <1>3, <1>4

\* How today's questions change when r is finished, with or without a row to refund.
LEMMA HeldAfter ==
  ASSUME RowsInv, NEW r \in Requests, UNCHANGED <<day, opened>>, Accepted(r), Accepted(r)',
         ~Refunded(r),
         \A s \in Requests \ {r} : Refunded(s)' = Refunded(s) /\ Accepted(s)' = Accepted(s)
  PROVE  /\ Refunded(r)' => Charged(day)' = Charged(day) \ {r}
         /\ ~Refunded(r)' => Charged(day)' = Charged(day)
         /\ opened[r] = day <=> r \in Charged(day)
<1>1. Counted(day)' = Counted(day) /\ Counted(day) \subseteq Requests
  BY DEF Counted
<1>2. QED BY <1>1 DEF Charged, Counted

LEMMA FinishQuota ==
  ASSUME RowsInv, NEW r \in Requests, FinishLog(r)
  PROVE  Budget!Next \/ UNCHANGED <<day, Charged(day), Cardinality(LateRefunds(day))>>
<1>1. /\ day' = day /\ day \in Days /\ opened' = opened /\ ~Refunded(r)
      /\ opened[r] <= day /\ opened[r] \in Int /\ day \in Int
  BY DEF FinishLog, RowsInv, RequestInv, TypeOK, Days, Refunded
<1>2. /\ Refunded(r)' => Charged(day)' = Charged(day) \ {r}
      /\ ~Refunded(r)' => Charged(day)' = Charged(day)
      /\ opened[r] = day <=> r \in Charged(day)
  BY <1>1, HeldAfter, FinishSets
<1> DEFINE back == read[r].day = day /\ Refunds(r)
<1>3. TakenBack(day)' = IF back THEN TakenBack(day) \cup {r} ELSE TakenBack(day)
  <2>1. ASSUME NEW d \in Days, d = day
        PROVE  TakenBack(d)' = IF back THEN TakenBack(d) \cup {r} ELSE TakenBack(d)
    BY <2>1, FinishSets
  <2>2. QED BY <1>1, <2>1
<1>4. LateRefunds(day)' =
        IF back /\ opened[r] < day THEN LateRefunds(day) \cup {r} ELSE LateRefunds(day)
  BY <1>1, <1>3 DEF LateRefunds
<1>5. LateRefunds(day) \in SUBSET Requests /\ r \notin LateRefunds(day)
  BY <1>1 DEF LateRefunds, TakenBack
<1>6. CASE opened[r] = day /\ Refunded(r)'
  <2>1. LateRefunds(day)' = LateRefunds(day)
    BY <1>1, <1>4, <1>6
  <2>2. Budget!GiveBack(r)
    BY <1>1, <1>2, <1>6, <2>1 DEF Budget!GiveBack
  <2>3. QED BY <2>2 DEF Budget!Next
<1>7. CASE opened[r] # day /\ back
  <2>1. Charged(day)' = Charged(day)
    BY <1>2, <1>7
  <2>2. LateRefunds(day)' = LateRefunds(day) \cup {r}
    BY <1>1, <1>4, <1>7
  <2>3. Cardinality(LateRefunds(day)') = Cardinality(LateRefunds(day)) + 1
    BY <1>5, <2>2, AddRequest
  <2>4. Budget!GiveBackLate
    BY <1>1, <2>1, <2>3 DEF Budget!GiveBackLate
  <2>5. QED BY <2>4 DEF Budget!Next
<1>8. CASE (opened[r] = day /\ ~Refunded(r)') \/ (opened[r] # day /\ ~back)
  <2>1. Charged(day)' = Charged(day)
    BY <1>2, <1>8
  <2>2. LateRefunds(day)' = LateRefunds(day)
    BY <1>1, <1>4, <1>8
  <2>3. QED BY <1>1, <2>1, <2>2
<1>9. QED BY <1>6, <1>7, <1>8

LEMMA OtherQuota ==
  ASSUME RowsInv, NEW r \in Requests,
         StartLog(r) \/ Answer(r) \/ ReadBudget(r) \/ FinishWithoutRow(r) \/ Lose(r)
  PROVE  Budget!Next \/ UNCHANGED <<day, Charged(day), Cardinality(LateRefunds(day))>>
<1>1. day' = day /\ day \in Days /\ opened' = opened /\ ~Refunded(r)
  BY OtherSets DEF RowsInv, TypeOK, StartLog, Answer, ReadBudget, FinishWithoutRow, Lose, Open,
                   Refunded
<1>2. LateRefunds(day)' = LateRefunds(day)
  <2>1. \A d \in Days : LateRefunds(d)' = LateRefunds(d)
    BY OtherSets
  <2>2. TakenBack(day)' = TakenBack(day)
    <3>1. ASSUME NEW d \in Days, d = day PROVE TakenBack(d)' = TakenBack(d)
      BY OtherSets
    <3>2. QED BY <1>1, <3>1
  <2>3. QED BY <1>1, <2>2 DEF LateRefunds
<1>3. /\ Refunded(r)' => Charged(day)' = Charged(day) \ {r}
      /\ ~Refunded(r)' => Charged(day)' = Charged(day)
      /\ opened[r] = day <=> r \in Charged(day)
  BY <1>1, HeldAfter, OtherSets
<1>4. CASE Refunded(r)' /\ opened[r] = day
  <2>1. Budget!GiveBack(r)
    BY <1>1, <1>2, <1>3, <1>4 DEF Budget!GiveBack
  <2>2. QED BY <2>1 DEF Budget!Next
<1>5. CASE ~(Refunded(r)' /\ opened[r] = day)
  BY <1>1, <1>2, <1>3, <1>5
<1>6. QED BY <1>4, <1>5

LEMMA MidnightQuota ==
  ASSUME RowsInv, Midnight
  PROVE  Budget!Next
<1>1. day' = day + 1 /\ day' \in Days /\ day \in Int /\ UNCHANGED <<budget, pc, opened, outcome, read>>
  BY AskBudgetAssumption DEF Midnight, RowsInv, TypeOK, Days
<1>2. ASSUME NEW d \in Days, d = day'
      PROVE  /\ Charged(d) = {} /\ LateRefunds(d) = {}
             /\ Charged(d)' = Charged(d) /\ LateRefunds(d)' = LateRefunds(d)
  <2>1. Charged(d) = {} /\ LateRefunds(d) = {}
    BY <1>1, <1>2, NothingTomorrow
  <2>2. Charged(d)' = Charged(d) /\ LateRefunds(d)' = LateRefunds(d)
    BY <1>1 DEF Charged, Counted, Accepted, Refunded, LateRefunds, TakenBack
  <2>3. QED BY <2>1, <2>2
<1>3. Charged(day)' = {} /\ LateRefunds(day)' = {}
  BY <1>1, <1>2
<1>4. Cardinality(LateRefunds(day)') = 0
  BY <1>3, FS_EmptySet
<1>5. Budget!NewDay
  BY <1>1, <1>3, <1>4 DEF Budget!NewDay
<1>6. QED BY <1>5 DEF Budget!Next

(***************************************************************************)
(* agent/routes.py implements the daily quota: of today's questions no     *)
(* more than the limit count at once, a given back one makes room, and     *)
(* only questions of an earlier day given back late make room for more.    *)
(***************************************************************************)
THEOREM QuotaImplemented == Spec => ImplementsQuota
<1>1. Init => Budget!Init
  <2> SUFFICES ASSUME Init PROVE day = 1 /\ Charged(day) = {} /\ LateRefunds(day) = {}
    BY FS_EmptySet DEF Budget!Init
  <2>1. day = 1 /\ \A r \in Requests : opened[r] = 0 /\ pc[r] = "new"
    BY DEF Init
  <2>2. Counted(day) = {} /\ TakenBack(day) = {}
    BY <2>1 DEF Counted, TakenBack, Refunded
  <2>3. QED BY <2>1, <2>2 DEF Charged, LateRefunds
<1>2. RowsInv /\ BudgetBounded' /\ [Next]_vars =>
        [Budget!Next]_<<day, Charged(day), Cardinality(LateRefunds(day))>>
  <2> SUFFICES ASSUME RowsInv, BudgetBounded', [Next]_vars
               PROVE  [Budget!Next]_<<day, Charged(day), Cardinality(LateRefunds(day))>>
    OBVIOUS
  <2>1. ASSUME NEW r \in Requests, Request(r)
        PROVE  Budget!Next \/ UNCHANGED <<day, Charged(day), Cardinality(LateRefunds(day))>>
    BY <2>1, ConsumeQuota, FinishQuota, OtherQuota DEF Request
  <2>2. CASE Midnight
    BY <2>2, MidnightQuota
  <2>3. CASE UNCHANGED vars
    <3>1. day' = day /\ Charged(day)' = Charged(day) /\ LateRefunds(day)' = LateRefunds(day)
      BY <2>3 DEF vars, Charged, Counted, Accepted, Refunded, LateRefunds, TakenBack
    <3>2. QED BY <3>1
  <2>4. QED BY <2>1, <2>2, <2>3 DEF Next
<1>3. BudgetInv => RowsInv /\ BudgetBounded
  BY DEF BudgetInv
<1>4. QED BY <1>1, <1>2, <1>3, BudgetInvariant, PTL DEF Spec, ImplementsQuota, Budget!Spec

---------------------------------------------------------------------------
(* Sums over finite sets                                                   *)

\* Among some subsets of a finite set one contains no smaller one.
LEMMA SmallestSet ==
  ASSUME NEW S, IsFiniteSet(S), NEW T, T \subseteq SUBSET S, T # {}
  PROVE  \E m \in T : \A k \in T : k \subseteq m => k = m
<1>1. IsWellFoundedOn(StrictSubsetOrdering(S), FiniteSubsetsOf(S))
  BY FS_StrictSubsetOrderingWellFounded
<1>2. FiniteSubsetsOf(S) = SUBSET S
  BY FS_FiniteSubsetsOfFinite
<1>3. PICK m \in T : \A k \in T : ~(<<k, m>> \in StrictSubsetOrdering(S))
  BY <1>1, <1>2, WFMin
<1>4. \A k \in T : k \subseteq m => k = m
  <2>1. SUFFICES ASSUME NEW k \in T, k \subseteq m, k # m PROVE FALSE
    OBVIOUS
  <2>2. k \in SUBSET S /\ m \in SUBSET S
    OBVIOUS
  <2>3. <<k, m>> \in StrictSubsetOrdering(S)
    BY <2>1, <2>2 DEF StrictSubsetOrdering
  <2>4. QED BY <1>3, <2>1, <2>3
<1>5. QED BY <1>4

\* sum[s] is the sum of f over s: an empty sum is 0, and any element may be taken last.
IsSum(sum, f, S) ==
  /\ sum \in [SUBSET S -> Nat] /\ sum[{}] = 0
  /\ \A s \in SUBSET S : \A x \in s : sum[s] = f[x] + sum[s \ {x}]

LEMMA SumExists ==
  ASSUME NEW S, IsFiniteSet(S), NEW f, \A x \in S : f[x] \in Nat
  PROVE  \E sum : IsSum(sum, f, S)
<1> DEFINE T == {s \in SUBSET S : ~ \E sum : IsSum(sum, f, s)}
<1>1. SUFFICES ASSUME T # {} PROVE FALSE
  OBVIOUS
<1>2. PICK m \in T : \A k \in T : k \subseteq m => k = m
  <2> HIDE DEF T
  <2>1. T \subseteq SUBSET S
    BY DEF T
  <2>2. QED BY <1>1, <2>1, SmallestSet
<1>3. CASE m = {}
  <2> DEFINE t == [s \in SUBSET m |-> 0]
  <2>1. IsSum(t, f, m)
    BY <1>3 DEF IsSum
  <2>2. QED BY <2>1
<1>4. CASE m # {}
  <2>1. PICK y \in m : TRUE
    BY <1>4
  <2>2. m \ {y} \notin T /\ m \ {y} \in SUBSET S
    BY <1>2, <2>1
  <2>3. PICK t : IsSum(t, f, m \ {y})
    BY <2>2
  <2> DEFINE u == [s \in SUBSET m |-> t[s \ {y}] + (IF y \in s THEN f[y] ELSE 0)]
  <2>4. f[y] \in Nat /\ \A x \in m : f[x] \in Nat
    BY <2>1
  <2>5. \A s \in SUBSET m : s \ {y} \in SUBSET (m \ {y}) /\ t[s \ {y}] \in Nat
    BY <2>3 DEF IsSum
  <2>6. u \in [SUBSET m -> Nat]
    <3>1. \A s \in SUBSET m : t[s \ {y}] + (IF y \in s THEN f[y] ELSE 0) \in Nat
      BY <2>4, <2>5
    <3>2. QED BY <3>1
  <2>7. u[{}] = 0
    <3>1. {} \ {y} = {} /\ {} \in SUBSET m
      OBVIOUS
    <3>2. QED BY <2>3, <3>1 DEF IsSum
  <2>8. ASSUME NEW s \in SUBSET m, NEW x \in s
        PROVE  u[s] = f[x] + u[s \ {x}]
    <3>1. s \ {x} \in SUBSET m /\ s \in SUBSET m
      OBVIOUS
    <3>2. CASE x = y
      <4>1. y \in s /\ y \notin s \ {x} /\ (s \ {x}) \ {y} = s \ {y}
        BY <3>2
      <4>2. u[s] = t[s \ {y}] + f[y] /\ u[s \ {x}] = t[s \ {y}] + 0
        BY <3>1, <4>1
      <4>3. t[s \ {y}] \in Nat /\ f[x] \in Nat /\ f[x] = f[y]
        BY <2>4, <2>5, <3>1, <3>2
      <4> HIDE DEF u
      <4>4. QED BY <4>2, <4>3
    <3>3. CASE x # y
      <4>1. x \in s \ {y} /\ (s \ {x}) \ {y} = (s \ {y}) \ {x} /\ (y \in s <=> y \in s \ {x})
        BY <3>3
      <4>2. t[s \ {y}] = f[x] + t[(s \ {y}) \ {x}]
        BY <2>3, <2>5, <4>1 DEF IsSum
      <4>3. u[s] = t[s \ {y}] + (IF y \in s THEN f[y] ELSE 0)
            /\ u[s \ {x}] = t[(s \ {y}) \ {x}] + (IF y \in s THEN f[y] ELSE 0)
        BY <3>1, <4>1
      <4>4. t[s \ {y}] \in Nat /\ t[(s \ {y}) \ {x}] \in Nat /\ f[x] \in Nat
        BY <2>4, <2>5, <3>1, <4>1
      <4>5. QED BY <2>4, <4>2, <4>3, <4>4
    <3>4. QED BY <3>2, <3>3
  <2> HIDE DEF u
  <2>9. IsSum(u, f, m)
    BY <2>6, <2>7, <2>8 DEF IsSum
  <2>10. QED BY <2>9
<1>5. QED BY <1>3, <1>4

\* t takes some element last.
SumsUp(t, f, S) ==
  /\ t[{}] = 0
  /\ \A s \in SUBSET S : s # {} => \E x \in s : t[s] = f[x] + t[s \ {x}]

\* Summing up in whatever order comes to the same.
LEMMA SumUnique ==
  ASSUME NEW S, IsFiniteSet(S), NEW f, NEW sum, IsSum(sum, f, S),
         NEW t, SumsUp(t, f, S)
  PROVE  t[S] = sum[S]
<1> DEFINE T == {s \in SUBSET S : t[s] # sum[s]}
<1>1. SUFFICES ASSUME T # {} PROVE FALSE
  OBVIOUS
<1>2. PICK m \in T : \A k \in T : k \subseteq m => k = m
  <2> HIDE DEF T
  <2>1. T \subseteq SUBSET S
    BY DEF T
  <2>2. QED BY <1>1, <2>1, SmallestSet
<1>3. m # {} /\ m \in SUBSET S /\ t[m] # sum[m]
  BY DEF IsSum, SumsUp
<1>4. PICK x \in m : t[m] = f[x] + t[m \ {x}]
  BY <1>3 DEF SumsUp
<1>5. m \ {x} \in SUBSET S /\ t[m \ {x}] = sum[m \ {x}]
  BY <1>2, <1>3
<1>6. sum[m] = f[x] + sum[m \ {x}]
  BY <1>3 DEF IsSum
<1>7. QED BY <1>3, <1>4, <1>5, <1>6

---------------------------------------------------------------------------
(* The tokens of a day                                                     *)

\* TokensRecorded's sum over the outcomes o of the requests S.
Cost(o, S) ==
  MapThenFoldSet(+, 0, LAMBDA r : o[r].tokens, LAMBDA T : CHOOSE r \in T : TRUE, S)

\* The fold computes the sum.
LEMMA CostIsSum ==
  ASSUME NEW o, NEW S, IsFiniteSet(S), \A r \in S : o[r].tokens \in Nat,
         NEW sum, IsSum(sum, [r \in S |-> o[r].tokens], S)
  PROVE  Cost(o, S) = sum[S]
<1> DEFINE f == [r \in S |-> o[r].tokens]
           Picked(s) == CHOOSE r \in s : TRUE
           Step(t) == t = [s \in SUBSET S |->
                              IF s = {} THEN 0 ELSE o[Picked(s)].tokens + t[s \ {Picked(s)}]]
           iter == CHOOSE t : Step(t)
<1>1. Cost(o, S) = iter[S]
  BY DEF Cost, MapThenFoldSet
<1>2. \A s \in SUBSET S : s # {} => Picked(s) \in s
  OBVIOUS
<1>3. \A r \in S : f[r] = o[r].tokens
  OBVIOUS
<1> HIDE DEF Picked, f
<1>4. Step(sum)
  <2>1. sum = [s \in SUBSET S |-> sum[s]]
    BY DEF IsSum
  <2>2. ASSUME NEW s \in SUBSET S
        PROVE  sum[s] = IF s = {} THEN 0 ELSE o[Picked(s)].tokens + sum[s \ {Picked(s)}]
    <3>1. CASE s = {}
      BY <3>1 DEF IsSum
    <3>2. CASE s # {}
      BY <1>2, <1>3, <3>2 DEF IsSum, f
    <3>3. QED BY <3>1, <3>2
  <2>3. QED BY <2>1, <2>2
<1>5. Step(iter)
  BY <1>4
<1> HIDE DEF iter
<1>6. iter[{}] = 0
  BY <1>5
<1>7. SumsUp(iter, f, S)
  <2>1. \A s \in SUBSET S : s # {} => \E x \in s : iter[s] = f[x] + iter[s \ {x}]
    BY <1>2, <1>3, <1>5
  <2>2. QED BY <1>6, <2>1 DEF SumsUp
<1>8. IsSum(sum, f, S)
  BY DEF f
<1>9. iter[S] = sum[S]
  BY <1>7, <1>8, SumUnique
<1>10. QED BY <1>1, <1>9

\* One more request adds its tokens.
LEMMA CostOfOneMore ==
  ASSUME NEW o, NEW S, IsFiniteSet(S), NEW r, r \notin S,
         \A q \in S \cup {r} : o[q].tokens \in Nat
  PROVE  Cost(o, S \cup {r}) = Cost(o, S) + o[r].tokens /\ Cost(o, S) \in Nat
<1> DEFINE T == S \cup {r}
           f == [q \in T |-> o[q].tokens]
           g == [q \in S |-> o[q].tokens]
<1>1. IsFiniteSet(T)
  BY FS_AddElement
<1>2. \A q \in T : f[q] \in Nat
  OBVIOUS
<1>3. PICK sum : IsSum(sum, f, T)
  <2> HIDE DEF f, T
  <2> QED BY <1>1, <1>2, SumExists
<1>4. PICK part : IsSum(part, g, S)
  <2>1. \A q \in S : g[q] \in Nat
    OBVIOUS
  <2> HIDE DEF g
  <2>2. QED BY <2>1, SumExists
<1>5. Cost(o, T) = sum[T] /\ Cost(o, S) = part[S]
  <2>1. Cost(o, T) = sum[T]
    BY <1>1, <1>3, CostIsSum
  <2>2. Cost(o, S) = part[S]
    BY <1>4, CostIsSum
  <2>3. QED BY <2>1, <2>2
<1>6. T \ {r} = S /\ r \in T /\ f[r] = o[r].tokens /\ \A q \in S : g[q] = f[q]
  OBVIOUS
<1>7. sum[T] = f[r] + sum[S]
  <2> HIDE DEF f, T
  <2>1. T \in SUBSET T
    OBVIOUS
  <2>2. sum[T] = f[r] + sum[T \ {r}]
    BY <1>3, <1>6, <2>1 DEF IsSum
  <2>3. QED BY <1>6, <2>2
<1>8. sum[S] = part[S]
  <2>1. \A s \in SUBSET S : s \in SUBSET T
    OBVIOUS
  <2> HIDE DEF f, g, T
  <2>2. \A s \in SUBSET S : \A x \in s : sum[s] = f[x] + sum[s \ {x}]
    BY <1>3, <2>1 DEF IsSum
  <2>3. SumsUp(sum, g, S)
    <3>1. \A s \in SUBSET S : s # {} => \E x \in s : sum[s] = g[x] + sum[s \ {x}]
      BY <1>6, <2>2
    <3>2. QED BY <1>3, <3>1 DEF IsSum, SumsUp
  <2>4. QED BY <1>4, <2>3, SumUnique
<1>9. part[S] \in Nat
  BY <1>4 DEF IsSum
<1>10. QED BY <1>5, <1>6, <1>7, <1>8, <1>9

\* No request costs nothing.
LEMMA CostOfNone ==
  ASSUME NEW o
  PROVE  Cost(o, {}) = 0
<1> DEFINE f == [q \in {} |-> o[q].tokens]
<1>1. IsFiniteSet({}) /\ \A q \in {} : f[q] \in Nat
  BY FS_EmptySet
<1>2. PICK sum : IsSum(sum, f, {})
  <2> HIDE DEF f
  <2> QED BY <1>1, SumExists
<1>3. Cost(o, {}) = sum[{}]
  BY <1>1, <1>2, CostIsSum
<1>4. QED BY <1>2, <1>3 DEF IsSum

\* Only the outcomes of the requests themselves count.
LEMMA SameCost ==
  ASSUME NEW o, NEW p, NEW S, IsFiniteSet(S), \A r \in S : o[r].tokens \in Nat /\ p[r] = o[r]
  PROVE  Cost(p, S) = Cost(o, S)
<1> DEFINE f == [q \in S |-> o[q].tokens]
           g == [q \in S |-> p[q].tokens]
<1>1. f = g /\ \A q \in S : f[q] \in Nat /\ p[q].tokens \in Nat
  OBVIOUS
<1>2. PICK sum : IsSum(sum, f, S)
  <2> HIDE DEF f
  <2> QED BY <1>1, SumExists
<1>3. Cost(o, S) = sum[S]
  BY <1>2, CostIsSum
<1>4. Cost(p, S) = sum[S]
  BY <1>1, <1>2, CostIsSum
<1>5. QED BY <1>3, <1>4

\* The tokens day d's row holds.
TokensUsed(d) == IF budget[d] = None THEN 0 ELSE budget[d].tokens

LEMMA AccountedByDay ==
  TokensRecorded <=> \A d \in Days : TokensUsed(d) = Cost(outcome, RecordedOn(d))
BY DEF TokensRecorded, TokensUsed, Cost, RecordedOn

LEMMA AccountedNext ==
  (\A d \in Days : TokensUsed(d)' = Cost(outcome', RecordedOn(d)')) => TokensRecorded'
<1> SUFFICES ASSUME \A d \in Days : TokensUsed(d)' = Cost(outcome', RecordedOn(d)')
             PROVE  TokensRecorded'
  OBVIOUS
<1>1. (\A d \in Days : TokensUsed(d) = Cost(outcome, RecordedOn(d)))'
  BY DEF Days, Cost, MapThenFoldSet
<1>2. QED BY <1>1, AccountedByDay, PTL

LEMMA FinishedRequests ==
  ASSUME RowsInv, NEW d \in Days
  PROVE  /\ IsFiniteSet(RecordedOn(d))
         /\ \A r \in RecordedOn(d) : outcome[r] \in Outcomes /\ outcome[r].tokens \in Nat
<1>1. RecordedOn(d) \in SUBSET Requests
  BY DEF RecordedOn
<1>2. \A o \in Outcomes : o.tokens \in Nat
  BY OutcomeIsLogged DEF LogRow
<1>3. \A r \in RecordedOn(d) : outcome[r] \in Outcomes
  BY DEF RecordedOn, RowsInv, RequestInv
<1>4. QED BY <1>1, <1>2, <1>3, RequestSets

LEMMA AccountedInit == Init => TokensRecorded
<1> SUFFICES ASSUME Init, NEW d \in Days PROVE TokensUsed(d) = Cost(outcome, RecordedOn(d))
  BY AccountedByDay
<1>1. TokensUsed(d) = 0 /\ RecordedOn(d) = {}
  BY DEF Init, TokensUsed, RecordedOn
<1>2. QED BY <1>1, CostOfNone

\* A step that finishes no answer, and changes no finished one, accounts for nothing new.
LEMMA QuietTokens ==
  ASSUME RowsInv, TokensRecorded,
         \A d \in Days : TokensUsed(d)' = TokensUsed(d) /\ RecordedOn(d)' = RecordedOn(d),
         \A r \in Requests : pc[r] = "done" => outcome'[r] = outcome[r]
  PROVE  TokensRecorded'
<1>1. ASSUME NEW d \in Days PROVE TokensUsed(d)' = Cost(outcome', RecordedOn(d)')
  <2>1. \A r \in RecordedOn(d) : outcome'[r] = outcome[r]
    BY DEF RecordedOn
  <2>2. Cost(outcome', RecordedOn(d)) = Cost(outcome, RecordedOn(d))
    BY <2>1, FinishedRequests, SameCost
  <2>3. QED BY <2>2, AccountedByDay
<1>2. QED BY <1>1, AccountedNext

LEMMA FinishTokens ==
  ASSUME RowsInv, TokensRecorded, NEW r \in Requests, FinishLog(r)
  PROVE  TokensRecorded'
<1>1. /\ pc[r] = "finishing" /\ pc'[r] = "done"
      /\ \A s \in Requests \ {r} : pc'[s] = pc[s]
      /\ UNCHANGED <<day, opened, outcome, read>>
  BY DEF FinishLog, RowsInv, TypeOK
<1>2. /\ read[r] # None /\ read[r].day \in Days /\ budget[read[r].day] # None
      /\ read[r].tokens = budget[read[r].day].tokens
      /\ outcome[r] \in Outcomes
  BY <1>1, NoneAssumption DEF RowsInv, RequestInv, Read
<1>3. /\ r \notin RecordedOn(read[r].day)
      /\ RecordedOn(read[r].day)' = RecordedOn(read[r].day) \cup {r}
      /\ \A d \in Days \ {read[r].day} : RecordedOn(d)' = RecordedOn(d)
  BY <1>1, <1>2 DEF RecordedOn
<1>4. /\ \A d \in Days \ {read[r].day} : TokensUsed(d)' = TokensUsed(d)
      /\ TokensUsed(read[r].day)' = TokensUsed(read[r].day) + outcome[r].tokens
  <2>1. PICK row \in Row :
          /\ budget' = [budget EXCEPT ![read[r].day] = row]
          /\ row.tokens = budget[read[r].day].tokens + outcome[r].tokens
    <3> DEFINE row == [used   |-> IF Refunds(r) THEN read[r].used - 1 ELSE budget[read[r].day].used,
                       tokens |-> IF outcome[r].status = "ok"
                                  THEN read[r].tokens + outcome[r].tokens
                                  ELSE budget[read[r].day].tokens]
    <3>1. budget' = [budget EXCEPT ![read[r].day] = row]
      BY DEF FinishLog
    <3>2. outcome[r].status = "ok" \/ outcome[r].tokens = 0
      BY <1>2 DEF Outcomes
    <3>3. budget[read[r].day] \in Row /\ outcome[r].tokens \in Nat
      BY <1>1, <1>2, OutcomeIsLogged DEF RowsInv, RequestInv, LogRow
    <3>4. row.tokens = budget[read[r].day].tokens + outcome[r].tokens
      BY <1>2, <3>2, <3>3 DEF Row
    <3>5. PICK set \in Row : budget' = [budget EXCEPT ![read[r].day] = set]
      BY FinishRow
    <3>6. budget'[read[r].day] = row /\ budget'[read[r].day] = set
      BY <1>2, <3>1, <3>5 DEF RowsInv, TypeOK
    <3>7. QED BY <3>4, <3>5, <3>6
  <2>2. /\ budget'[read[r].day] = row /\ row # None
        /\ \A d \in Days \ {read[r].day} : budget'[d] = budget[d]
    BY <1>2, <2>1, NoneAssumption DEF RowsInv, TypeOK
  <2>3. \A d \in Days \ {read[r].day} : TokensUsed(d)' = TokensUsed(d)
    BY <2>2 DEF TokensUsed
  <2>4. TokensUsed(read[r].day)' = row.tokens
    <3>1. TokensUsed(read[r].day)' = IF budget'[read[r].day] = None THEN 0
                                     ELSE budget'[read[r].day].tokens
      BY <1>1 DEF TokensUsed
    <3>2. QED BY <2>2, <3>1
  <2>5. TokensUsed(read[r].day) = budget[read[r].day].tokens
    BY <1>2 DEF TokensUsed
  <2>6. QED BY <2>1, <2>3, <2>4, <2>5
<1>5. ASSUME NEW d \in Days PROVE TokensUsed(d)' = Cost(outcome', RecordedOn(d)')
  <2>1. TokensUsed(d) = Cost(outcome, RecordedOn(d))
    BY AccountedByDay
  <2>2. CASE d = read[r].day
    <3>1. \A q \in RecordedOn(d) \cup {r} : outcome[q].tokens \in Nat
      BY <1>2, FinishedRequests, OutcomeIsLogged DEF LogRow
    <3>2. Cost(outcome, RecordedOn(d) \cup {r}) = Cost(outcome, RecordedOn(d)) + outcome[r].tokens
      BY <1>3, <2>2, <3>1, FinishedRequests, CostOfOneMore
    <3>3. QED BY <1>1, <1>3, <1>4, <2>1, <2>2, <3>2
  <2>3. CASE d # read[r].day
    BY <1>1, <1>3, <1>4, <2>1, <2>3
  <2>4. QED BY <2>2, <2>3
<1>6. QED BY <1>5, AccountedNext

LEMMA AccountedStep == TokensRecorded /\ RowsInv /\ [Next]_vars => TokensRecorded'
<1> SUFFICES ASSUME TokensRecorded, RowsInv, [Next]_vars PROVE TokensRecorded'
  OBVIOUS
<1>1. ASSUME NEW r \in Requests, Consume(r) PROVE TokensRecorded'
  <2>1. /\ pc[r] = "new" /\ pc'[r] # "done" /\ \A s \in Requests \ {r} : pc'[s] = pc[s]
        /\ UNCHANGED <<outcome, read>>
    BY <1>1 DEF Consume, RowsInv, TypeOK
  <2>2. \A d \in Days : RecordedOn(d)' = RecordedOn(d)
    BY <2>1 DEF RecordedOn
  <2>3. \A d \in Days : TokensUsed(d)' = TokensUsed(d)
    <3> DEFINE row == IF budget[day] = None THEN [used |-> 1, tokens |-> 0]
                      ELSE [used |-> budget[day].used + 1, tokens |-> budget[day].tokens]
    <3>1. budget' = [budget EXCEPT ![day] = row] /\ day \in Days
      BY <1>1 DEF Consume, RowsInv, TypeOK
    <3>2. row # None
      <4>1. budget[day] # None => budget[day] \in Row
        BY <3>1 DEF RowsInv, TypeOK
      <4>2. row \in Row
        BY <4>1 DEF Row
      <4>3. QED BY <4>2, NoneAssumption
    <3>3. row.tokens = TokensUsed(day)
      BY DEF TokensUsed
    <3> HIDE DEF row
    <3>4. budget'[day] = row /\ \A d \in Days \ {day} : budget'[d] = budget[d]
      BY <3>1 DEF RowsInv, TypeOK
    <3>5. QED BY <3>2, <3>3, <3>4 DEF TokensUsed
  <2>4. QED BY <2>1, <2>2, <2>3, QuietTokens
<1>2. ASSUME NEW r \in Requests,
             StartLog(r) \/ Answer(r) \/ ReadBudget(r) \/ FinishWithoutRow(r) \/ Lose(r)
      PROVE  TokensRecorded'
  <2>1. /\ budget' = budget /\ pc[r] # "done"
        /\ pc'[r] = "done" => read'[r] = None
        /\ \A s \in Requests \ {r} : UNCHANGED <<pc[s], outcome[s], read[s]>>
    BY <1>2 DEF StartLog, Answer, ReadBudget, FinishWithoutRow, Lose, RowsInv, TypeOK,
                RequestInv, Open
  <2>2. \A d \in Days : TokensUsed(d)' = TokensUsed(d)
    BY <2>1 DEF TokensUsed
  <2>3. \A d \in Days : RecordedOn(d)' = RecordedOn(d)
    BY <2>1 DEF RecordedOn
  <2>4. QED BY <2>1, <2>2, <2>3, QuietTokens
<1>3. CASE Midnight \/ UNCHANGED vars
  <2>1. UNCHANGED <<budget, pc, outcome, read>>
    BY <1>3 DEF Midnight, vars
  <2>2. QED BY <2>1, QuietTokens DEF TokensUsed, RecordedOn
<1>4. QED BY <1>1, <1>2, <1>3, FinishTokens DEF Next, Request

\* Who was counted has a row of that day, and who finished without a row was counted before.
CountedInv ==
  /\ \A r \in Requests : opened[r] # 0 => budget[opened[r]] # None
  /\ \A r \in Unrecorded : opened[r] < day

LEMMA CountedInit == Init => CountedInv
  BY DEF Init, CountedInv, Unrecorded

LEMMA CountedStep == CountedInv /\ RowsInv /\ [Next]_vars => CountedInv'
<1> SUFFICES ASSUME CountedInv, RowsInv, [Next]_vars PROVE CountedInv'
  OBVIOUS
<1>1. day \in Nat /\ \A r \in Requests : opened[r] \in Nat /\ opened[r] <= day
      /\ (opened[r] # 0 => opened[r] \in Days)
  BY AskBudgetAssumption DEF RowsInv, RequestInv, TypeOK, Days
<1>2. ASSUME NEW r \in Requests, Consume(r) PROVE CountedInv'
  <2>1. PICK row \in Row : budget' = [budget EXCEPT ![day] = row]
    <3> DEFINE row == IF budget[day] = None THEN [used |-> 1, tokens |-> 0]
                      ELSE [used |-> budget[day].used + 1, tokens |-> budget[day].tokens]
    <3>1. day \in Days /\ (budget[day] # None => budget[day] \in Row)
      BY DEF RowsInv, TypeOK
    <3>2. row \in Row
      BY <3>1 DEF Row
    <3>3. budget' = [budget EXCEPT ![day] = row]
      BY <1>2 DEF Consume
    <3>4. QED BY <3>2, <3>3
  <2>2. /\ day' = day /\ opened' = [opened EXCEPT ![r] = day] /\ read' = read
        /\ pc'[r] # "done" /\ \A s \in Requests \ {r} : pc'[s] = pc[s]
    BY <1>2 DEF Consume, RowsInv, TypeOK
  <2>3. budget'[day] # None /\ \A d \in Days : budget[d] # None => budget'[d] # None
    BY <2>1, NoneAssumption DEF RowsInv, TypeOK
  <2>4. \A s \in Requests : opened'[s] # 0 => budget'[opened'[s]] # None
    BY <1>1, <2>2, <2>3 DEF CountedInv, RowsInv, TypeOK
  <2>5. \A s \in Unrecorded' : s \in Unrecorded /\ opened'[s] = opened[s]
    BY <2>2 DEF Unrecorded, RowsInv, TypeOK
  <2>6. QED BY <2>2, <2>4, <2>5 DEF CountedInv
<1>3. ASSUME NEW r \in Requests, StartLog(r) \/ Answer(r) \/ ReadBudget(r) \/ Lose(r) PROVE CountedInv'
  <2>1. UNCHANGED <<budget, opened, day>>
    BY <1>3 DEF StartLog, Answer, ReadBudget, Lose
  <2>2. /\ pc'[r] # "done"
        /\ \A s \in Requests \ {r} : pc'[s] = pc[s] /\ read'[s] = read[s]
    BY <1>3 DEF StartLog, Answer, ReadBudget, Lose, RowsInv, TypeOK
  <2>3. Unrecorded' \subseteq Unrecorded
    BY <2>2 DEF Unrecorded
  <2>4. QED BY <2>1, <2>3 DEF CountedInv
<1>4. ASSUME NEW r \in Requests, FinishLog(r) PROVE CountedInv'
  <2>1. PICK row \in Row : budget' = [budget EXCEPT ![read[r].day] = row]
    BY <1>4, FinishRow
  <2>2. /\ UNCHANGED <<opened, day, read>> /\ read[r] # None
        /\ \A s \in Requests \ {r} : pc'[s] = pc[s]
    BY <1>4 DEF FinishLog, RowsInv, RequestInv, TypeOK
  <2>3. \A d \in Days : budget[d] # None => budget'[d] # None
    BY <2>1, NoneAssumption DEF RowsInv, TypeOK
  <2>4. Unrecorded' \subseteq Unrecorded
    BY <2>2 DEF Unrecorded
  <2>5. QED BY <1>1, <2>2, <2>3, <2>4 DEF CountedInv
<1>5. ASSUME NEW r \in Requests, FinishWithoutRow(r) PROVE CountedInv'
  <2>1. /\ UNCHANGED <<budget, opened, day, read>> /\ budget[day] = None
        /\ pc[r] = "ended" /\ \A s \in Requests \ {r} : pc'[s] = pc[s]
    BY <1>5 DEF FinishWithoutRow, RowsInv, TypeOK
  <2>2. opened[r] # 0
    BY <2>1 DEF RowsInv, RequestInv
  <2>3. opened[r] # day
    BY <2>1, <2>2 DEF CountedInv
  <2>4. opened[r] < day
    BY <1>1, <2>3
  <2>5. Unrecorded' \subseteq Unrecorded \cup {r}
    BY <2>1 DEF Unrecorded
  <2>6. QED BY <2>1, <2>4, <2>5 DEF CountedInv
<1>6. CASE Midnight
  <2>1. day' = day + 1 /\ UNCHANGED <<budget, pc, opened, read>>
    BY <1>6 DEF Midnight
  <2>2. Unrecorded' = Unrecorded /\ Unrecorded \subseteq Requests
    BY <2>1 DEF Unrecorded
  <2>3. QED BY <1>1, <2>1, <2>2 DEF CountedInv
<1>7. CASE UNCHANGED vars
  BY <1>7 DEF vars, CountedInv, Unrecorded
<1>8. QED BY <1>2, <1>3, <1>4, <1>5, <1>6, <1>7 DEF Next, Request

(***************************************************************************)
(* agent/routes.py:117-129: whatever the requests of a visitor do in       *)
(* between, and in whatever order they finish, a day's tokens_used is the  *)
(* sum over the answers finished on its row: none is lost to a request     *)
(* that wrote back an older count, and none is counted twice.  An answer   *)
(* is on no row only if its question was open at midnight.                 *)
(***************************************************************************)
THEOREM TokensAreAccounted == Spec => []TokensAccounted
<1>1. TokensRecorded /\ CountedInv => TokensAccounted
  BY DEF TokensAccounted, CountedInv
<1>2. QED BY RowsInit, RowsNext, AccountedInit, AccountedStep, CountedInit, CountedStep, <1>1, PTL DEF Spec
=============================================================================
