----------------------------- MODULE AskBudget -----------------------------
(***************************************************************************)
(* POST /api/ask for one visitor (agent/routes.py): requests served by     *)
(* concurrent threads, each counted against the visitor's row of the day,  *)
(* logged as pending, answered by the agent, and finished with its outcome *)
(* in one more transaction that may give the question back.  What the      *)
(* agent does is one step with an outcome.  Visitors share no row, so one  *)
(* visitor is enough.                                                      *)
(***************************************************************************)
EXTENDS Integers, FiniteSets, Folds

CONSTANTS
  Requests,        \* the visitor's POST /api/ask requests
  Limit,           \* ask_questions_per_visitor_per_day
  Tokens,          \* what an answer may cost
  MaxDays,         \* bound: days on the clock
  None             \* Python's None

Days == 1..MaxDays

ASSUME AskBudgetAssumption ==
  /\ IsFiniteSet(Requests)
  /\ Limit \in Nat
  /\ Tokens \subseteq Nat
  /\ MaxDays \in Nat \ {0}

Row  == [used : Nat, tokens : Nat]
Read == [day : Days, used : Nat, tokens : Nat]

ASSUME NoneAssumption ==
  None \notin Row /\ None \notin Read /\ None \notin [status : STRING, tokens : Nat]

VARIABLES
  day,       \* the date, UTC
  budget,    \* the visitor's VisitorBudget row per day, None where there is none
  log,       \* the AskLog row per request, None where there is none
  pc,        \* where a request is
  opened,    \* the day a request was counted on, 0 before
  outcome,   \* what the agent returned or raised
  read       \* the row _finish_log holds locked, with its day

vars == <<day, budget, log, pc, opened, outcome, read>>

Steps    == {"new", "refused", "counted", "running", "ended", "finishing", "done", "lost"}
Open     == {"counted", "running", "ended", "finishing"}
Outcomes == [status : {"ok"}, tokens : Tokens]
              \cup [status : {"budget", "error"}, tokens : {0}]
LogRow   == [status : {"pending", "ok", "budget", "error"}, tokens : Nat]

---------------------------------------------------------------------------
(* _consume_question                                                       *)

\* Mutant of RowFree: the row is read without FOR UPDATE.
NoRowLock(d) == TRUE

\* Nobody holds the row of day d locked.
RowFree(d) == \A r \in Requests : ~(pc[r] = "finishing" /\ read[r].day = d)

\* Mutant of Accepts: the comparison is off by one.
AcceptsOneMore(count) == count <= Limit + 1

Accepts(count) == count <= Limit

UsedToday == IF budget[day] = None THEN 0 ELSE budget[day].used

\* The upsert that counts the request, and the comparison with the limit.
Consume(r) ==
  /\ pc[r] = "new"
  /\ RowFree(day)
  /\ budget' = [budget EXCEPT ![day] =
       IF @ = None THEN [used |-> 1, tokens |-> 0]
       ELSE [used |-> @.used + 1, tokens |-> @.tokens]]
  /\ opened' = [opened EXCEPT ![r] = day]
  /\ pc' = [pc EXCEPT ![r] = IF Accepts(UsedToday + 1) THEN "counted" ELSE "refused"]
  /\ UNCHANGED <<day, log, outcome, read>>

---------------------------------------------------------------------------
(* The rest of an accepted request                                         *)

StartLog(r) ==
  /\ pc[r] = "counted"
  /\ log' = [log EXCEPT ![r] = [status |-> "pending", tokens |-> 0]]
  /\ pc' = [pc EXCEPT ![r] = "running"]
  /\ UNCHANGED <<day, budget, opened, outcome, read>>

\* answer_question returns an answer, raises LlmBudgetExceeded, or raises.
Answer(r) ==
  /\ pc[r] = "running"
  /\ \E o \in Outcomes : outcome' = [outcome EXCEPT ![r] = o]
  /\ pc' = [pc EXCEPT ![r] = "ended"]
  /\ UNCHANGED <<day, budget, log, opened, read>>

\* _finish_log: SELECT ... FOR UPDATE of the row of the day it is by now.
ReadBudget(r) ==
  /\ pc[r] = "ended"
  /\ budget[day] # None /\ RowFree(day)
  /\ read' = [read EXCEPT ![r] = [day |-> day, used |-> budget[day].used,
                                  tokens |-> budget[day].tokens]]
  /\ pc' = [pc EXCEPT ![r] = "finishing"]
  /\ UNCHANGED <<day, budget, log, opened, outcome>>

\* Mutants of Refunds: errors are given back too, and a count of 0 is not looked at.
RefundsErrors(r) == outcome[r].status \in {"budget", "error"} /\ read[r].used > 0
RefundsAlways(r) == outcome[r].status = "budget"

Refunds(r) == outcome[r].status = "budget" /\ read[r].used > 0

Logged(r) == [log EXCEPT ![r] = outcome[r]]

\* ... and its commit.  Only the columns that changed are written.
FinishLog(r) ==
  /\ pc[r] = "finishing"
  /\ log' = Logged(r)
  /\ budget' = [budget EXCEPT ![read[r].day] =
       [used   |-> IF Refunds(r) THEN read[r].used - 1 ELSE @.used,
        tokens |-> IF outcome[r].status = "ok"
                   THEN read[r].tokens + outcome[r].tokens ELSE @.tokens]]
  /\ pc' = [pc EXCEPT ![r] = "done"]
  /\ UNCHANGED <<day, opened, outcome, read>>

\* _finish_log on a day the visitor has no row yet: only the log is written.
FinishWithoutRow(r) ==
  /\ pc[r] = "ended"
  /\ budget[day] = None
  /\ log' = Logged(r)
  /\ pc' = [pc EXCEPT ![r] = "done"]
  /\ UNCHANGED <<day, budget, opened, outcome, read>>

\* The process dies, or the database refuses the request's next transaction.
Lose(r) ==
  /\ pc[r] \in Open
  /\ pc' = [pc EXCEPT ![r] = "lost"]
  /\ UNCHANGED <<day, budget, log, opened, outcome, read>>

Midnight ==
  /\ day < MaxDays
  /\ day' = day + 1
  /\ UNCHANGED <<budget, log, pc, opened, outcome, read>>

---------------------------------------------------------------------------
Init ==
  /\ day = 1
  /\ budget = [d \in Days |-> None]
  /\ log = [r \in Requests |-> None]
  /\ pc = [r \in Requests |-> "new"]
  /\ opened = [r \in Requests |-> 0]
  /\ outcome = [r \in Requests |-> None]
  /\ read = [r \in Requests |-> None]

Request(r) ==
  \/ Consume(r) \/ StartLog(r) \/ Answer(r)
  \/ ReadBudget(r) \/ FinishLog(r) \/ FinishWithoutRow(r) \/ Lose(r)

Next == Midnight \/ \E r \in Requests : Request(r)

Spec == Init /\ [][Next]_vars

---------------------------------------------------------------------------
(* Properties                                                              *)

\* The rows and the requests are of their types.
TypeOK ==
  /\ day \in Days
  /\ budget \in [Days -> Row \cup {None}]
  /\ log \in [Requests -> LogRow \cup {None}]
  /\ pc \in [Requests -> Steps]
  /\ opened \in [Requests -> 0..MaxDays]
  /\ outcome \in [Requests -> Outcomes \cup {None}]
  /\ read \in [Requests -> Read \cup {None}]

Used(d)     == IF budget[d] = None THEN 0 ELSE budget[d].used
Counted(d)  == {r \in Requests : opened[r] = d}
Refunded(r) == pc[r] = "done" /\ outcome[r].status = "budget"
Accepted(r) == pc[r] \notin {"new", "refused"}

\* The questions of day d that were let through and not given back.
Charged(d) == {r \in Counted(d) : Accepted(r) /\ ~Refunded(r)}

\* The requests that took their question back from day d's row.
TakenBack(d) ==
  {r \in Requests : Refunded(r) /\ read[r] # None /\ read[r].day = d /\ read[r].used > 0}

\* ... and were counted on an earlier day.
LateRefunds(d) == {r \in TakenBack(d) : opened[r] < d}

(***************************************************************************)
(* routes.py:65-66: "concurrent requests from one visitor cannot slip past *)
(* the limit together": a day never has more than Limit questions let      *)
(* through and not given back.                                             *)
(***************************************************************************)
BudgetEnforced == \A d \in Days : Cardinality(Charged(d)) <= Limit

(***************************************************************************)
(* What holds instead, however the requests' steps interleave: a question  *)
(* that was open at midnight and is given back is taken from the next      *)
(* day's row, and lets the visitor through once more that day.             *)
(***************************************************************************)
BudgetBounded ==
  \A d \in Days : Cardinality(Charged(d)) <= Limit + Cardinality(LateRefunds(d))

(***************************************************************************)
(* The counter is exact although _finish_log reads it and writes it back:  *)
(* questions_used is the number of requests counted on the day, refused    *)
(* ones included, without those taken back from it.                        *)
(***************************************************************************)
UsedIsExact ==
  \A d \in Days : Used(d) = Cardinality(Counted(d)) - Cardinality(TakenBack(d))

\* The answers finished on the row of day d, and those finished on a day without one.
RecordedOn(d) == {r \in Requests : pc[r] = "done" /\ read[r] # None /\ read[r].day = d}
Unrecorded == {r \in Requests : pc[r] = "done" /\ read[r] = None}

\* tokens_used of a day is the sum over the answers finished on its row.
TokensRecorded ==
  \A d \in Days :
    (IF budget[d] = None THEN 0 ELSE budget[d].tokens) =
      MapThenFoldSet(+, 0, LAMBDA r : outcome[r].tokens, LAMBDA S : CHOOSE r \in S : TRUE, RecordedOn(d))

(***************************************************************************)
(* Where an answer's tokens go: to the row of the day it was finished on,  *)
(* once, although _finish_log reads the row and writes it back; and to no  *)
(* row at all (routes.py:124-125) where the visitor has none that day,     *)
(* which happens only to a question that was open at midnight.             *)
(***************************************************************************)
TokensAccounted == TokensRecorded /\ \A r \in Unrecorded : opened[r] < day

\* The upsert, the log and the refund together keep the visitor's daily quota.
Budget == INSTANCE Quota WITH held <- Charged(day), late <- Cardinality(LateRefunds(day))
ImplementsQuota == Budget!Spec
=============================================================================
