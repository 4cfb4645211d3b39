----------------------------- MODULE AskClient -----------------------------
(***************************************************************************)
(* The "Ask the data" section (components/AskSection.tsx): one question at *)
(* a time, sixty seconds for an answer, and requests that outlive the      *)
(* component, which the article's failure takes off the page.              *)
(***************************************************************************)
EXTENDS UseApi

CONSTANTS
  Questions,    \* what a reader asks, trimmed and cut
  Blank,        \* a question of spaces only
  MaxAsks       \* bound: questions sent

ASSUME AskClientAssumption == Blank \notin Questions /\ MaxAsks \in Nat

VARIABLES
  mount,     \* the number of the mounted section, and whether it is mounted
  asked,     \* what it shows: the state of AskSection
  current,   \* controllerRef: the number of the last request, None before
  sent,      \* the requests whose promise has not settled
  asks       \* requests sent so far

askVars == <<mount, asked, current, sent, asks>>

Idle == [status |-> "idle", question |-> None]
Asks == [n : 1..MaxAsks, of : Nat, question : Questions, aborted : BOOLEAN]

AskTypeOK ==
  /\ mount \in [n : Nat, on : BOOLEAN]
  /\ asked \in [status : {"idle", "pending", "answer", "error"}, question : Questions \cup {None}]
  /\ current \in 1..MaxAsks \cup {None}
  /\ sent \subseteq Asks
  /\ asks \in 0..MaxAsks

AskInit ==
  /\ mount = [n |-> 1, on |-> TRUE]
  /\ asked = Idle /\ current = None /\ sent = {} /\ asks = 0

Pending == mount.on /\ asked.status = "pending"

\* Those of the requests in set whose signal aborts with controller n.
AbortAsk(n) == {IF r.n = n THEN [r EXCEPT !.aborted = TRUE] ELSE r : r \in sent}

\* submit: a blank text or a question on its way sends nothing.
Submit(q) ==
  /\ mount.on /\ asked.status # "pending" /\ q # Blank
  /\ asks < MaxAsks
  /\ asks' = asks + 1 /\ current' = asks'
  /\ sent' = AbortAsk(current) \cup
       {[n |-> asks', of |-> mount.n, question |-> q, aborted |-> FALSE]}
  /\ asked' = [status |-> "pending", question |-> q]
  /\ UNCHANGED mount

\* setState of the section that sent r; on one that has left the page it does nothing.
Show(r, status) ==
  IF mount.on /\ r.of = mount.n THEN [status |-> status, question |-> r.question] ELSE asked

\* The response: an answer to an aborted request is dropped.
AskAnswered(r) ==
  /\ r \in sent
  /\ sent' = sent \ {r}
  /\ asked' = IF r.aborted THEN asked ELSE Show(r, "answer")
  /\ UNCHANGED <<mount, current, asks>>

\* Mutant of AskRejected: an abort is never reported.
AskRejectedQuietly(r) ==
  /\ r \in sent
  /\ sent' = sent \ {r}
  /\ asked' = IF r.aborted \/ current # r.n THEN asked ELSE Show(r, "error")
  /\ UNCHANGED <<mount, current, asks>>

\* The request failed or was aborted: reported by the request that is still the last.
AskRejected(r) ==
  /\ r \in sent
  /\ sent' = sent \ {r}
  /\ asked' = IF current # r.n THEN asked ELSE Show(r, "error")
  /\ UNCHANGED <<mount, current, asks>>

\* ASK_TIMEOUT_MS are over; the timer is cleared when the promise settles.
AskTimeout(r) ==
  /\ r \in sent /\ ~r.aborted
  /\ sent' = AbortAsk(r.n)
  /\ UNCHANGED <<mount, asked, current, asks>>

\* Mutant of AskUnmount: the section leaves without its cleanup.
AskUnmountOnly ==
  /\ mount' = [mount EXCEPT !.on = FALSE]
  /\ UNCHANGED <<asked, current, sent, asks>>

\* The section leaves the page: its cleanup aborts the last request.
AskUnmount ==
  /\ mount' = [mount EXCEPT !.on = FALSE]
  /\ sent' = AbortAsk(current)
  /\ UNCHANGED <<asked, current, asks>>

\* A new section: nothing of the old one's state is left.
AskMount ==
  /\ mount' = [n |-> mount.n + 1, on |-> TRUE]
  /\ asked' = Idle /\ current' = None
  /\ UNCHANGED <<sent, asks>>

\* The document is loaded again.
AskReload ==
  /\ mount' = [n |-> mount.n + 1, on |-> TRUE]
  /\ asked' = Idle /\ current' = None /\ sent' = {}
  /\ UNCHANGED asks

---------------------------------------------------------------------------
(***************************************************************************)
(* Every question costs the visitor one of the day's: at most one request  *)
(* that was not given up is on its way, and it is the one the page shows   *)
(* as pending, even after the section left and came back.                  *)
(***************************************************************************)
OneLiveQuestion ==
  \A r \in sent : ~r.aborted =>
    Pending /\ asked.question = r.question /\ current = r.n /\ r.of = mount.n
=============================================================================
