------------------------------- MODULE UseApi -------------------------------
(***************************************************************************)
(* The hook useApi (lib/useApi.ts) without its React: what it shows, the   *)
(* requests it has sent and not heard of, and what an effect and a         *)
(* response do to both.  A component keeps one such pair per use.          *)
(***************************************************************************)
EXTENDS Integers, Sequences, FiniteSets

CONSTANT None        \* JavaScript's null and undefined

\* A request of the hook: what it asks for, and its controller's signal.
Request(query) == [query |-> query, aborted |-> FALSE]

Loading    == [status |-> "loading", data |-> None]
Loaded(d)  == [status |-> "ok", data |-> d]
LoadFailed == [status |-> "error", data |-> None]

\* The cleanup of the last effect: its controller aborts.
Aborting(requests) == {[r EXCEPT !.aborted = TRUE] : r \in requests}

\* The effect for a query: the cleanup, then one request more.
Asking(requests, query) == Aborting(requests) \cup {Request(query)}

\* Mutant of Settled: the signal is not looked at.
SettledAnyway(view, r, result) == result

\* What is shown once r has settled with result.
Settled(view, r, result) == IF r.aborted THEN view ELSE result
=============================================================================
