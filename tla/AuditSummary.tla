---------------------------- MODULE AuditSummary ----------------------------
(***************************************************************************)
(* GET /api/audit-summary: five queries over audit_logs, one after the     *)
(* other and in no transaction, while requests append to it.  What they    *)
(* share is the time they count from.                                      *)
(***************************************************************************)
EXTENDS Integers, Sequences, FiniteSetsExt

CONSTANTS
  Actors, Kinds,  \* who writes, and on what
  DefaultHours,   \* the window in place of none (24)
  MaxHours,       \* the longest window (24 * 90)
  AskedHours,     \* the windows readers ask for
  Lag,            \* bound: how long ago an entry being committed was stamped
  MaxTime, MaxEntries  \* bounds on the clock and on the table

ASSUME AuditSummaryAssumption ==
  /\ IsFiniteSet(Kinds)
  /\ MaxHours \in Nat /\ DefaultHours \in 1..MaxHours /\ AskedHours \subseteq Int
  /\ Lag \in Nat /\ MaxTime \in Nat /\ MaxEntries \in Nat

\* The actions the summary tells apart.
Actions == {"transition", "other"}

Entry == [stamp : 0..MaxTime, action : Actions, kind : Kinds, actor : Actors]

VARIABLES
  log,     \* audit_logs
  now,     \* the hour
  query,   \* the next query, or "idle"
  hours, since,  \* the window asked for, and the time it begins
  summary

vars == <<log, now, query, hours, since, summary>>

NoSummary ==
  [total |-> 0, transitions |-> 0, actors |-> 0,
   actions |-> [a \in Actions |-> 0], kinds |-> [k \in Kinds |-> 0]]

Init ==
  /\ log = <<>> /\ now = 0
  /\ query = "idle" /\ hours = DefaultHours /\ since = 0
  /\ summary = NoSummary

\* AuditSummaryQuery.Window, and the service behind it, which finds nothing left
\* to do.
Window(asked) ==
  IF asked < 1 THEN DefaultHours ELSE IF asked > MaxHours THEN MaxHours ELSE asked

Begin ==
  /\ query = "idle"
  /\ \E asked \in AskedHours : hours' = Window(asked) /\ since' = now - Window(asked)
  /\ query' = "total"
  /\ UNCHANGED <<log, now, summary>>

\* Mutant: each query takes the time anew.
SinceAnew == now - hours

Since == since

\* The condition the five queries share: created_at >= since.
InWindow == {i \in DOMAIN log : log[i].stamp >= Since}

\* The five queries in their order.  The last answers the request.
Total ==
  /\ query = "total" /\ query' = "transitions"
  /\ summary' = [summary EXCEPT !.total = Cardinality(InWindow)]

Transitions ==
  /\ query = "transitions" /\ query' = "actors"
  /\ summary' = [summary EXCEPT !.transitions =
       Cardinality({i \in InWindow : log[i].action = "transition"})]

UniqueActors ==
  /\ query = "actors" /\ query' = "actions"
  /\ summary' = [summary EXCEPT !.actors = Cardinality({log[i].actor : i \in InWindow})]

ByAction ==
  /\ query = "actions" /\ query' = "kinds"
  /\ summary' = [summary EXCEPT !.actions =
       [a \in Actions |-> Cardinality({i \in InWindow : log[i].action = a})]]

ByKind ==
  /\ query = "kinds" /\ query' = "answered"
  /\ summary' = [summary EXCEPT !.kinds =
       [k \in Kinds |-> Cardinality({i \in InWindow : log[i].kind = k})]]

SummarizeAudits ==
  /\ Total \/ Transitions \/ UniqueActors \/ ByAction \/ ByKind
  /\ UNCHANGED <<log, now, hours, since>>

\* A query fails, or the answer has been read.
End ==
  /\ query # "idle"
  /\ query' = "idle" /\ summary' = NoSummary
  /\ UNCHANGED <<log, now, hours, since>>

\* A write commits with its entry, stamped when newAuditLog made it.
Commit(stamp, action, kind, actor) ==
  /\ Len(log) < MaxEntries
  /\ log' = Append(log, [stamp |-> stamp, action |-> action, kind |-> kind, actor |-> actor])
  /\ UNCHANGED <<now, query, hours, since, summary>>

Tick ==
  /\ now < MaxTime /\ now' = now + 1
  /\ UNCHANGED <<log, query, hours, since, summary>>

Next ==
  \/ Begin \/ SummarizeAudits \/ End \/ Tick
  \/ \E stamp \in Max({0, now - Lag})..now, action \in Actions, kind \in Kinds, actor \in Actors :
       Commit(stamp, action, kind, actor)

Spec == Init /\ [][Next]_vars

-----------------------------------------------------------------------------
SumOver(f, S) == MapThenSumSet(LAMBDA x : f[x], S)

\* The figures of an answer fit together, although each is of its own moment:
\* the parts account for the total, and no figure exceeds the one it is part of.
\* The entries of one window only become more, and the queries go from the whole
\* to its parts.
SummaryAddsUp ==
  query = "answered" =>
    LET byAction == SumOver(summary.actions, Actions)
        byKind   == SumOver(summary.kinds, Kinds)
    IN  /\ summary.total <= byAction /\ byAction <= byKind
        /\ summary.transitions <= summary.actions["transition"]
        /\ summary.transitions <= byKind
        /\ summary.actors <= byAction
        /\ summary.total > 0 => summary.actors > 0
=============================================================================
