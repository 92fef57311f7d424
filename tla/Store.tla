------------------------------- MODULE Store -------------------------------
(***************************************************************************)
(* The four tables, the audit table, and one API request per client        *)
(* working through them.                                                   *)
(*                                                                         *)
(* backend/internal/repository/base.go gives every aggregate the same      *)
(* Get, FindByCode, CreateAudited, UpdateAudited and DeleteAudited; a      *)
(* service call is a sequence of them, each its own database round trip,   *)
(* so other requests run in between.  An action of this module is one such *)
(* round trip together with the code up to the next one.  The modules      *)
(* WasteGenerator, CarrierProfile, TransferManifest and ComplianceCheck    *)
(* build the service calls from these actions.                             *)
(***************************************************************************)
EXTENDS Records

CONSTANTS
  RoleOf,  \* RoleOf[c]: the role in the token of client c
  Routes,  \* the <<kind, operation>> endpoints this instance exercises
  Ahead    \* how far beyond the stored version a client may number a write

Request == [op       : Operations \cup {"none"},
            record   : Records \cup {None},
            expected : 0..(MaxVersion - 1),    \* input.ExpectedVersion
            target   : Statuses \cup {""},     \* input.Status
            data     : Data]

NoRequest == [op |-> "none", record |-> None, expected |-> 0, target |-> "",
              data |-> BlankData]

Phases == {"idle", "load", "generator", "carrier", "manifest", "commit"}

ASSUME StoreAssumption ==
  Ahead \in Nat /\ RoleOf \in [Clients -> DOMAIN RoleRank]

VARIABLES
  rows,    \* rows[r]: the table row with code r, soft-deleted rows included
  audits,  \* audits[r]: the audit_logs of entity r, in insertion order
  pc,      \* pc[c]: the next database call of client c's request
  req,     \* req[c]: the decoded request
  cur,     \* cur[c]: the row Get returned to the service, its local `current'
  now      \* the clock time.Now reads

storeVars == <<rows, audits>>
callVars  == <<pc, req, cur>>
vars      == <<rows, audits, pc, req, cur, now>>

StoreInit ==
  /\ rows = InitialRows
  /\ audits = [r \in Records |-> <<>>]
  /\ pc = [c \in Clients |-> "idle"]
  /\ req = [c \in Clients |-> NoRequest]
  /\ cur = [c \in Clients |-> NoRow]
  /\ now = 0

(***************************************************************************)
(* The request in flight.                                                  *)
(***************************************************************************)
Handling(c, kind, op) == pc[c] # "idle" /\ req[c].record \in kind /\ req[c].op = op

Live(r) == rows[r].life = "live"

Unexpired(data) == data.expires > now

\* The endpoint is in this instance and its middleware lets the caller pass.
Allowed(c, kind, op, role) ==
  <<kind, op>> \in Routes /\ RoleRank[RoleOf[c]] >= RoleRank[role]

\* expectedVersion is whatever the client sends: a version of the row it has
\* seen, or one it reckons its earlier writes will have produced.
ExpectedVersions(r) == {v \in 1..(MaxVersion - 1) : v <= rows[r].version + Ahead}

\* A handler decodes its body and calls the service, whose first database
\* call is `phase'.
Receive(c, op, r, expected, target, data, phase) ==
  /\ pc[c] = "idle"
  /\ pc' = [pc EXCEPT ![c] = phase]
  /\ req' = [req EXCEPT ![c] = [op |-> op, record |-> r, expected |-> expected,
                               target |-> target, data |-> data]]
  /\ UNCHANGED <<rows, audits, cur, now>>

\* The response is written and the handler returns.
Answer(c) ==
  /\ pc' = [pc EXCEPT ![c] = "idle"]
  /\ req' = [req EXCEPT ![c] = NoRequest]
  /\ cur' = [cur EXCEPT ![c] = NoRow]

Proceed(c, phase) == pc' = [pc EXCEPT ![c] = phase] /\ UNCHANGED req

(***************************************************************************)
(* The repository calls.                                                   *)
(***************************************************************************)
Get(c, accepts, phase) ==
  LET row == rows[req[c].record] IN
  /\ pc[c] = "load"
  /\ \/ /\ row.life = "live" /\ accepts
        /\ cur' = [cur EXCEPT ![c] = row]
        /\ Proceed(c, phase)
     \/ /\ ~(row.life = "live" /\ accepts)
        /\ Answer(c)
  /\ UNCHANGED <<rows, audits, now>>

FindByCode(c, at, code, accepts, phase) ==
  /\ pc[c] = at
  /\ \/ /\ Live(code) /\ accepts
        /\ Proceed(c, phase)
        /\ UNCHANGED cur
     \/ /\ ~(Live(code) /\ accepts)
        /\ Answer(c)
  /\ UNCHANGED <<rows, audits, now>>

Log(r, entry) == audits' = [audits EXCEPT ![r] = Append(@, entry)]

\* Mutants: Create in place of CreateAudited; a unique index on live rows only.
CreateUnaudited(c, initial) ==
  LET r == req[c].record IN
  /\ pc[c] = "commit" /\ rows[r].life = "absent"
  /\ rows' = [rows EXCEPT ![r] = [life |-> "live", status |-> initial,
                                  version |-> 1, data |-> req[c].data]]
  /\ Answer(c) /\ UNCHANGED <<audits, now>>
CreateReusingCode(c, initial) ==
  LET r == req[c].record IN
  /\ pc[c] = "commit" /\ ~Live(r)
  /\ rows' = [rows EXCEPT ![r] = [life |-> "live", status |-> initial,
                                  version |-> 1, data |-> req[c].data]]
  /\ Log(r, [action |-> "create", before |-> "", after |-> initial, actor |-> c])
  /\ Answer(c) /\ UNCHANGED now

\* INSERT of the row and of its audit entry, in one transaction.  The unique
\* index on code covers soft-deleted rows: a used code is refused for good.
CreateAudited(c, initial) ==
  LET r == req[c].record IN
  /\ pc[c] = "commit"
  /\ \/ /\ rows[r].life = "absent"
        /\ rows' = [rows EXCEPT ![r] = [life |-> "live", status |-> initial,
                                        version |-> 1, data |-> req[c].data]]
        /\ Log(r, [action |-> "create", before |-> "", after |-> initial,
                       actor |-> c])
     \/ rows[r].life # "absent" /\ UNCHANGED storeVars
  /\ Answer(c)
  /\ UNCHANGED now

\* Mutants: no version in the WHERE clause; no soft-delete filter.
MatchesAnyVersion(r, expected) == Live(r)
MatchesSoftDeleted(r, expected) == rows[r].version = expected

\* The optimistic lock: the WHERE clause of the UPDATE compares the stored
\* version with the one the client sent.
Matches(r, expected) == Live(r) /\ rows[r].version = expected

\* Mutants: the version is not raised; the audit entry is written even when the
\* update matched no row.
UpdateKeepingVersion(c, item) ==
  LET r == req[c].record IN
  /\ pc[c] = "commit" /\ Matches(r, req[c].expected)
  /\ rows' = [rows EXCEPT ![r] = item]
  /\ Log(r, [action |-> req[c].op, before |-> cur[c].status,
                 after |-> item.status, actor |-> c])
  /\ Answer(c) /\ UNCHANGED now
UpdateAuditingConflicts(c, item) ==
  LET r == req[c].record IN
  /\ pc[c] = "commit"
  /\ rows' = IF Matches(r, req[c].expected)
             THEN [rows EXCEPT ![r] = [item EXCEPT !.version = req[c].expected + 1]]
             ELSE rows
  /\ Log(r, [action |-> req[c].op, before |-> cur[c].status,
                 after |-> item.status, actor |-> c])
  /\ Answer(c) /\ UNCHANGED now

\* UPDATE of every column of the row (`item' is the service's edited copy),
\* and its audit entry, in one transaction.
UpdateAudited(c, item) ==
  LET r == req[c].record IN
  /\ pc[c] = "commit"
  /\ \/ /\ Matches(r, req[c].expected)
        /\ rows' = [rows EXCEPT ![r] = [item EXCEPT !.version = req[c].expected + 1]]
        /\ Log(r, [action |-> req[c].op, before |-> cur[c].status,
                       after |-> item.status, actor |-> c])
     \/ ~Matches(r, req[c].expected) /\ UNCHANGED storeVars
  /\ Answer(c)
  /\ UNCHANGED now

\* Mutant: Delete in place of DeleteAudited.
DeleteUnaudited(c) ==
  LET r == req[c].record IN
  /\ pc[c] = "commit" /\ Live(r)
  /\ rows' = [rows EXCEPT ![r].life = "deleted"]
  /\ Answer(c) /\ UNCHANGED <<audits, now>>

\* Soft delete by id alone, and its audit entry, in one transaction.
DeleteAudited(c) ==
  LET r == req[c].record IN
  /\ pc[c] = "commit"
  /\ \/ /\ Live(r)
        /\ rows' = [rows EXCEPT ![r].life = "deleted"]
        /\ Log(r, [action |-> "delete", before |-> cur[c].status,
                       after |-> "deleted", actor |-> c])
     \/ ~Live(r) /\ UNCHANGED storeVars
  /\ Answer(c)
  /\ UNCHANGED now

\* A request ends before its next database call takes effect: the call fails,
\* the caller's context is cancelled, or the server process dies.
Fail(c) ==
  /\ pc[c] # "idle"
  /\ Answer(c)
  /\ UNCHANGED <<rows, audits, now>>

Tick ==
  /\ now < MaxTime
  /\ now' = now + 1
  /\ UNCHANGED <<rows, audits, pc, req, cur>>
=============================================================================
