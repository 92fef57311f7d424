------------------------------ MODULE Platform ------------------------------
(***************************************************************************)
(* The whole backend: every client's request, of any kind, interleaved     *)
(* with the others and with the clock.                                     *)
(***************************************************************************)
EXTENDS WasteGenerator, CarrierProfile, TransferManifest, ComplianceCheck

Init == StoreInit

ClientStep(c) ==
  \/ WasteGeneratorStep(c)
  \/ CarrierProfileStep(c)
  \/ TransferManifestStep(c)
  \/ ComplianceCheckStep(c)
  \/ Fail(c)

Next == (\E c \in Clients : ClientStep(c)) \/ Tick

Spec == Init /\ [][Next]_vars

-----------------------------------------------------------------------------
\* How many writes of r since the seed are committed: every one but a delete
\* raises the version by one.
Writes(r) == rows[r].version - InitialRows[r].version

(***************************************************************************)
(* Invariants                                                              *)
(***************************************************************************)

\* Every variable has its type (the tables of internal/model, the decoded
\* requests of internal/dto).
TypeOK ==
  /\ rows \in [Records -> Row]
  /\ audits \in [Records -> Seq(AuditEntry)]
  /\ pc \in [Clients -> Phases]
  /\ req \in [Clients -> Request]
  /\ cur \in [Clients -> Row]
  /\ now \in 0..MaxTime

\* No lost update: whenever the UPDATE of UpdateAudited (base.go) would match,
\* the row it overwrites is the very row its service read and judged, whatever
\* other requests did since.  The statement writes every column, so anything
\* newer in the row would be silently undone.
ReplacesWhatItRead ==
  \A c \in Clients :
    /\ pc[c] = "commit"
    /\ req[c].op \in {"update", "transition"}
    /\ Matches(req[c].record, req[c].expected)
    => rows[req[c].record] = cur[c]

\* What the service checked on the row it read before it writes: the graph for a
\* transition, that nothing is decided for an edit.
Judged(c, row) ==
  LET r == req[c].record IN
  /\ row.life = "live"
  /\ req[c].op = "transition" =>
       CanTransition(TransitionsOf(r), row.status, req[c].target)
  /\ req[c].op = "update" =>
       (r \in Manifests => row.status = "draft") /\ (r \in Checks => row.status = "pending")

\* Between its reads and its commit, a request that writes holds a row that was
\* judged and is no newer than the table's; the client's version is no newer
\* than that row; and while the versions agree the two are the same row.
WritersHoldJudgedRows ==
  \A c \in Clients :
    LET row == rows[req[c].record] IN
    pc[c] # "idle" /\ req[c].op \in {"update", "transition"} =>
      /\ req[c].expected <= row.version
      /\ pc[c] # "load" =>
           /\ Judged(c, cur[c])
           /\ req[c].expected <= cur[c].version
           /\ cur[c].version <= row.version
           /\ row.life = "live" /\ row.version = cur[c].version => row = cur[c]

\* The audit trail accounts for the row: one entry per committed write, each
\* starting from the status the previous one left, the last one's result being
\* the stored status, and a final delete entry exactly on deleted rows.
AuditTrail ==
  \A r \in Records :
    LET log == audits[r]
        n == Writes(r)
    IN
    /\ Len(log) = IF rows[r].life = "deleted" THEN n + 1 ELSE n
    /\ \A i \in 1..n :
         /\ log[i].action # "delete"
         /\ log[i].before = IF i = 1 THEN InitialRows[r].status ELSE log[i - 1].after
    /\ n > 0 => log[n].after = rows[r].status
    /\ rows[r].life = "deleted" => log[n + 1].action = "delete"

\* The basis of a decided check is the reason of the decision in force: the
\* last write of the check is a transition, by the author of its basis.
BasisIsTheDeciders ==
  \A k \in Checks :
    LET n == Writes(k) IN
    rows[k].status \notin {"", "pending"} /\ n > 0 =>
      /\ audits[k][n].action = "transition"
      /\ rows[k].data.basis = audits[k][n].actor

\* Without foreign keys, every link still resolves: the parties of a manifest
\* and the manifest of a check are records that exist or were soft-deleted,
\* never codes nothing was created under.
LinksResolve ==
  /\ \A m \in Manifests : rows[m].life # "absent" =>
       /\ rows[rows[m].data.generator].life # "absent"
       /\ rows[rows[m].data.carrier].life # "absent"
  /\ \A k \in Checks : rows[k].life # "absent" =>
       rows[rows[k].data.manifest].life # "absent"

(***************************************************************************)
(* Action properties                                                       *)
(***************************************************************************)

\* Every stored status change is an edge of the record's transition graph
\* (README: draft -> submitted -> in_transit -> received, and so on), and a new
\* record starts in its initial status, however requests interleave.
StatusFollowsGraph ==
  [][\A r \in Records :
       rows'[r].status # rows[r].status =>
         \/ CanTransition(TransitionsOf(r), rows[r].status, rows'[r].status)
         \/ rows[r].life = "absent" /\ rows'[r].status = InitialStatusOf(r)]_vars

\* A manifest that left draft keeps its content, a decided check keeps its
\* manifest, and its basis until the next decision: no edit begun on a draft or
\* a pending check lands after the decision.
FrozenOnceDecided ==
  [][/\ \A m \in Manifests :
          rows[m].status \notin {"", "draft"} => rows'[m].data = rows[m].data
     /\ \A k \in Checks :
          rows[k].status \notin {"", "pending"} =>
            /\ rows'[k].data.manifest = rows[k].data.manifest
            /\ rows'[k].status = rows[k].status => rows'[k].data = rows[k].data]_vars

\* A soft-deleted row is never written again: a request that read it while it
\* was live, and commits after the delete, changes nothing; nor is its code
\* given to a new record.
DeletedIsFinal ==
  [][\A r \in Records : rows[r].life = "deleted" => rows'[r] = rows[r]]_vars

(***************************************************************************)
(* Refinement                                                              *)
(***************************************************************************)

\* Forgetting requests and clocks, the platform is the atomic, audited registry
\* of Registry.tla: each committed request is one of its steps, although it was
\* decided on rows read earlier.
RegistryOf == INSTANCE Registry WITH rows <- rows, audits <- audits
ImplementsRegistry == RegistryOf!Spec

(***************************************************************************)
(* What the documentation says and the code does not keep                  *)
(***************************************************************************)

\* README: submitted manifests and decided checks are not deleted.
OnlyUndecidedDeleted ==
  [][\A r \in Manifests \cup Checks :
       rows[r].life = "live" /\ rows'[r].life = "deleted" =>
         rows[r].status \in {"draft", "pending"}]_vars

\* "a rejected manifest must not pass": a check passes only while its manifest
\* is submitted, in transit or received.
PassesOnlyPassable ==
  [][\A k \in Checks :
       rows'[k].status = "pass" /\ rows[k].status # "pass" =>
         LET m == rows[rows[k].data.manifest]
         IN  m.life = "live" /\ m.status \in Passable]_vars

\* A manifest is submitted or dispatched only while its generator's permit is
\* active and its carrier's license verified, both unexpired.
EntersOnlyQualified ==
  [][\A m \in Manifests :
       rows'[m].status # rows[m].status /\ rows'[m].status \in {"submitted", "in_transit"} =>
         /\ GeneratorQualified(rows[m].data.generator)
         /\ CarrierQualified(rows[m].data.carrier)]_vars

\* Permission matrix: operators create and edit data awaiting review; a verified
\* license is the reviewers' affair.
OnlyPendingEdited ==
  [][\A p \in Carriers :
       rows[p].life = "live" /\ rows'[p].data # rows[p].data =>
         rows[p].status = "pending"]_vars
=============================================================================
