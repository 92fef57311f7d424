------------------------------ MODULE Registry ------------------------------
(***************************************************************************)
(* What the platform promises about its records: each write is one atomic  *)
(* step that sees the row as it is, keeps the rules of its kind, raises    *)
(* the version by one and is audited.  Requests, reads and clients' copies *)
(* do not exist here.                                                      *)
(*                                                                         *)
(* Two promises a reader may expect are not made, because the code does    *)
(* not keep them: a removal is not restricted to undecided records, and    *)
(* its audit entry may name an earlier status; and an advance does not     *)
(* look at the linked records.                                             *)
(***************************************************************************)
EXTENDS Records

VARIABLES rows, audits

registryVars == <<rows, audits>>

Init ==
  /\ rows = InitialRows
  /\ audits = [r \in Records |-> <<>>]

Put(r, row) == rows' = [rows EXCEPT ![r] = row]

Log(r, action, before, after, actor) ==
  audits' = [audits EXCEPT ![r] = Append(@, [action |-> action, before |-> before,
                                             after |-> after, actor |-> actor])]

Created(code) == code \in Records /\ rows[code].life # "absent"

\* The records the fields of r name were created.
Linked(r, data) ==
  /\ r \in Manifests => Created(data.generator) /\ Created(data.carrier)
  /\ r \in Checks => Created(data.manifest)

Create(r, actor) ==
  LET initial == InitialStatusOf(r) IN
  /\ rows[r].life = "absent"
  /\ Log(r, "create", "", initial, actor)
  /\ \E data \in Data :
       /\ Linked(r, data)
       /\ Put(r, [life |-> "live", status |-> initial, version |-> 1, data |-> data])

Edit(r, actor) ==
  /\ rows[r].life = "live"
  /\ r \in Manifests => rows[r].status = "draft"
  /\ r \in Checks => rows[r].status = "pending"
  /\ Log(r, "update", rows[r].status, rows[r].status, actor)
  /\ \E data \in Data :
       /\ Linked(r, data)
       /\ Put(r, [rows[r] EXCEPT !.version = @ + 1, !.data = data])

\* Only a decision on a check changes more than the status: its basis.
Advance(r, actor) ==
  /\ rows[r].life = "live"
  /\ \E status \in Statuses :
       /\ CanTransition(TransitionsOf(r), rows[r].status, status)
       /\ Put(r, [rows[r] EXCEPT !.status = status, !.version = @ + 1,
                                 !.data.basis = IF r \in Checks THEN actor ELSE @])
       /\ Log(r, "transition", rows[r].status, status, actor)

Remove(r, actor) ==
  /\ rows[r].life = "live"
  /\ Put(r, [rows[r] EXCEPT !.life = "deleted"])
  /\ \E before \in Statuses : Log(r, "delete", before, "deleted", actor)

Next ==
  \E r \in Records, actor \in Clients :
    Create(r, actor) \/ Edit(r, actor) \/ Advance(r, actor) \/ Remove(r, actor)

Spec == Init /\ [][Next]_registryVars
=============================================================================
