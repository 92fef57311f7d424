-------------------------- MODULE PlatformHistory ---------------------------
(***************************************************************************)
(* Platform with history variables.                                        *)
(*                                                                         *)
(* Which facts about the records held at some instant since each request   *)
(* in flight was received: what the unlocked reads of                      *)
(* validateLinkedParties and of Transition do give, where "at the moment   *)
(* of the commit" is more than they give.                                  *)
(*                                                                         *)
(* Which audit entries were overtaken: newAuditLog stamps an entry before  *)
(* the transaction that commits it, and EntityHistory orders the entries   *)
(* of a record by that stamp.                                              *)
(***************************************************************************)
EXTENDS Platform

VARIABLES
  seen,      \* seen[c]: the records that were in order at some such instant
  overtaken  \* the clients whose stamped entry waits for its commit, while
             \* another entry of its record was committed

historyVars == <<vars, seen, overtaken>>

\* The records whose order matters to the request of c: the parties of a
\* manifest's transition, the manifests of a check's, the row of a delete.
Watched(c) ==
  CASE req[c].op = "delete"                                  -> {req[c].record}
    [] Handling(c, Manifests, "transition")                  -> Generators \cup Carriers
    [] Handling(c, Checks, "transition")                     -> Manifests
    [] OTHER                                                 -> {}

\* A party that may take part in a transfer, a manifest that may pass review, a
\* row that may be deleted.
InOrder(c, r) ==
  IF req[c].op = "delete" THEN rows[r].status \in {"draft", "pending"}
  ELSE \/ r \in Generators /\ GeneratorQualified(r)
       \/ r \in Carriers /\ CarrierQualified(r)
       \/ r \in Manifests /\ Live(r) /\ rows[r].status \in Passable

InOrderFor(c) == {r \in Watched(c) : InOrder(c, r)}

\* newAuditLog is evaluated after the last read of a service call, just before
\* its transaction: an entry waits while its request is at its commit.
Overtaken(c) ==
  /\ pc[c] = "commit" /\ pc'[c] = "commit"
  /\ c \in overtaken \/ audits'[req[c].record] # audits[req[c].record]

HistoryInit == Init /\ seen = [c \in Clients |-> {}] /\ overtaken = {}

HistoryNext ==
  /\ Next
  /\ overtaken' = {c \in Clients : Overtaken(c)}
  /\ seen' = [c \in Clients |->
                IF pc'[c] = "idle" THEN {} ELSE seen[c] \cup InOrderFor(c)']

HistorySpec == HistoryInit /\ [][HistoryNext]_historyVars

\* The request that c commits in this step changed r.
Commits(c, r) == pc[c] = "commit" /\ pc'[c] = "idle" /\ req[c].record = r /\ rows'[r] # rows[r]

\* A manifest is submitted or dispatched by a request during which its
\* generator held an active permit and its carrier a verified license, both
\* unexpired: each at some instant of the request, not both at one instant, and
\* not at the commit.
PartiesQualifiedDuringRequest ==
  [][\A c \in Clients, m \in Manifests :
       Commits(c, m) /\ rows[m].status # rows'[m].status
       /\ rows'[m].status \in {"submitted", "in_transit"} =>
         /\ rows'[m].data.generator \in seen[c]
         /\ rows'[m].data.carrier \in seen[c]]_historyVars

\* A check passes in a request during which its manifest was submitted, in
\* transit or received.
PassableDuringRequest ==
  [][\A c \in Clients, k \in Checks :
       Commits(c, k) /\ rows[k].status # rows'[k].status /\ rows'[k].status = "pass" =>
         rows'[k].data.manifest \in seen[c]]_historyVars

\* A deleted manifest or check was still a draft, or pending, when its delete
\* request was in flight.
UndecidedDuringDelete ==
  [][\A c \in Clients, r \in Manifests \cup Checks :
       Commits(c, r) /\ rows'[r].life = "deleted" =>
         r \in seen[c]]_historyVars

\* The history of a record, ordered by stamps, is the order of its writes: an
\* entry commits only if no other has since it was stamped.  So the entry shown
\* first is the one that led to the stored status.  Only a delete may have been
\* stamped before a write that beat it.
HistoryInOrder ==
  [][\A c \in overtaken, r \in Records : Commits(c, r) => req[c].op = "delete"]_historyVars
=============================================================================
