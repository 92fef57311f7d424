---------------------------- MODULE StatusGraph ----------------------------
(***************************************************************************)
(* The status vocabulary of the four record kinds: their transition        *)
(* graphs (backend/internal/constants/status.go), the status a new record  *)
(* starts in (backend/internal/model) and the ranks of the roles           *)
(* (backend/internal/middleware/auth.go).  No state.                       *)
(***************************************************************************)
EXTENDS Naturals

WasteGeneratorTransitions ==
  [active     |-> {"restricted", "suspended", "expired"},
   restricted |-> {"active", "suspended", "expired"},
   suspended  |-> {"active", "expired"},
   expired    |-> {}]

CarrierProfileTransitions ==
  [pending    |-> {"verified", "restricted"},
   verified   |-> {"restricted", "expired"},
   restricted |-> {"pending", "expired"},
   expired    |-> {}]

TransferManifestTransitions ==
  [draft      |-> {"submitted"},
   submitted  |-> {"in_transit", "rejected"},
   in_transit |-> {"received", "rejected"},
   received   |-> {},
   rejected   |-> {}]

ComplianceCheckTransitions ==
  [pending   |-> {"pass", "fail"},
   pass      |-> {},
   fail      |-> {"escalated"},
   escalated |-> {}]

CanTransition(graph, from, to) == from \in DOMAIN graph /\ to \in graph[from]

\* Mutants: a status spelt as its label.
MisspeltActive  == "Active"
MisspeltPending == "Pending"

WasteGeneratorInitialStatus   == "active"
CarrierProfileInitialStatus   == "pending"
TransferManifestInitialStatus == "draft"
ComplianceCheckInitialStatus  == "pending"

\* Every status of every kind.
Statuses == { "active", "restricted", "suspended", "expired", "pending",
              "verified", "draft", "submitted", "in_transit", "received",
              "rejected", "pass", "fail", "escalated" }

RoleRank == [viewer |-> 1, operator |-> 2, reviewer |-> 3, admin |-> 4]
=============================================================================
