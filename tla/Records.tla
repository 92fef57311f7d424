------------------------------ MODULE Records ------------------------------
(***************************************************************************)
(* The records the platform keeps: their codes, the columns its rules      *)
(* read (internal/model), and the audit entries written about them.        *)
(***************************************************************************)
EXTENDS StatusGraph, Sequences, FiniteSets

CONSTANTS
  Generators, Carriers, Manifests, Checks, \* the codes of each kind of record
  Clients,      \* callers of the API, each with at most one request in flight
  None,         \* a blank field: no code, no author
  InitialRows,  \* the tables after database.Seed
  MaxVersion,   \* bound: no write raises a version above this
  MaxTime       \* bound on the clock

Records == Generators \cup Carriers \cup Manifests \cup Checks

Operations == {"create", "update", "transition", "delete"}

\* The business fields a rule reads.  Each kind uses its own: a generator and a
\* carrier `expires', a manifest `generator' and `carrier', a check `manifest'
\* and `basis' (the author of DecisionBasis); the others stay blank.
Data == [expires   : 0..(MaxTime + 1),
         generator : Generators \cup {None},
         carrier   : Carriers \cup {None},
         manifest  : Manifests \cup {None},
         basis     : Clients \cup {None}]

BlankData == [expires |-> 0, generator |-> None, carrier |-> None,
              manifest |-> None, basis |-> None]

Row == [life    : {"absent", "live", "deleted"}, \* deleted: DeletedAt is set
        status  : Statuses \cup {""},
        version : 0..MaxVersion,
        data    : Data]

NoRow == [life |-> "absent", status |-> "", version |-> 0, data |-> BlankData]

AuditEntry == [action : Operations, before : Statuses \cup {""},
               after : Statuses \cup {"", "deleted"}, actor : Clients]

TransitionsOf(r) ==
  CASE r \in Generators -> WasteGeneratorTransitions
    [] r \in Carriers   -> CarrierProfileTransitions
    [] r \in Manifests  -> TransferManifestTransitions
    [] r \in Checks     -> ComplianceCheckTransitions

InitialStatusOf(r) ==
  CASE r \in Generators -> WasteGeneratorInitialStatus
    [] r \in Carriers   -> CarrierProfileInitialStatus
    [] r \in Manifests  -> TransferManifestInitialStatus
    [] r \in Checks     -> ComplianceCheckInitialStatus

\* The four kinds are four tables; seeded rows are live.
ASSUME RecordsAssumption ==
  /\ MaxVersion \in Nat \ {0} /\ MaxTime \in Nat
  /\ None \notin Records \cup Clients
  /\ Generators \cap (Carriers \cup Manifests \cup Checks) = {}
  /\ Carriers \cap (Manifests \cup Checks) = {}
  /\ Manifests \cap Checks = {}
  /\ InitialRows \in [Records -> Row]
  /\ \A r \in Records : InitialRows[r] # NoRow => InitialRows[r].life = "live"

\* A seeded row has a status, and the records it names are seeded too.
ASSUME SeedAssumption ==
  \A r \in Records : InitialRows[r] # NoRow =>
    LET data == InitialRows[r].data IN
    /\ InitialRows[r].status # ""
    /\ r \in Manifests => \A code \in {data.generator, data.carrier} :
                            code # None /\ InitialRows[code] # NoRow
    /\ r \in Checks => data.manifest # None /\ InitialRows[data.manifest] # NoRow
=============================================================================
