--------------------------- MODULE PlatformProofs ---------------------------
(***************************************************************************)
(* Theorems about Platform, for every set of records and clients, every    *)
(* choice of routes, and every bound.                                      *)
(***************************************************************************)
EXTENDS Platform, TLAPS

(***************************************************************************)
(* Every step of the platform has one of these shapes.                     *)
(***************************************************************************)
Writing(c) == req[c].op \in {"update", "transition"}

Received(c) ==
  \E op \in Operations, r \in Records, v \in 0..(MaxVersion - 1),
     t \in Statuses \cup {""}, d \in Data, p \in Phases \ {"idle"} :
    /\ op # "create" => p = "load"
    /\ op \in {"update", "transition"} => v <= rows[r].version + Ahead
    /\ Receive(c, op, r, v, t, d, p)

Loaded(c) ==
  /\ pc[c] = "load"
  /\ Judged(c, rows[req[c].record])
  /\ \E p \in Phases \ {"idle", "load"} : pc' = [pc EXCEPT ![c] = p]
  /\ cur' = [cur EXCEPT ![c] = rows[req[c].record]]
  /\ UNCHANGED <<rows, audits, req, now>>

Found(c) ==
  /\ pc[c] \notin {"idle", "load"}
  /\ \E p \in Phases \ {"idle", "load"} : pc' = [pc EXCEPT ![c] = p]
  /\ UNCHANGED <<rows, audits, req, cur, now>>

Answered(c) == Answer(c) /\ UNCHANGED <<rows, audits, now>>

Inserted(c) ==
  /\ req[c].op = "create"
  /\ CreateAudited(c, InitialStatusOf(req[c].record))

Edited(c) ==
  /\ req[c].op = "update"
  /\ UpdateAudited(c, [cur[c] EXCEPT !.data = req[c].data])

Decided(c) ==
  /\ req[c].op = "transition"
  /\ IF req[c].record \in Checks
     THEN UpdateAudited(c, [cur[c] EXCEPT !.status = req[c].target, !.data.basis = c])
     ELSE UpdateAudited(c, [cur[c] EXCEPT !.status = req[c].target])

Removed(c) == req[c].op = "delete" /\ DeleteAudited(c)

Serving(c) ==
  /\ req[c].record \in Records
  /\ Loaded(c) \/ Found(c) \/ Inserted(c) \/ Edited(c) \/ Decided(c) \/ Removed(c)

Shape(c) == Received(c) \/ Answered(c) \/ Serving(c)

-----------------------------------------------------------------------------
\* The inputs the handlers decode have the types of internal/dto.
LEMMA InputsTyped ==
  /\ BlankData \in Data
  /\ GeneratorData \subseteq Data
  /\ CarrierData \subseteq Data
  /\ ManifestData \subseteq Data
  /\ \A c \in Clients : CheckData(c) \subseteq Data
  BY RecordsAssumption
     DEF BlankData, Data, GeneratorData, CarrierData, ManifestData, CheckData

\* The graphs speak of the model's statuses.
LEMMA StatusesTyped ==
  /\ DOMAIN WasteGeneratorTransitions \subseteq Statuses
  /\ DOMAIN CarrierProfileTransitions \subseteq Statuses
  /\ DOMAIN TransferManifestTransitions \subseteq Statuses
  /\ DOMAIN ComplianceCheckTransitions \subseteq Statuses
  BY DEF WasteGeneratorTransitions, CarrierProfileTransitions, TransferManifestTransitions,
         ComplianceCheckTransitions, Statuses

\* The definitions by kind, kind by kind.
LEMMA KindsDisjoint ==
  ASSUME NEW r \in Records
  PROVE  /\ r \in Generators => /\ TransitionsOf(r) = WasteGeneratorTransitions
                                /\ InitialStatusOf(r) = WasteGeneratorInitialStatus
         /\ r \in Carriers => /\ TransitionsOf(r) = CarrierProfileTransitions
                              /\ InitialStatusOf(r) = CarrierProfileInitialStatus
         /\ r \in Manifests => /\ TransitionsOf(r) = TransferManifestTransitions
                               /\ InitialStatusOf(r) = TransferManifestInitialStatus
         /\ r \in Checks => /\ TransitionsOf(r) = ComplianceCheckTransitions
                            /\ InitialStatusOf(r) = ComplianceCheckInitialStatus
         /\ InitialStatusOf(r) \in Statuses
  <1>1. /\ r \in Generators => r \notin Carriers /\ r \notin Manifests /\ r \notin Checks
        /\ r \in Carriers => r \notin Generators /\ r \notin Manifests /\ r \notin Checks
        /\ r \in Manifests => r \notin Generators /\ r \notin Carriers /\ r \notin Checks
        /\ r \in Checks => r \notin Generators /\ r \notin Carriers /\ r \notin Manifests
    BY RecordsAssumption DEF Records
  <1> QED
    BY <1>1 DEF Records, TransitionsOf, InitialStatusOf, Statuses,
                WasteGeneratorInitialStatus, CarrierProfileInitialStatus,
                TransferManifestInitialStatus, ComplianceCheckInitialStatus

\* Every call of the generator service is a step of one of the shapes.
LEMMA GeneratorShape ==
  ASSUME NEW c \in Clients, WasteGeneratorStep(c)
  PROVE  Shape(c)
  <1> USE DEF Shape
  <1>1. CASE WasteGeneratorRequest(c)
    <2>1. PICK r \in Generators :
            \/ \E d \in GeneratorData : Receive(c, "create", r, 0, "", d, "commit")
            \/ \E d \in GeneratorData, v \in ExpectedVersions(r) :
                 Receive(c, "update", r, v, "", d, "load")
            \/ \E s \in DOMAIN WasteGeneratorTransitions, v \in ExpectedVersions(r) :
                 Receive(c, "transition", r, v, s, BlankData, "load")
            \/ Receive(c, "delete", r, 0, "", BlankData, "load")
      BY <1>1 DEF WasteGeneratorRequest
    <2>2. /\ r \in Records
          /\ 0 \in 0..(MaxVersion - 1)
          /\ \A v \in ExpectedVersions(r) :
               v \in 0..(MaxVersion - 1) /\ v <= rows[r].version + Ahead
          /\ DOMAIN WasteGeneratorTransitions \subseteq Statuses
          /\ GeneratorData \subseteq Data /\ BlankData \in Data
          /\ {"create", "update", "transition", "delete"} \subseteq Operations
          /\ {"load", "commit"} \subseteq Phases \ {"idle"}
      BY InputsTyped, StatusesTyped, RecordsAssumption
         DEF Records, ExpectedVersions, Operations, Phases
    <2>3. Received(c)
      BY <2>1, <2>2 DEF Received
    <2> QED
      BY <2>3
  <1>2. CASE CreateGenerator(c)
    BY <1>2, KindsDisjoint
       DEF CreateGenerator, Handling, Serving, Inserted, Records
  <1>3. CASE UpdateGenerator(c)
    BY <1>3, KindsDisjoint, RecordsAssumption
       DEF UpdateGenerator, Handling, Serving, Edited, Loaded, Judged, Answered, Get, Proceed, Phases, Records
  <1>4. CASE TransitionGenerator(c)
    BY <1>4, KindsDisjoint, RecordsAssumption
       DEF TransitionGenerator, Handling, Serving, Decided, Loaded, Judged, Answered, Get, Proceed, Phases, Records
  <1>5. CASE DeleteGenerator(c)
    BY <1>5, KindsDisjoint
       DEF DeleteGenerator, Handling, Serving, Removed, Loaded, Judged, Answered, Get, Proceed, Phases, Records
  <1> QED
    BY <1>1, <1>2, <1>3, <1>4, <1>5 DEF WasteGeneratorStep

\* So is every call of the carrier service.
LEMMA CarrierShape ==
  ASSUME NEW c \in Clients, CarrierProfileStep(c)
  PROVE  Shape(c)
  <1> USE DEF Shape
  <1>1. CASE CarrierProfileRequest(c)
    <2>1. PICK r \in Carriers :
            \/ \E d \in CarrierData : Receive(c, "create", r, 0, "", d, "commit")
            \/ \E d \in CarrierData, v \in ExpectedVersions(r) :
                 Receive(c, "update", r, v, "", d, "load")
            \/ \E s \in DOMAIN CarrierProfileTransitions, v \in ExpectedVersions(r) :
                 Receive(c, "transition", r, v, s, BlankData, "load")
            \/ Receive(c, "delete", r, 0, "", BlankData, "load")
      BY <1>1 DEF CarrierProfileRequest
    <2>2. /\ r \in Records
          /\ 0 \in 0..(MaxVersion - 1)
          /\ \A v \in ExpectedVersions(r) :
               v \in 0..(MaxVersion - 1) /\ v <= rows[r].version + Ahead
          /\ DOMAIN CarrierProfileTransitions \subseteq Statuses
          /\ CarrierData \subseteq Data /\ BlankData \in Data
          /\ {"create", "update", "transition", "delete"} \subseteq Operations
          /\ {"load", "commit"} \subseteq Phases \ {"idle"}
      BY InputsTyped, StatusesTyped, RecordsAssumption
         DEF Records, ExpectedVersions, Operations, Phases
    <2>3. Received(c)
      BY <2>1, <2>2 DEF Received
    <2> QED
      BY <2>3
  <1>2. CASE CreateCarrier(c)
    BY <1>2, KindsDisjoint
       DEF CreateCarrier, Handling, Serving, Inserted, Records
  <1>3. CASE UpdateCarrier(c)
    BY <1>3, KindsDisjoint, RecordsAssumption
       DEF UpdateCarrier, Handling, Serving, Edited, Loaded, Judged, Answered, Get, Proceed, Phases, Records
  <1>4. CASE TransitionCarrier(c)
    BY <1>4, KindsDisjoint, RecordsAssumption
       DEF TransitionCarrier, Handling, Serving, Decided, Loaded, Judged, Answered, Get, Proceed, Phases, Records
  <1>5. CASE DeleteCarrier(c)
    BY <1>5, KindsDisjoint
       DEF DeleteCarrier, Handling, Serving, Removed, Loaded, Judged, Answered, Get, Proceed, Phases, Records
  <1> QED
    BY <1>1, <1>2, <1>3, <1>4, <1>5 DEF CarrierProfileStep

\* So is every call of the manifest service, its two lookups included.
LEMMA ManifestShape ==
  ASSUME NEW c \in Clients, TransferManifestStep(c)
  PROVE  Shape(c)
  <1> USE DEF Shape
  <1>1. CASE TransferManifestRequest(c)
    <2>1. PICK r \in Manifests :
            \/ \E d \in ManifestData : Receive(c, "create", r, 0, "", d, "generator")
            \/ \E d \in ManifestData, v \in ExpectedVersions(r) :
                 Receive(c, "update", r, v, "", d, "load")
            \/ \E s \in DOMAIN TransferManifestTransitions, v \in ExpectedVersions(r) :
                 Receive(c, "transition", r, v, s, BlankData, "load")
            \/ Receive(c, "delete", r, 0, "", BlankData, "load")
      BY <1>1 DEF TransferManifestRequest
    <2>2. /\ r \in Records
          /\ 0 \in 0..(MaxVersion - 1)
          /\ \A v \in ExpectedVersions(r) :
               v \in 0..(MaxVersion - 1) /\ v <= rows[r].version + Ahead
          /\ DOMAIN TransferManifestTransitions \subseteq Statuses
          /\ ManifestData \subseteq Data /\ BlankData \in Data
          /\ {"create", "update", "transition", "delete"} \subseteq Operations
          /\ {"load", "generator"} \subseteq Phases \ {"idle"}
      BY InputsTyped, StatusesTyped, RecordsAssumption
         DEF Records, ExpectedVersions, Operations, Phases
    <2>3. Received(c)
      BY <2>1, <2>2 DEF Received
    <2> QED
      BY <2>3
  <1>2. CASE CreateManifest(c)
    BY <1>2, KindsDisjoint
       DEF CreateManifest, Handling, Serving, Inserted, Records, Found, FindByCode, FindParties, Proceed, Phases, Answered
  <1>3. CASE UpdateManifest(c)
    BY <1>3, KindsDisjoint, RecordsAssumption
       DEF UpdateManifest, Handling, Serving, Edited, Loaded, Judged, Answered, Get, Proceed, Phases, Records, Found, FindByCode, FindParties
  <1>4. CASE TransitionManifest(c)
    BY <1>4, KindsDisjoint, RecordsAssumption
       DEF TransitionManifest, Handling, Serving, Decided, Loaded, Judged, Answered, Get, Proceed, Phases, Records, Found, FindByCode, ValidateLinkedParties
  <1>5. CASE DeleteManifest(c)
    BY <1>5, KindsDisjoint
       DEF DeleteManifest, Handling, Serving, Removed, Loaded, Judged, Answered, Get, Proceed, Phases, Records
  <1> QED
    BY <1>1, <1>2, <1>3, <1>4, <1>5 DEF TransferManifestStep

\* So is every call of the check service.
LEMMA CheckShape ==
  ASSUME NEW c \in Clients, ComplianceCheckStep(c)
  PROVE  Shape(c)
  <1> USE DEF Shape
  <1>1. CASE ComplianceCheckRequest(c)
    <2>1. PICK r \in Checks :
            \/ \E d \in CheckData(c) : Receive(c, "create", r, 0, "", d, "manifest")
            \/ \E d \in CheckData(c), v \in ExpectedVersions(r) :
                 Receive(c, "update", r, v, "", d, "load")
            \/ \E s \in DOMAIN ComplianceCheckTransitions, v \in ExpectedVersions(r) :
                 Receive(c, "transition", r, v, s, BlankData, "load")
            \/ Receive(c, "delete", r, 0, "", BlankData, "load")
      BY <1>1 DEF ComplianceCheckRequest
    <2>2. /\ r \in Records
          /\ 0 \in 0..(MaxVersion - 1)
          /\ \A v \in ExpectedVersions(r) :
               v \in 0..(MaxVersion - 1) /\ v <= rows[r].version + Ahead
          /\ DOMAIN ComplianceCheckTransitions \subseteq Statuses
          /\ CheckData(c) \subseteq Data /\ BlankData \in Data
          /\ {"create", "update", "transition", "delete"} \subseteq Operations
          /\ {"load", "manifest"} \subseteq Phases \ {"idle"}
      BY InputsTyped, StatusesTyped, RecordsAssumption
         DEF Records, ExpectedVersions, Operations, Phases
    <2>3. Received(c)
      BY <2>1, <2>2 DEF Received
    <2> QED
      BY <2>3
  <1>2. CASE CreateCheck(c)
    BY <1>2, KindsDisjoint
       DEF CreateCheck, Handling, Serving, Inserted, Records, Found, FindByCode, FindManifest, Proceed, Phases, Answered
  <1>3. CASE UpdateCheck(c)
    BY <1>3, KindsDisjoint, RecordsAssumption
       DEF UpdateCheck, Handling, Serving, Edited, Loaded, Judged, Answered, Get, Proceed, Phases, Records, Found, FindByCode, FindManifest
  <1>4. CASE TransitionCheck(c)
    BY <1>4, KindsDisjoint, RecordsAssumption
       DEF TransitionCheck, Handling, Serving, Decided, Loaded, Judged, Answered, Get, Proceed, Phases, Records, Found, FindByCode
  <1>5. CASE DeleteCheck(c)
    BY <1>5, KindsDisjoint
       DEF DeleteCheck, Handling, Serving, Removed, Loaded, Judged, Answered, Get, Proceed, Phases, Records
  <1> QED
    BY <1>1, <1>2, <1>3, <1>4, <1>5 DEF ComplianceCheckStep

\* A step of the platform is a step of one request, of the clock, or nothing.
LEMMA NextShape ==
  ASSUME [Next]_vars
  PROVE  \/ \E c \in Clients : Shape(c)
         \/ Tick
         \/ UNCHANGED vars
  <1>1. ASSUME NEW c \in Clients, ClientStep(c)
        PROVE  Shape(c)
    <2>1. CASE Fail(c)
      BY <2>1 DEF Fail, Shape, Answered
    <2> QED
      BY <1>1, <2>1, GeneratorShape, CarrierShape, ManifestShape, CheckShape DEF ClientStep
  <1> QED
    BY <1>1 DEF Next

-----------------------------------------------------------------------------
(***************************************************************************)
(* Type correctness.                                                       *)
(***************************************************************************)

LEMMA BlanksTyped == NoRequest \in Request /\ NoRow \in Row
  <1>1. 0 \in 0..(MaxVersion - 1) /\ 0 \in 0..MaxVersion
    BY RecordsAssumption
  <1>2. NoRequest \in Request
    BY <1>1, InputsTyped DEF NoRequest, Request
  <1>3. NoRow \in Row
    BY <1>1, InputsTyped DEF NoRow, Row
  <1> QED
    BY <1>2, <1>3

\* Answering a request keeps the types of its variables.
LEMMA AnswerTyped ==
  ASSUME TypeOK, NEW c \in Clients, Answer(c)
  PROVE  /\ pc' \in [Clients -> Phases]
         /\ req' \in [Clients -> Request]
         /\ cur' \in [Clients -> Row]
  BY BlanksTyped DEF TypeOK, Answer, Phases

\* The service's edited copy is a row again.
LEMMA ItemsTyped ==
  ASSUME TypeOK, NEW c \in Clients
  PROVE  /\ [cur[c] EXCEPT !.data = req[c].data] \in Row
         /\ [cur[c] EXCEPT !.status = req[c].target] \in Row
         /\ [cur[c] EXCEPT !.status = req[c].target, !.data.basis = c] \in Row
  <1>1. cur[c] \in Row /\ req[c] \in Request
    BY DEF TypeOK
  <1>2. req[c].data \in Data /\ req[c].target \in Statuses \cup {""} /\ cur[c].data \in Data
    BY <1>1 DEF Row, Request
  <1>3. [cur[c].data EXCEPT !.basis = c] \in Data
    BY <1>2 DEF Data
  <1> QED
    BY <1>1, <1>2, <1>3 DEF Row

\* The repository's transactions write typed rows and entries.
LEMMA UpdateTyped ==
  ASSUME TypeOK, NEW c \in Clients, req[c].record \in Records,
         NEW item \in Row, UpdateAudited(c, item),
         req[c].op \in Operations
  PROVE  TypeOK'
  <1> DEFINE r == req[c].record
             e == [action |-> req[c].op, before |-> cur[c].status,
                   after |-> item.status, actor |-> c]
             new == [item EXCEPT !.version = req[c].expected + 1]
  <1>1. req[c].expected + 1 \in 0..MaxVersion
    <2>1. req[c].expected \in 0..(MaxVersion - 1)
      BY DEF TypeOK, Request
    <2> QED
      BY <2>1, RecordsAssumption
  <1>2. new \in Row
    BY <1>1 DEF Row
  <1>3. e \in AuditEntry
    BY DEF TypeOK, Row, AuditEntry
  <1>4. rows' \in [Records -> Row]
    BY <1>2 DEF UpdateAudited, TypeOK, storeVars
  <1>5. audits' \in [Records -> Seq(AuditEntry)]
    <2>1. Append(audits[r], e) \in Seq(AuditEntry)
      BY <1>3 DEF TypeOK
    <2> QED
      BY <2>1 DEF UpdateAudited, Log, TypeOK, storeVars
  <1> QED
    BY <1>4, <1>5, AnswerTyped DEF UpdateAudited, TypeOK

\* An INSERT and its audit entry keep the types.
LEMMA CreateTyped ==
  ASSUME TypeOK, NEW c \in Clients, req[c].record \in Records, Inserted(c)
  PROVE  TypeOK'
  <1> DEFINE r == req[c].record
             initial == InitialStatusOf(r)
             new == [life |-> "live", status |-> initial, version |-> 1, data |-> req[c].data]
             e == [action |-> "create", before |-> "", after |-> initial, actor |-> c]
  <1>1. initial \in Statuses
    BY KindsDisjoint
  <1>2. req[c].data \in Data
    BY DEF TypeOK, Request
  <1>3. 1 \in 0..MaxVersion
    BY RecordsAssumption
  <1>4. new \in Row
    BY <1>1, <1>2, <1>3 DEF Row
  <1>5. e \in AuditEntry
    BY <1>1 DEF AuditEntry, Operations
  <1>6. CreateAudited(c, initial)
    BY DEF Inserted
  <1> HIDE DEF initial, e
  <1>7. rows' \in [Records -> Row]
    BY <1>4, <1>6 DEF CreateAudited, TypeOK, storeVars
  <1>8. audits' \in [Records -> Seq(AuditEntry)]
    <2>1. Append(audits[r], e) \in Seq(AuditEntry)
      BY <1>5 DEF TypeOK
    <2> QED
      BY <2>1, <1>6 DEF CreateAudited, Log, TypeOK, storeVars, e
  <1> QED
    BY <1>6, <1>7, <1>8, AnswerTyped DEF CreateAudited, TypeOK

\* A soft delete and its audit entry keep the types.
LEMMA DeleteTyped ==
  ASSUME TypeOK, NEW c \in Clients, req[c].record \in Records, Removed(c)
  PROVE  TypeOK'
  <1> DEFINE r == req[c].record
             new == [rows[r] EXCEPT !.life = "deleted"]
             e == [action |-> "delete", before |-> cur[c].status,
                   after |-> "deleted", actor |-> c]
  <1>1. new \in Row
    BY DEF TypeOK, Row
  <1>2. e \in AuditEntry
    BY DEF TypeOK, Row, AuditEntry, Operations
  <1>3. rows' \in [Records -> Row]
    BY <1>1 DEF Removed, DeleteAudited, TypeOK, storeVars
  <1>4. audits' \in [Records -> Seq(AuditEntry)]
    <2>1. Append(audits[r], e) \in Seq(AuditEntry)
      BY <1>2 DEF TypeOK
    <2> QED
      BY <2>1 DEF Removed, DeleteAudited, Log, TypeOK, storeVars
  <1> QED
    BY <1>3, <1>4, AnswerTyped DEF Removed, DeleteAudited, TypeOK

\* The seeded tables are typed, and no request is in flight.
LEMMA TypeInit == ASSUME Init PROVE TypeOK
  <1>1. 0 \in 0..MaxTime
    BY RecordsAssumption
  <1>2. audits \in [Records -> Seq(AuditEntry)]
    BY DEF Init, StoreInit
  <1> QED
    BY <1>1, <1>2, BlanksTyped, RecordsAssumption DEF Init, StoreInit, TypeOK, Phases

\* No step leaves the types, a bound of the instance included.
LEMMA TypeStep == ASSUME TypeOK, [Next]_vars PROVE TypeOK'
  <1>1. ASSUME NEW c \in Clients, Received(c)
        PROVE  TypeOK'
    <2>1. PICK op \in Operations, r \in Records, v \in 0..(MaxVersion - 1),
               t \in Statuses \cup {""}, d \in Data, p \in Phases \ {"idle"} :
            Receive(c, op, r, v, t, d, p)
      BY <1>1 DEF Received
    <2>2. [op |-> op, record |-> r, expected |-> v, target |-> t, data |-> d] \in Request
      BY DEF Request
    <2> QED
      BY <2>1, <2>2 DEF Receive, TypeOK
  <1>2. ASSUME NEW c \in Clients, Answered(c)
        PROVE  TypeOK'
    BY <1>2, AnswerTyped DEF Answered, TypeOK
  <1>3. ASSUME NEW c \in Clients, Serving(c)
        PROVE  TypeOK'
    <2>1. CASE Loaded(c)
      BY <1>3, <2>1 DEF Serving, Loaded, TypeOK
    <2>2. CASE Found(c)
      BY <2>2 DEF Found, TypeOK
    <2>3. CASE Inserted(c)
      BY <1>3, <2>3, CreateTyped DEF Serving
    <2>4. CASE Edited(c)
      BY <1>3, <2>4, ItemsTyped, UpdateTyped DEF Serving, Edited, Operations
    <2>5. CASE Decided(c)
      BY <1>3, <2>5, ItemsTyped, UpdateTyped DEF Serving, Decided, Operations
    <2>6. CASE Removed(c)
      BY <1>3, <2>6, DeleteTyped DEF Serving
    <2> QED
      BY <1>3, <2>1, <2>2, <2>3, <2>4, <2>5, <2>6 DEF Serving
  <1>4. CASE Tick
    <2>1. now + 1 \in 0..MaxTime
      BY <1>4, RecordsAssumption DEF Tick, TypeOK
    <2> QED
      BY <1>4, <2>1 DEF Tick, TypeOK
  <1>5. CASE UNCHANGED vars
    BY <1>5 DEF vars, TypeOK
  <1> QED
    BY <1>1, <1>2, <1>3, <1>4, <1>5, NextShape DEF Shape

\* Every reachable state is well typed, whatever versions the clients send.
THEOREM Typing == Spec => []TypeOK
  BY TypeInit, TypeStep, PTL DEF Spec

-----------------------------------------------------------------------------
(***************************************************************************)
(* What a step does to one request, and to one row.                        *)
(***************************************************************************)

\* Versions are naturals.
LEMMA RowVersions == \A row \in Row : row.version \in Nat
  <1>1. 0..MaxVersion \subseteq Nat
    BY RecordsAssumption
  <1> QED
    BY <1>1 DEF Row

\* Every version the proofs compare is a natural.
LEMMA VersionsTyped ==
  ASSUME TypeOK
  PROVE  /\ \A r \in Records : rows[r] \in Row /\ rows[r].version \in Nat
         /\ \A c \in Clients : /\ cur[c] \in Row /\ cur[c].version \in Nat
                               /\ req[c] \in Request /\ req[c].expected \in Nat
  <1>1. 0..(MaxVersion - 1) \subseteq Nat
    BY RecordsAssumption
  <1>2. \A q \in Request : q.expected \in Nat
    BY <1>1 DEF Request
  <1> QED
    BY <1>2, RowVersions DEF TypeOK

\* A step of c's request leaves the other requests alone.
LEMMA OthersWait ==
  ASSUME TypeOK, NEW c \in Clients, Shape(c), NEW d \in Clients, d # c
  PROVE  pc'[d] = pc[d] /\ req'[d] = req[d] /\ cur'[d] = cur[d]
  BY DEF TypeOK, Shape, Received, Receive, Answered, Answer, Serving, Loaded, Found, Inserted,
         CreateAudited, Edited, Decided, UpdateAudited, Removed, DeleteAudited

\* A request waits, is received, goes on, or ends.
LEMMA RequestMoves ==
  ASSUME TypeOK, [Next]_vars, NEW c \in Clients
  PROVE  \/ pc'[c] = pc[c] /\ req'[c] = req[c] /\ cur'[c] = cur[c]
         \/ Received(c)
         \/ Loaded(c) /\ req[c].record \in Records
         \/ Found(c)
         \/ pc'[c] = "idle"
  <1>1. ASSUME NEW d \in Clients, Shape(d), d # c
        PROVE  pc'[c] = pc[c] /\ req'[c] = req[c] /\ cur'[c] = cur[c]
    BY <1>1, OthersWait
  <1>2. ASSUME Shape(c)
        PROVE  \/ Received(c)
               \/ Loaded(c) /\ req[c].record \in Records
               \/ Found(c)
               \/ pc'[c] = "idle"
    BY <1>2 DEF TypeOK, Shape, Answered, Answer, Serving, Inserted, CreateAudited, Edited, Decided,
                UpdateAudited, Removed, DeleteAudited
  <1> QED
    BY <1>1, <1>2, NextShape DEF Tick, vars

\* What is received is what was decoded, and has read nothing yet.
LEMMA ReceivedWhat ==
  ASSUME TypeOK, NEW c \in Clients, Received(c)
  PROVE  /\ req'[c].record \in Records /\ pc'[c] # "idle" /\ rows' = rows
         /\ req'[c].op # "create" => pc'[c] = "load"
         /\ Writing(c)' => req'[c].expected <= rows[req'[c].record].version + Ahead
  <1>1. PICK op \in Operations, r \in Records, v \in 0..(MaxVersion - 1),
             t \in Statuses \cup {""}, d \in Data, p \in Phases \ {"idle"} :
          /\ op # "create" => p = "load"
          /\ op \in {"update", "transition"} => v <= rows[r].version + Ahead
          /\ Receive(c, op, r, v, t, d, p)
    BY DEF Received
  <1>2. /\ req'[c].op = op /\ req'[c].record = r /\ req'[c].expected = v
        /\ pc'[c] = p /\ rows' = rows
    BY <1>1 DEF Receive, TypeOK
  <1> QED
    BY <1>1, <1>2 DEF Writing

\* The service's edited copy.
Item(c) ==
  IF req[c].op = "update" THEN [cur[c] EXCEPT !.data = req[c].data]
  ELSE IF req[c].record \in Checks
  THEN [cur[c] EXCEPT !.status = req[c].target, !.data.basis = c]
  ELSE [cur[c] EXCEPT !.status = req[c].target]

\* The three transactions, for the row r they write and its audit entries.
Inserts(c, r) ==
  /\ req[c].op = "create" /\ rows[r].life = "absent"
  /\ rows'[r] = [life |-> "live", status |-> InitialStatusOf(r),
                 version |-> 1, data |-> req[c].data]
  /\ audits'[r] = Append(audits[r], [action |-> "create", before |-> "",
                                     after |-> InitialStatusOf(r), actor |-> c])

Replaces(c, r) ==
  /\ Writing(c) /\ Matches(r, req[c].expected)
  /\ rows'[r] = [Item(c) EXCEPT !.version = req[c].expected + 1]
  /\ audits'[r] = Append(audits[r], [action |-> req[c].op, before |-> cur[c].status,
                                     after |-> Item(c).status, actor |-> c])

Removes(c, r) ==
  /\ req[c].op = "delete" /\ rows[r].life = "live"
  /\ rows'[r] = [rows[r] EXCEPT !.life = "deleted"]
  /\ audits'[r] = Append(audits[r], [action |-> "delete", before |-> cur[c].status,
                                     after |-> "deleted", actor |-> c])

Writer(c, r) ==
  /\ req[c].record = r /\ pc[c] = "commit" /\ pc'[c] = "idle"
  /\ \A d \in Clients \ {c} : pc'[d] = pc[d]
  /\ Inserts(c, r) \/ Replaces(c, r) \/ Removes(c, r)

\* A step leaves a row and its entries alone, or commits one request about it.
LEMMA OneWriter ==
  ASSUME TypeOK, [Next]_vars, NEW r \in Records
  PROVE  \/ rows'[r] = rows[r] /\ audits'[r] = audits[r]
         \/ \E c \in Clients : Writer(c, r)
  <1>1. rows \in [Records -> Row] /\ audits \in [Records -> Seq(AuditEntry)]
        /\ pc \in [Clients -> Phases]
    BY DEF TypeOK
  <1>2. ASSUME NEW s \in Records, NEW row, NEW e,
               rows' = [rows EXCEPT ![s] = row], Log(s, e)
        PROVE  IF r = s THEN rows'[r] = row /\ audits'[r] = Append(audits[r], e)
               ELSE rows'[r] = rows[r] /\ audits'[r] = audits[r]
    BY <1>1, <1>2 DEF Log
  <1>3. ASSUME NEW c \in Clients, Serving(c), ~ UNCHANGED storeVars
        PROVE  \/ rows'[r] = rows[r] /\ audits'[r] = audits[r]
               \/ Writer(c, r)
    <2> DEFINE s == req[c].record
    <2>1. s \in Records
      BY <1>3 DEF Serving
    <2>2. ASSUME pc[c] = "commit", Answer(c), r = s,
                 Inserts(c, r) \/ Replaces(c, r) \/ Removes(c, r)
          PROVE  Writer(c, r)
      BY <1>1, <2>2 DEF Answer, Writer
    <2>3. CASE Inserted(c)
      <3>1. /\ pc[c] = "commit" /\ Answer(c) /\ req[c].op = "create"
            /\ rows[s].life = "absent"
            /\ rows' = [rows EXCEPT ![s] = [life |-> "live", status |-> InitialStatusOf(s),
                                            version |-> 1, data |-> req[c].data]]
            /\ Log(s, [action |-> "create", before |-> "", after |-> InitialStatusOf(s),
                       actor |-> c])
        BY <1>3, <2>3 DEF Inserted, CreateAudited
      <3>2. r = s => Inserts(c, r)
        BY <1>2, <2>1, <3>1 DEF Inserts
      <3> QED
        BY <1>2, <2>1, <2>2, <3>1, <3>2
    <2>4. ASSUME UpdateAudited(c, Item(c)), Writing(c)
          PROVE  \/ rows'[r] = rows[r] /\ audits'[r] = audits[r]
                 \/ Writer(c, r)
      <3>1. /\ pc[c] = "commit" /\ Answer(c) /\ Matches(s, req[c].expected)
            /\ rows' = [rows EXCEPT ![s] = [Item(c) EXCEPT !.version = req[c].expected + 1]]
            /\ Log(s, [action |-> req[c].op, before |-> cur[c].status,
                       after |-> Item(c).status, actor |-> c])
        BY <1>3, <2>4 DEF UpdateAudited
      <3>2. r = s => Replaces(c, r)
        BY <1>2, <2>1, <2>4, <3>1 DEF Replaces
      <3> QED
        BY <1>2, <2>1, <2>2, <3>1, <3>2
    <2>5. CASE Removed(c)
      <3>1. /\ pc[c] = "commit" /\ Answer(c) /\ req[c].op = "delete" /\ rows[s].life = "live"
            /\ rows' = [rows EXCEPT ![s].life = "deleted"]
            /\ Log(s, [action |-> "delete", before |-> cur[c].status,
                       after |-> "deleted", actor |-> c])
        BY <1>3, <2>5 DEF Removed, DeleteAudited, Live
      <3> DEFINE row == [rows[s] EXCEPT !.life = "deleted"]
                 e == [action |-> "delete", before |-> cur[c].status,
                       after |-> "deleted", actor |-> c]
      <3>2. rows' = [rows EXCEPT ![s] = row] /\ Log(s, e)
        BY <1>1, <2>1, <3>1
      <3> HIDE DEF row, e
      <3>3. r = s => rows'[r] = row /\ audits'[r] = Append(audits[r], e)
        BY <1>2, <2>1, <3>2
      <3>4. r = s => Removes(c, r)
        BY <3>1, <3>3 DEF Removes, row, e
      <3> QED
        BY <1>2, <2>1, <2>2, <3>1, <3>2, <3>4
    <2>6. CASE Edited(c) \/ Decided(c)
      <3>1. UpdateAudited(c, Item(c)) /\ Writing(c)
        BY <2>6 DEF Edited, Decided, Item, Writing
      <3> QED
        BY <2>4, <3>1
    <2> QED
      BY <1>3, <2>3, <2>5, <2>6 DEF Serving, Loaded, Found, storeVars
  <1>4. ASSUME NEW c \in Clients, Shape(c)
        PROVE  \/ rows'[r] = rows[r] /\ audits'[r] = audits[r]
               \/ Writer(c, r)
    BY <1>3, <1>4 DEF Shape, Received, Receive, Answered, storeVars
  <1> QED
    BY <1>4, NextShape DEF Tick, vars

\* What an UPDATE that matches leaves in the row.
LEMMA ReplacesWhat ==
  ASSUME TypeOK, NEW c \in Clients, NEW r \in Records, req[c].record = r, Replaces(c, r)
  PROVE  /\ Item(c) \in Row /\ Writing(c)
         /\ rows[r].life = "live" /\ rows[r].version = req[c].expected
         /\ rows'[r].life = cur[c].life /\ rows'[r].version = rows[r].version + 1
         /\ rows'[r].status = Item(c).status
         /\ req[c].op = "update" =>
              rows'[r].status = cur[c].status /\ rows'[r].data = req[c].data
         /\ req[c].op = "transition" =>
              /\ rows'[r].status = req[c].target
              /\ IF r \in Checks THEN rows'[r].data.basis = c ELSE rows'[r].data = cur[c].data
              /\ rows'[r].data.generator = cur[c].data.generator
              /\ rows'[r].data.carrier = cur[c].data.carrier
              /\ rows'[r].data.manifest = cur[c].data.manifest
  <1>1. cur[c] \in Row /\ cur[c].data \in Data
    BY DEF TypeOK, Row
  <1>2. Item(c) \in Row
    BY ItemsTyped DEF Item
  <1>3. /\ Item(c).life = cur[c].life
        /\ req[c].op = "update" =>
             Item(c).status = cur[c].status /\ Item(c).data = req[c].data
        /\ req[c].op = "transition" =>
             /\ Item(c).status = req[c].target
             /\ IF r \in Checks THEN Item(c).data.basis = c ELSE Item(c).data = cur[c].data
             /\ Item(c).data.generator = cur[c].data.generator
             /\ Item(c).data.carrier = cur[c].data.carrier
             /\ Item(c).data.manifest = cur[c].data.manifest
    BY <1>1 DEF Item, Row, Data
  <1>4. /\ rows'[r].life = Item(c).life /\ rows'[r].status = Item(c).status
        /\ rows'[r].data = Item(c).data /\ rows'[r].version = req[c].expected + 1
    BY <1>2 DEF Replaces, Row
  <1>5. Writing(c) /\ rows[r].life = "live" /\ rows[r].version = req[c].expected
    BY DEF Replaces, Matches, Live
  <1> QED
    BY <1>2, <1>3, <1>4, <1>5

\* A soft-deleted row is never written again, whatever versions the clients send.
THEOREM DeletionIsFinal == Spec => DeletedIsFinal
  <1>1. TypeOK /\ [Next]_vars =>
          [\A r \in Records : rows[r].life = "deleted" => rows'[r] = rows[r]]_vars
    BY OneWriter DEF Writer, Inserts, Replaces, Removes, Matches, Live
  <1> QED
    BY <1>1, Typing, PTL DEF Spec, DeletedIsFinal

-----------------------------------------------------------------------------
(***************************************************************************)
(* What holds whatever versions the clients send: a request names a record *)
(* and goes by a row that was judged, and a row that is absent has never   *)
(* been written.                                                           *)
(***************************************************************************)
NamesRecord == \A c \in Clients : pc[c] # "idle" => req[c].record \in Records

AbsentUnwritten ==
  \A r \in Records :
    rows[r].life = "absent" => rows[r].version = 0 /\ rows[r].status = ""

\* A request that is past its Get.
Holds(c) == pc[c] \notin {"idle", "load"} /\ req[c].op # "create"

JInv ==
  /\ TypeOK /\ NamesRecord /\ AbsentUnwritten
  /\ \A c \in Clients : Holds(c) => Judged(c, cur[c])

\* A row keeps its value, gains a version, or is marked deleted.
Evolves(r) ==
  \/ rows'[r] = rows[r]
  \/ rows'[r].version > rows[r].version /\ rows'[r].life = "live"
  \/ rows'[r].version = rows[r].version /\ rows'[r].life = "deleted"

\* What a step leaves in a row; an entry is written with a newer row, or none.
LEMMA RowsEvolve ==
  ASSUME JInv, [Next]_vars, NEW r \in Records
  PROVE  /\ Evolves(r)
         /\ audits'[r] # audits[r] =>
              rows'[r].life = "deleted" \/ rows'[r].version > rows[r].version
  <1> DEFINE Newer ==
        \/ rows'[r].version > rows[r].version /\ rows'[r].life = "live"
        \/ rows'[r].version = rows[r].version /\ rows'[r].life = "deleted"
  <1>1. TypeOK /\ rows[r] \in Row /\ rows[r].version \in Nat
    BY VersionsTyped DEF JInv
  <1>2. ASSUME NEW c \in Clients, Writer(c, r), Inserts(c, r)
        PROVE  Newer
    <2>1. rows[r].version = 0
      BY <1>2 DEF Inserts, JInv, AbsentUnwritten
    <2>2. rows'[r] = [life |-> "live", status |-> InitialStatusOf(r),
                      version |-> 1, data |-> req[c].data]
      BY <1>2 DEF Inserts
    <2>3. rows'[r].version = 1 /\ rows'[r].life = "live"
      BY <2>2
    <2> QED
      BY <2>1, <2>3
  <1>3. ASSUME NEW c \in Clients, Writer(c, r), Replaces(c, r)
        PROVE  Newer
    <2>1. rows'[r].version = rows[r].version + 1 /\ rows'[r].life = cur[c].life /\ Writing(c)
      BY <1>1, <1>3, ReplacesWhat DEF Writer
    <2>2. cur[c].life = "live"
      BY <1>3, <2>1 DEF Writer, Writing, Holds, JInv, Judged
    <2>3. rows[r].version + 1 > rows[r].version
      BY <1>1
    <2> QED
      BY <2>1, <2>2, <2>3
  <1>4. ASSUME NEW c \in Clients, Writer(c, r), Removes(c, r)
        PROVE  Newer
    BY <1>1, <1>4 DEF Removes, Row
  <1>5. \/ rows'[r] = rows[r] /\ audits'[r] = audits[r]
        \/ Newer
    BY <1>1, <1>2, <1>3, <1>4, OneWriter DEF Writer
  <1> QED
    BY <1>5 DEF Evolves

\* It holds of the seeded tables.
LEMMA JudgedInit == ASSUME Init PROVE JInv
  <1>1. AbsentUnwritten
    <2>1. SUFFICES ASSUME NEW r \in Records, InitialRows[r].life = "absent"
                   PROVE  InitialRows[r].version = 0 /\ InitialRows[r].status = ""
      BY DEF Init, StoreInit, AbsentUnwritten
    <2>2. InitialRows[r] = NoRow
      BY <2>1, RecordsAssumption
    <2>3. NoRow.version = 0 /\ NoRow.status = ""
      BY DEF NoRow
    <2> QED
      BY <2>2, <2>3
  <1> QED
    BY <1>1, TypeInit DEF Init, StoreInit, JInv, NamesRecord, Holds

\* No step breaks it.
LEMMA JudgedStep == ASSUME JInv, [Next]_vars PROVE JInv'
  <1>1. TypeOK /\ TypeOK'
    BY TypeStep DEF JInv
  <1>2. AbsentUnwritten'
    BY RowsEvolve DEF AbsentUnwritten, Evolves, JInv
  <1>3. ASSUME NEW c \in Clients
        PROVE  /\ pc'[c] # "idle" => req'[c].record \in Records
               /\ Holds(c)' => Judged(c, cur[c])'
    <2>1. CASE pc'[c] = pc[c] /\ req'[c] = req[c] /\ cur'[c] = cur[c]
      BY <2>1 DEF JInv, NamesRecord, Holds, Judged
    <2>2. CASE Received(c)
      BY <1>1, <2>2, ReceivedWhat DEF Holds
    <2>3. CASE Loaded(c) /\ req[c].record \in Records
      <3>1. Judged(c, rows[req[c].record]) /\ cur'[c] = rows[req[c].record] /\ req' = req
        BY <1>1, <2>3 DEF Loaded, TypeOK
      <3> QED
        BY <2>3, <3>1 DEF Judged
    <2>4. CASE Found(c)
      BY <2>4 DEF Found, JInv, NamesRecord, Holds, Judged
    <2>5. CASE pc'[c] = "idle"
      BY <2>5 DEF Holds
    <2> QED
      BY <1>1, <2>1, <2>2, <2>3, <2>4, <2>5, RequestMoves
  <1> QED
    BY <1>1, <1>2, <1>3 DEF JInv, NamesRecord

-----------------------------------------------------------------------------
(***************************************************************************)
(* No lost update.  The clients number their writes with a version they    *)
(* have seen (Ahead = 0).  WritersHoldJudgedRows is inductive on top of    *)
(* what holds whatever they send.                                          *)
(***************************************************************************)
IInv == JInv /\ WritersHoldJudgedRows

\* A request that waits, while the tables move on, keeps the invariant.
LEMMA WaitingKeeps ==
  ASSUME IInv, [Next]_vars, NEW d \in Clients,
         pc'[d] = pc[d], req'[d] = req[d], cur'[d] = cur[d],
         pc[d] # "idle", Writing(d)
  PROVE  LET row == rows'[req[d].record] IN
         /\ req[d].expected <= row.version
         /\ pc[d] # "load" =>
              /\ Judged(d, cur[d])
              /\ req[d].expected <= cur[d].version
              /\ cur[d].version <= row.version
              /\ row.life = "live" /\ row.version = cur[d].version => row = cur[d]
  <1> DEFINE r == req[d].record
  <1>1. r \in Records
    BY DEF IInv, JInv, NamesRecord
  <1>2. /\ req[d].expected <= rows[r].version
        /\ pc[d] # "load" =>
             /\ Judged(d, cur[d])
             /\ req[d].expected <= cur[d].version
             /\ cur[d].version <= rows[r].version
             /\ rows[r].life = "live" /\ rows[r].version = cur[d].version => rows[r] = cur[d]
    BY DEF IInv, WritersHoldJudgedRows, Writing
  <1>3. Evolves(r)
    BY <1>1, RowsEvolve DEF IInv
  <1>4. TypeOK /\ TypeOK'
    BY TypeStep DEF IInv, JInv
  <1>5. /\ rows[r].version \in Nat /\ cur[d].version \in Nat /\ req[d].expected \in Nat
        /\ rows'[r].version \in Nat
    <2>1. rows'[r] \in Row
      BY <1>1, <1>4 DEF TypeOK
    <2> QED
      BY <1>1, <1>4, <2>1, VersionsTyped, RowVersions
  <1> HIDE DEF r
  <1>6. \/ rows'[r] = rows[r]
        \/ rows'[r].version > rows[r].version
        \/ rows'[r].version = rows[r].version /\ rows'[r].life # "live"
    BY <1>3 DEF Evolves
  <1> QED
    BY <1>2, <1>5, <1>6 DEF r

\* It holds of the seeded tables.
LEMMA InvInit == ASSUME Init PROVE IInv
  BY JudgedInit DEF Init, StoreInit, IInv, WritersHoldJudgedRows

\* A client that is not ahead sends no more than a version it has seen.
LEMMA NothingAhead ==
  ASSUME Ahead = 0, NEW n \in Nat
  PROVE  n + Ahead = n
  OBVIOUS

\* No step breaks it, as long as no client numbers ahead.
LEMMA InvStep == ASSUME Ahead = 0, IInv, [Next]_vars PROVE IInv'
  <1>1. JInv' /\ TypeOK
    BY JudgedStep DEF IInv, JInv
  <1>2. WritersHoldJudgedRows'
    <2> SUFFICES ASSUME NEW d \in Clients, pc'[d] # "idle", Writing(d)'
                 PROVE  LET row == rows'[req'[d].record] IN
                        /\ req'[d].expected <= row.version
                        /\ pc'[d] # "load" =>
                             /\ Judged(d, cur[d])'
                             /\ req'[d].expected <= cur'[d].version
                             /\ cur'[d].version <= row.version
                             /\ row.life = "live" /\ row.version = cur'[d].version
                                  => row = cur'[d]
      BY DEF WritersHoldJudgedRows, Writing
    <2>1. CASE pc'[d] = pc[d] /\ req'[d] = req[d] /\ cur'[d] = cur[d]
      BY <2>1, WaitingKeeps DEF Writing, Judged
    <2>2. CASE Received(d)
      <3>1. /\ req'[d].record \in Records /\ rows' = rows /\ pc'[d] = "load"
            /\ req'[d].expected <= rows[req'[d].record].version + Ahead
        BY <1>1, <2>2, ReceivedWhat DEF Writing
      <3>2. rows[req'[d].record].version \in Nat
        BY <1>1, <3>1, VersionsTyped
      <3> QED
        BY <3>1, <3>2, NothingAhead
    <2>3. CASE Loaded(d)
      <3>1. /\ rows' = rows /\ req' = req /\ cur'[d] = rows[req[d].record]
            /\ Judged(d, rows[req[d].record]) /\ pc[d] = "load"
        BY <1>1, <2>3 DEF Loaded, TypeOK
      <3>2. req[d].expected <= rows[req[d].record].version
        BY <3>1 DEF IInv, WritersHoldJudgedRows, Writing
      <3>3. rows[req[d].record].version \in Nat
        BY <1>1, <3>1, VersionsTyped DEF IInv, JInv, NamesRecord
      <3>4. Judged(d, cur[d])'
        BY <3>1 DEF Judged
      <3> QED
        BY <3>1, <3>2, <3>3, <3>4
    <2>4. CASE Found(d)
      BY <2>4 DEF Found, IInv, WritersHoldJudgedRows, Writing, Judged
    <2> QED
      BY <1>1, <2>1, <2>2, <2>3, <2>4, RequestMoves
  <1> QED
    BY <1>1, <1>2 DEF IInv

\* The update that commits replaces the row its service read.
LEMMA MatchIsFresh ==
  ASSUME IInv, NEW c \in Clients, pc[c] = "commit", Writing(c),
         Matches(req[c].record, req[c].expected)
  PROVE  rows[req[c].record] = cur[c]
  <1> DEFINE r == req[c].record
  <1>1. /\ req[c].expected <= cur[c].version /\ cur[c].version <= rows[r].version
        /\ rows[r].life = "live" /\ rows[r].version = cur[c].version => rows[r] = cur[c]
    BY DEF IInv, WritersHoldJudgedRows, Writing
  <1>2. rows[r].version = req[c].expected /\ rows[r].life = "live"
    BY DEF Matches, Live
  <1>3. rows[r].version \in Nat /\ cur[c].version \in Nat
    BY VersionsTyped DEF IInv, JInv, NamesRecord
  <1> QED
    BY <1>1, <1>2, <1>3

\* Clients that number their writes with a version they have seen never undo
\* each other's: a matching UPDATE replaces exactly the row that was judged.
THEOREM NoLostUpdate == Ahead = 0 => (Spec => []ReplacesWhatItRead)
  <1> SUFFICES ASSUME Ahead = 0 PROVE Spec => []ReplacesWhatItRead
    OBVIOUS
  <1>1. Init => IInv
    BY InvInit
  <1>2. IInv /\ [Next]_vars => IInv'
    BY InvStep
  <1>3. IInv => ReplacesWhatItRead
    BY MatchIsFresh DEF ReplacesWhatItRead, Writing
  <1> QED
    BY <1>1, <1>2, <1>3, PTL DEF Spec

\* A request between its reads and its commit holds a row that was judged and
\* that the table has not left behind unnoticed.
THEOREM JudgedRows == Ahead = 0 => (Spec => []WritersHoldJudgedRows)
  <1> SUFFICES ASSUME Ahead = 0 PROVE Spec => []WritersHoldJudgedRows
    OBVIOUS
  <1>1. Init => IInv
    BY InvInit
  <1>2. IInv /\ [Next]_vars => IInv'
    BY InvStep
  <1>3. IInv => WritersHoldJudgedRows
    BY DEF IInv
  <1> QED
    BY <1>1, <1>2, <1>3, PTL DEF Spec

-----------------------------------------------------------------------------
(***************************************************************************)
(* What a step may do to one row: an atomic write that keeps the rules of  *)
(* its kind, although the request was judged on an earlier read.           *)
(***************************************************************************)
Change(r) ==
  \/ rows'[r] = rows[r]
  \/ /\ rows[r].life = "absent"
     /\ rows'[r].status = InitialStatusOf(r)
  \/ /\ rows[r].life = "live"
     /\ r \in Manifests => rows[r].status = "draft"
     /\ r \in Checks => rows[r].status = "pending"
     /\ rows'[r].status = rows[r].status
  \/ /\ rows[r].life = "live"
     /\ CanTransition(TransitionsOf(r), rows[r].status, rows'[r].status)
     /\ r \notin Checks => rows'[r].data = rows[r].data
     /\ rows'[r].data.manifest = rows[r].data.manifest
  \/ /\ rows[r].life = "live"
     /\ rows'[r].status = rows[r].status
     /\ rows'[r].data = rows[r].data

\* A request that commits changes its row in a way its kind allows.
\* A request that commits changes its row in a way its kind allows.
LEMMA RowsChange ==
  ASSUME IInv, [Next]_vars, NEW r \in Records
  PROVE  Change(r)
  <1>1. TypeOK /\ rows[r] \in Row
    BY VersionsTyped DEF IInv, JInv
  <1>2. ASSUME NEW c \in Clients, Writer(c, r), Inserts(c, r)
        PROVE  Change(r)
    <2>1. rows'[r] = [life |-> "live", status |-> InitialStatusOf(r),
                      version |-> 1, data |-> req[c].data]
      BY <1>2 DEF Inserts
    <2>2. rows'[r].status = InitialStatusOf(r)
      BY <2>1
    <2> QED
      BY <1>2, <2>2 DEF Inserts, Change
  <1>3. ASSUME NEW c \in Clients, Writer(c, r), Replaces(c, r)
        PROVE  Change(r)
    <2>1. req[c].record = r /\ pc[c] = "commit" /\ Writing(c)
      BY <1>3 DEF Writer, Replaces
    <2>2. rows[r] = cur[c] /\ Judged(c, cur[c])
      BY <1>3, <2>1, MatchIsFresh DEF Replaces, IInv, JInv, Holds, Writing
    <2>3. /\ rows[r].life = "live"
          /\ req[c].op = "update" => rows'[r].status = cur[c].status
          /\ req[c].op = "transition" =>
               /\ rows'[r].status = req[c].target
               /\ r \notin Checks => rows'[r].data = cur[c].data
               /\ rows'[r].data.manifest = cur[c].data.manifest
      BY <1>1, <1>3, <2>1, ReplacesWhat
    <2>4. CASE req[c].op = "update"
      BY <2>1, <2>2, <2>3, <2>4 DEF Change, Judged
    <2>5. CASE req[c].op = "transition"
      BY <2>1, <2>2, <2>3, <2>5 DEF Change, Judged
    <2> QED
      BY <2>1, <2>4, <2>5 DEF Writing
  <1>4. ASSUME NEW c \in Clients, Writer(c, r), Removes(c, r)
        PROVE  Change(r)
    BY <1>1, <1>4 DEF Removes, Row, Change
  <1> QED
    BY <1>1, <1>2, <1>3, <1>4, OneWriter DEF Writer, Change

\* Every stored status change of every kind is an edge of its graph.
THEOREM StatusesFollowGraphs == Ahead = 0 => (Spec => StatusFollowsGraph)
  <1> SUFFICES ASSUME Ahead = 0 PROVE Spec => StatusFollowsGraph
    OBVIOUS
  <1>1. Init => IInv
    BY InvInit
  <1>2. IInv /\ [Next]_vars => IInv'
    BY InvStep
  <1>3. IInv /\ [Next]_vars =>
          [\A r \in Records :
             rows'[r].status # rows[r].status =>
               \/ CanTransition(TransitionsOf(r), rows[r].status, rows'[r].status)
               \/ rows[r].life = "absent" /\ rows'[r].status = InitialStatusOf(r)]_vars
    BY RowsChange DEF Change
  <1> QED
    BY <1>1, <1>2, <1>3, PTL DEF Spec, StatusFollowsGraph

\* A decision never leaves a check where it was.
LEMMA NoSelfLoop == \A s : ~ CanTransition(ComplianceCheckTransitions, s, s)
  BY DEF CanTransition, ComplianceCheckTransitions

\* What is submitted or decided keeps its content, however edits interleave.
THEOREM DecisionsFreeze == Ahead = 0 => (Spec => FrozenOnceDecided)
  <1> SUFFICES ASSUME Ahead = 0 PROVE Spec => FrozenOnceDecided
    OBVIOUS
  <1>1. Init => IInv
    BY InvInit
  <1>2. IInv /\ [Next]_vars => IInv'
    BY InvStep
  <1>3. IInv /\ [Next]_vars =>
          [/\ \A m \in Manifests :
                rows[m].status \notin {"", "draft"} => rows'[m].data = rows[m].data
           /\ \A k \in Checks :
                rows[k].status \notin {"", "pending"} =>
                  /\ rows'[k].data.manifest = rows[k].data.manifest
                  /\ rows'[k].status = rows[k].status => rows'[k].data = rows[k].data]_vars
    <2>1. SUFFICES ASSUME IInv, [Next]_vars
          PROVE  /\ \A m \in Manifests :
                      rows[m].status \notin {"", "draft"} => rows'[m].data = rows[m].data
                 /\ \A k \in Checks :
                      rows[k].status \notin {"", "pending"} =>
                        /\ rows'[k].data.manifest = rows[k].data.manifest
                        /\ rows'[k].status = rows[k].status => rows'[k].data = rows[k].data
      OBVIOUS
    <2>2. ASSUME NEW m \in Manifests, rows[m].status \notin {"", "draft"}
          PROVE  rows'[m].data = rows[m].data
      <3>1. m \in Records /\ m \notin Checks
        BY RecordsAssumption DEF Records
      <3>2. rows[m].life # "absent"
        BY <2>1, <2>2, <3>1 DEF IInv, JInv, AbsentUnwritten
      <3> QED
        BY <2>1, <2>2, <3>1, <3>2, RowsChange DEF Change
    <2>3. ASSUME NEW k \in Checks, rows[k].status \notin {"", "pending"}
          PROVE  /\ rows'[k].data.manifest = rows[k].data.manifest
                 /\ rows'[k].status = rows[k].status => rows'[k].data = rows[k].data
      <3>1. k \in Records /\ TransitionsOf(k) = ComplianceCheckTransitions
        BY KindsDisjoint DEF Records
      <3>2. rows[k].life # "absent"
        BY <2>1, <2>3, <3>1 DEF IInv, JInv, AbsentUnwritten
      <3> QED
        BY <2>1, <2>3, <3>1, <3>2, NoSelfLoop, RowsChange DEF Change
    <2> QED
      BY <2>2, <2>3
  <1> QED
    BY <1>1, <1>2, <1>3, PTL DEF Spec, FrozenOnceDecided

-----------------------------------------------------------------------------
(***************************************************************************)
(* Links.  There are no foreign keys, and a request looks up what it names *)
(* long before it commits.  A code once used stays used, whatever versions *)
(* the clients send, so what was found exists at the commit.               *)
(***************************************************************************)
Exists(code) == code \in Records /\ rows[code].life # "absent"

\* What the records named by data of r are, whether they exist or not.
NamesParties(r, data) ==
  /\ r \in Manifests => data.generator \in Generators /\ data.carrier \in Carriers
  /\ r \in Checks => data.manifest \in Manifests

\* The records that a create or an update has looked up by now exist.
LookedUp(c) ==
  LET r == req[c].record
      data == req[c].data
  IN
  pc[c] # "idle" /\ req[c].op \in {"create", "update"} =>
    /\ NamesParties(r, data)
    /\ r \in Manifests /\ pc[c] \in {"carrier", "commit"} => Exists(data.generator)
    /\ r \in Manifests /\ pc[c] = "commit" => Exists(data.carrier)
    /\ r \in Checks /\ pc[c] = "commit" => Exists(data.manifest)

\* A row with a status, whose links name records that were created.
Sound(r, row) == row.status \in Statuses /\ RegistryOf!Linked(r, row.data)

LInv ==
  /\ JInv
  /\ \A r \in Records : rows[r].life # "absent" => Sound(r, rows[r])
  /\ \A c \in Clients : LookedUp(c) /\ (Holds(c) => Sound(req[c].record, cur[c]))

-----------------------------------------------------------------------------
(* Lookups.                                                                *)

\* A record is of one kind.
LEMMA OneKind ==
  ASSUME NEW r
  PROVE  /\ r \in Generators => r \notin Manifests /\ r \notin Checks
         /\ r \in Carriers => r \notin Manifests /\ r \notin Checks
         /\ r \in Manifests => r \notin Checks
  BY RecordsAssumption

\* A decoded create or update that starts before its lookups.
LEMMA ReceivedLooksUp ==
  ASSUME TypeOK, NEW c \in Clients, NEW op, NEW r, NEW v, NEW t, NEW data, NEW p,
         Receive(c, op, r, v, t, data, p),
         op \in {"create", "update"} =>
           /\ NamesParties(r, data)
           /\ r \in Manifests => p \notin {"carrier", "commit"}
           /\ r \in Checks => p # "commit"
  PROVE  LookedUp(c)'
<1>1. /\ req'[c].op = op /\ req'[c].record = r /\ req'[c].data = data
      /\ pc'[c] = p
  BY DEF Receive, TypeOK
<1> QED
  BY <1>1 DEF LookedUp, NamesParties

\* A request that is answered has nothing left to look up.
LEMMA AnsweredLooksUp ==
  ASSUME TypeOK, NEW c \in Clients, Answer(c)
  PROVE  LookedUp(c)'
<1>1. pc'[c] = "idle"
  BY DEF Answer, TypeOK
<1> QED
  BY <1>1 DEF LookedUp

\* Generators and carriers name no records.
LEMMA PartiesLookUp ==
  ASSUME TypeOK, NEW c \in Clients, LookedUp(c),
         WasteGeneratorStep(c) \/ CarrierProfileStep(c)
  PROVE  LookedUp(c)'
<1>1. CASE WasteGeneratorRequest(c) \/ CarrierProfileRequest(c)
  <2>1. PICK r \in Generators \cup Carriers :
          \E op, v, t, data, p : Receive(c, op, r, v, t, data, p)
    BY <1>1 DEF WasteGeneratorRequest, CarrierProfileRequest
  <2>2. PICK op, v, t, data, p : Receive(c, op, r, v, t, data, p)
    BY <2>1
  <2> QED
    BY <2>1, <2>2, ReceivedLooksUp, OneKind DEF NamesParties
<1>2. CASE /\ req[c].record \in Generators \cup Carriers
           /\ UNCHANGED req
  BY <1>2, OneKind DEF LookedUp, NamesParties
<1>3. CASE Answer(c)
  BY <1>3, AnsweredLooksUp
<1> QED
  BY <1>1, <1>2, <1>3
     DEF WasteGeneratorStep, CreateGenerator, UpdateGenerator, TransitionGenerator, DeleteGenerator,
         CarrierProfileStep, CreateCarrier, UpdateCarrier, TransitionCarrier, DeleteCarrier,
         Handling, Get, CreateAudited, UpdateAudited, DeleteAudited, Proceed

\* A manifest's request finds its generator, then its carrier, then commits.
LEMMA ManifestLooksUp ==
  ASSUME TypeOK, NEW c \in Clients, LookedUp(c), TransferManifestStep(c)
  PROVE  LookedUp(c)'
<1>1. CASE TransferManifestRequest(c)
  <2>1. PICK r \in Manifests :
          \/ \E data \in ManifestData : Receive(c, "create", r, 0, "", data, "generator")
          \/ \E data \in ManifestData, v \in ExpectedVersions(r) :
               Receive(c, "update", r, v, "", data, "load")
          \/ \E t \in DOMAIN TransferManifestTransitions, v \in ExpectedVersions(r) :
               Receive(c, "transition", r, v, t, BlankData, "load")
          \/ Receive(c, "delete", r, 0, "", BlankData, "load")
    BY <1>1 DEF TransferManifestRequest
  <2>2. \A data \in ManifestData : NamesParties(r, data)
    BY OneKind DEF ManifestData, NamesParties
  <2> QED
    BY <2>1, <2>2, ReceivedLooksUp, OneKind
<1>2. CASE Answer(c)
  BY <1>2, AnsweredLooksUp
<1>3. ASSUME Handling(c, Manifests, "create") \/ Handling(c, Manifests, "update"),
             UNCHANGED <<rows, req>>,
             \/ pc'[c] = "generator"
             \/ FindParties(c)
      PROVE  LookedUp(c)'
  <2>1. /\ pc[c] # "idle" /\ req[c].op \in {"create", "update"}
        /\ req[c].record \in Manifests /\ req[c].record \notin Checks
    BY <1>3, OneKind DEF Handling
  <2>2. /\ req[c].data.generator \in Generators /\ req[c].data.carrier \in Carriers
        /\ pc[c] \in {"carrier", "commit"} => Exists(req[c].data.generator)
    BY <2>1 DEF LookedUp, NamesParties
  <2>3. CASE pc'[c] = "generator"
    BY <1>3, <2>1, <2>2, <2>3 DEF LookedUp, NamesParties
  <2>4. CASE pc[c] = "generator" /\ pc'[c] = "carrier" /\ Live(req[c].data.generator)
    BY <1>3, <2>1, <2>2, <2>4 DEF LookedUp, NamesParties, Exists, Live, Records
  <2>5. CASE pc[c] = "carrier" /\ pc'[c] = "commit" /\ Live(req[c].data.carrier)
    BY <1>3, <2>1, <2>2, <2>5 DEF LookedUp, NamesParties, Exists, Live, Records
  <2> QED
    BY <1>2, <1>3, <2>3, <2>4, <2>5 DEF FindParties, FindByCode, Proceed, TypeOK
<1>4. CASE CreateManifest(c)
  BY <1>2, <1>3, <1>4 DEF CreateManifest, FindParties, FindByCode, Proceed, CreateAudited
<1>5. CASE UpdateManifest(c)
  BY <1>2, <1>3, <1>5
     DEF UpdateManifest, FindParties, FindByCode, Proceed, UpdateAudited, Get, TypeOK
<1>6. CASE TransitionManifest(c) \/ DeleteManifest(c)
  <2>1. CASE req[c].op \in {"transition", "delete"} /\ UNCHANGED req
    BY <2>1 DEF LookedUp
  <2> QED
    BY <1>2, <1>6, <2>1
       DEF TransitionManifest, DeleteManifest, Handling, ValidateLinkedParties, FindByCode,
           Proceed, UpdateAudited, DeleteAudited, Get
<1> QED
  BY <1>1, <1>4, <1>5, <1>6 DEF TransferManifestStep

\* A check's request finds its manifest, then commits.
LEMMA CheckLooksUp ==
  ASSUME TypeOK, NEW c \in Clients, LookedUp(c), ComplianceCheckStep(c)
  PROVE  LookedUp(c)'
<1>1. CASE ComplianceCheckRequest(c)
  <2>1. PICK r \in Checks :
          \/ \E data \in CheckData(c) : Receive(c, "create", r, 0, "", data, "manifest")
          \/ \E data \in CheckData(c), v \in ExpectedVersions(r) :
               Receive(c, "update", r, v, "", data, "load")
          \/ \E t \in DOMAIN ComplianceCheckTransitions, v \in ExpectedVersions(r) :
               Receive(c, "transition", r, v, t, BlankData, "load")
          \/ Receive(c, "delete", r, 0, "", BlankData, "load")
    BY <1>1 DEF ComplianceCheckRequest
  <2>2. \A data \in CheckData(c) : NamesParties(r, data)
    BY OneKind DEF CheckData, NamesParties
  <2> QED
    BY <2>1, <2>2, ReceivedLooksUp, OneKind
<1>2. CASE Answer(c)
  BY <1>2, AnsweredLooksUp
<1>3. ASSUME Handling(c, Checks, "create") \/ Handling(c, Checks, "update"),
             UNCHANGED <<rows, req>>,
             \/ pc'[c] = "manifest"
             \/ FindManifest(c)
      PROVE  LookedUp(c)'
  <2>1. /\ pc[c] # "idle" /\ req[c].op \in {"create", "update"}
        /\ req[c].record \in Checks /\ req[c].record \notin Manifests
    BY <1>3, OneKind DEF Handling
  <2>2. req[c].data.manifest \in Manifests
    BY <2>1 DEF LookedUp, NamesParties
  <2>3. CASE pc'[c] = "manifest"
    BY <1>3, <2>1, <2>2, <2>3 DEF LookedUp, NamesParties
  <2>4. CASE pc'[c] = "commit" /\ Live(req[c].data.manifest)
    BY <1>3, <2>1, <2>2, <2>4 DEF LookedUp, NamesParties, Exists, Live, Records
  <2> QED
    BY <1>2, <1>3, <2>3, <2>4 DEF FindManifest, FindByCode, Proceed, TypeOK
<1>4. CASE CreateCheck(c)
  BY <1>2, <1>3, <1>4 DEF CreateCheck, FindManifest, FindByCode, Proceed, CreateAudited
<1>5. CASE UpdateCheck(c)
  BY <1>2, <1>3, <1>5
     DEF UpdateCheck, FindManifest, FindByCode, Proceed, UpdateAudited, Get, TypeOK
<1>6. CASE TransitionCheck(c) \/ DeleteCheck(c)
  <2>1. CASE req[c].op \in {"transition", "delete"} /\ UNCHANGED req
    BY <2>1 DEF LookedUp
  <2> QED
    BY <1>2, <1>6, <2>1
       DEF TransitionCheck, DeleteCheck, Handling, FindByCode, Proceed, UpdateAudited,
           DeleteAudited, Get
<1> QED
  BY <1>1, <1>4, <1>5, <1>6 DEF ComplianceCheckStep

\* A code once used stays used.
LEMMA CodesStay ==
  ASSUME JInv, [Next]_vars, NEW code, Exists(code)
  PROVE  Exists(code)'
  BY RowsEvolve DEF Exists, Evolves

\* Every request's lookups hold, whoever takes the step.
LEMMA LookupsStep ==
  ASSUME JInv, [Next]_vars, \A c \in Clients : LookedUp(c), NEW c \in Clients
  PROVE  LookedUp(c)'
<1> TypeOK
  BY DEF JInv
<1>1. ASSUME pc'[c] = pc[c], req'[c] = req[c]
      PROVE  LookedUp(c)'
  BY <1>1, CodesStay DEF LookedUp, NamesParties
<1>2. ASSUME NEW d \in Clients, ClientStep(d)
      PROVE  LookedUp(c)'
  <2>1. CASE c = d
    BY <1>2, <2>1, PartiesLookUp, ManifestLooksUp, CheckLooksUp, AnsweredLooksUp
       DEF ClientStep, Fail
  <2>2. CASE c # d
    <3>1. Shape(d)
      BY <1>2, GeneratorShape, CarrierShape, ManifestShape, CheckShape
         DEF ClientStep, Fail, Shape, Answered
    <3> QED
      BY <1>1, <2>2, <3>1, OthersWait
  <2> QED
    BY <2>1, <2>2
<1>3. CASE Tick \/ UNCHANGED vars
  BY <1>1, <1>3 DEF Tick, vars
<1> QED
  BY <1>2, <1>3 DEF Next

-----------------------------------------------------------------------------
(* The invariant is inductive.                                             *)

\* The registry's records are the platform's.
LEMMA SameRecords ==
  /\ RegistryOf!Records = Records /\ RegistryOf!Data = Data /\ RegistryOf!Statuses = Statuses
  /\ \A r : /\ RegistryOf!TransitionsOf(r) = TransitionsOf(r)
            /\ RegistryOf!InitialStatusOf(r) = InitialStatusOf(r)
  /\ \A graph, from, to :
       RegistryOf!CanTransition(graph, from, to) <=> CanTransition(graph, from, to)
<1>1. RegistryOf!Records = Records
  BY DEF Records, RegistryOf!Records
<1>2. RegistryOf!Data = Data
  BY DEF Data, RegistryOf!Data
<1>3. RegistryOf!Statuses = Statuses
  BY DEF Statuses, RegistryOf!Statuses
<1>4. /\ RegistryOf!WasteGeneratorTransitions = WasteGeneratorTransitions
      /\ RegistryOf!CarrierProfileTransitions = CarrierProfileTransitions
      /\ RegistryOf!TransferManifestTransitions = TransferManifestTransitions
      /\ RegistryOf!ComplianceCheckTransitions = ComplianceCheckTransitions
  BY DEF WasteGeneratorTransitions, RegistryOf!WasteGeneratorTransitions,
         CarrierProfileTransitions, RegistryOf!CarrierProfileTransitions,
         TransferManifestTransitions, RegistryOf!TransferManifestTransitions,
         ComplianceCheckTransitions, RegistryOf!ComplianceCheckTransitions
<1>5. ASSUME NEW r PROVE RegistryOf!TransitionsOf(r) = TransitionsOf(r)
  BY <1>4 DEF TransitionsOf, RegistryOf!TransitionsOf
<1>6. ASSUME NEW r PROVE RegistryOf!InitialStatusOf(r) = InitialStatusOf(r)
  BY DEF InitialStatusOf, RegistryOf!InitialStatusOf,
         WasteGeneratorInitialStatus, RegistryOf!WasteGeneratorInitialStatus,
         CarrierProfileInitialStatus, RegistryOf!CarrierProfileInitialStatus,
         TransferManifestInitialStatus, RegistryOf!TransferManifestInitialStatus,
         ComplianceCheckInitialStatus, RegistryOf!ComplianceCheckInitialStatus
<1>7. ASSUME NEW graph, NEW from, NEW to
      PROVE  RegistryOf!CanTransition(graph, from, to) <=> CanTransition(graph, from, to)
  BY DEF CanTransition, RegistryOf!CanTransition
<1> QED
  BY <1>1, <1>2, <1>3, <1>5, <1>6, <1>7

\* The graphs end in statuses.
LEMMA EdgesTyped ==
  ASSUME NEW r \in Records, NEW from, NEW to, CanTransition(TransitionsOf(r), from, to)
  PROVE  to \in Statuses
<1>1. CASE r \in Generators
  BY <1>1, KindsDisjoint DEF CanTransition, WasteGeneratorTransitions, Statuses
<1>2. CASE r \in Carriers
  BY <1>2, KindsDisjoint DEF CanTransition, CarrierProfileTransitions, Statuses
<1>3. CASE r \in Manifests
  BY <1>3, KindsDisjoint DEF CanTransition, TransferManifestTransitions, Statuses
<1>4. CASE r \in Checks
  BY <1>4, KindsDisjoint DEF CanTransition, ComplianceCheckTransitions, Statuses
<1> QED
  BY <1>1, <1>2, <1>3, <1>4 DEF Records

\* A row that was sound stays sound, even a copy: no record it names goes away.
LEMMA SoundStays ==
  ASSUME JInv, [Next]_vars, NEW r, NEW row, NEW row1, Sound(r, row),
         row1.status \in Statuses, row1.data.generator = row.data.generator,
         row1.data.carrier = row.data.carrier, row1.data.manifest = row.data.manifest
  PROVE  Sound(r, row1)'
<1>1. ASSUME NEW code, RegistryOf!Created(code)
      PROVE  RegistryOf!Created(code)'
  BY <1>1, CodesStay, SameRecords DEF Exists, RegistryOf!Created
<1> QED
  BY <1>1 DEF Sound, RegistryOf!Linked

\* What a create or an update has looked up is what its row will name.
LEMMA LookedUpLinks ==
  ASSUME LInv, NEW c \in Clients, pc[c] = "commit", req[c].op \in {"create", "update"}
  PROVE  RegistryOf!Linked(req[c].record, req[c].data)
  BY SameRecords DEF LInv, LookedUp, NamesParties, Exists, RegistryOf!Linked, RegistryOf!Created

\* Every write leaves a sound row.
LEMMA RowsStaySound ==
  ASSUME LInv, [Next]_vars, NEW r \in Records, rows'[r].life # "absent"
  PROVE  Sound(r, rows[r])'
<1>1. TypeOK /\ JInv /\ rows[r] \in Row
  BY VersionsTyped DEF LInv, JInv
<1>2. CASE rows'[r] = rows[r]
  BY <1>1, <1>2, SoundStays DEF LInv, Sound
<1>3. ASSUME NEW c \in Clients, Writer(c, r), Inserts(c, r)
      PROVE  Sound(r, rows[r])'
  <2>1. rows'[r] = [life |-> "live", status |-> InitialStatusOf(r),
                    version |-> 1, data |-> req[c].data]
    BY <1>3 DEF Inserts
  <2>2. rows'[r].status = InitialStatusOf(r) /\ rows'[r].data = req[c].data
    BY <2>1
  <2>3. InitialStatusOf(r) \in Statuses
    BY KindsDisjoint
  <2>4. Sound(r, [status |-> InitialStatusOf(r), data |-> req[c].data])
    BY <1>3, <2>3, LookedUpLinks DEF Writer, Inserts, Sound
  <2> QED
    BY <1>1, <2>2, <2>3, <2>4, SoundStays
<1>4. ASSUME NEW c \in Clients, Writer(c, r), Replaces(c, r)
      PROVE  Sound(r, rows[r])'
  <2>1. req[c].record = r /\ pc[c] = "commit" /\ Writing(c) /\ Holds(c)
    BY <1>4 DEF Writer, Replaces, Writing, Holds
  <2>2. Sound(r, cur[c]) /\ Judged(c, cur[c])
    BY <2>1 DEF LInv, JInv
  <2>3. CASE req[c].op = "update"
    <3>1. rows'[r].status = cur[c].status /\ rows'[r].data = req[c].data
      BY <1>1, <1>4, <2>1, <2>3, ReplacesWhat
    <3>2. Sound(r, [status |-> cur[c].status, data |-> req[c].data])
      BY <2>1, <2>2, <2>3, LookedUpLinks DEF Sound
    <3>3. cur[c].status \in Statuses
      BY <2>2 DEF Sound
    <3> QED
      BY <1>1, <3>1, <3>2, <3>3, SoundStays
  <2>4. CASE req[c].op = "transition"
    <3>1. /\ rows'[r].status = req[c].target
          /\ rows'[r].data.generator = cur[c].data.generator
          /\ rows'[r].data.carrier = cur[c].data.carrier
          /\ rows'[r].data.manifest = cur[c].data.manifest
      BY <1>1, <1>4, <2>1, <2>4, ReplacesWhat
    <3>2. req[c].target \in Statuses
      BY <2>1, <2>2, <2>4, EdgesTyped DEF Judged
    <3> QED
      BY <1>1, <2>2, <3>1, <3>2, SoundStays
  <2> QED
    BY <2>1, <2>3, <2>4 DEF Writing
<1>5. ASSUME NEW c \in Clients, Writer(c, r), Removes(c, r)
      PROVE  Sound(r, rows[r])'
  <2>1. /\ rows'[r].status = rows[r].status /\ rows'[r].data = rows[r].data
        /\ rows[r].life = "live"
    BY <1>1, <1>5 DEF Removes, Row
  <2>2. Sound(r, rows[r])
    BY <2>1 DEF LInv
  <2>3. rows'[r].status \in Statuses
    BY <2>1, <2>2 DEF Sound
  <2> QED
    BY <1>1, <2>1, <2>2, <2>3, SoundStays
<1> QED
  BY <1>1, <1>2, <1>3, <1>4, <1>5, OneWriter DEF Writer

\* Every copy a request goes by stays sound.
LEMMA CopiesStaySound ==
  ASSUME LInv, [Next]_vars, NEW c \in Clients, Holds(c)'
  PROVE  Sound(req[c].record, cur[c])'
<1>1. TypeOK /\ JInv
  BY DEF LInv, JInv
<1>2. ASSUME Sound(req[c].record, cur'[c]), req'[c] = req[c]
      PROVE  Sound(req[c].record, cur[c])'
  <2>1. PICK s, row : s = req[c].record /\ row = cur'[c]
    OBVIOUS
  <2>2. Sound(s, row)'
    BY <1>1, <1>2, <2>1, SoundStays DEF Sound
  <2> QED
    BY <1>2, <2>1, <2>2 DEF Sound
<1>3. CASE pc'[c] = pc[c] /\ req'[c] = req[c] /\ cur'[c] = cur[c]
  BY <1>2, <1>3 DEF LInv, Holds
<1>4. CASE Received(c)
  BY <1>1, <1>4, ReceivedWhat DEF Holds
<1>5. CASE Loaded(c) /\ req[c].record \in Records
  <2>1. Judged(c, rows[req[c].record]) /\ cur'[c] = rows[req[c].record] /\ req' = req
    BY <1>1, <1>5 DEF Loaded, TypeOK
  <2>2. Sound(req[c].record, rows[req[c].record])
    BY <1>5, <2>1 DEF Judged, LInv
  <2> QED
    BY <1>2, <2>1, <2>2
<1>6. CASE Found(c)
  BY <1>2, <1>6 DEF Found, LInv, Holds
<1> QED
  BY <1>1, <1>3, <1>4, <1>5, <1>6, RequestMoves DEF Holds

\* It holds of the seeded tables.
LEMMA LinksInit == ASSUME Init PROVE LInv
<1>1. ASSUME NEW r \in Records, rows[r].life # "absent" PROVE Sound(r, rows[r])
  <2>1. \A code \in Records : rows[code] = InitialRows[code] /\ rows[code] \in Row
    BY RecordsAssumption DEF Init, StoreInit
  <2>2. \A code \in Records : rows[code] # NoRow => rows[code].life # "absent"
    BY <2>1, RecordsAssumption
  <2>3. rows[r] # NoRow
    <3>1. NoRow.life = "absent"
      BY DEF NoRow
    <3> QED
      BY <1>1, <3>1
  <2>4. /\ rows[r].status \in Statuses \cup {""} /\ rows[r].data \in Data
    BY <2>1 DEF Row
  <2>5. /\ rows[r].status # ""
        /\ r \in Manifests => \A code \in {rows[r].data.generator, rows[r].data.carrier} :
                                code # None /\ InitialRows[code] # NoRow
        /\ r \in Checks => rows[r].data.manifest # None /\ InitialRows[rows[r].data.manifest] # NoRow
    BY <2>1, <2>3, SeedAssumption
  <2>6. /\ r \in Manifests => Exists(rows[r].data.generator) /\ Exists(rows[r].data.carrier)
        /\ r \in Checks => Exists(rows[r].data.manifest)
    BY <2>1, <2>2, <2>4, <2>5 DEF Exists, Data, Records
  <2> QED
    BY <2>4, <2>5, <2>6, SameRecords DEF Exists, Sound, RegistryOf!Linked, RegistryOf!Created
<1>2. ASSUME NEW c \in Clients PROVE LookedUp(c) /\ ~ Holds(c)
  BY DEF Init, StoreInit, LookedUp, Holds
<1> QED
  BY <1>1, <1>2, JudgedInit DEF LInv

\* No step breaks it.
LEMMA LinksStep == ASSUME LInv, [Next]_vars PROVE LInv'
<1>1. JInv'
  BY JudgedStep DEF LInv
<1>2. ASSUME NEW r \in Records, rows'[r].life # "absent" PROVE Sound(r, rows[r])'
  BY <1>2, RowsStaySound
<1>3. ASSUME NEW c \in Clients
      PROVE  LookedUp(c)' /\ (Holds(c)' => Sound(req[c].record, cur[c])')
  BY LookupsStep, CopiesStaySound DEF LInv
<1> QED
  BY <1>1, <1>2, <1>3 DEF LInv

\* The parties of a manifest and the manifest of a check are records that exist
\* or were deleted, without a foreign key and whatever versions the clients send.
THEOREM Links == Spec => []LinksResolve
<1>1. Init => LInv
  BY LinksInit
<1>2. LInv /\ [Next]_vars => LInv'
  BY LinksStep
<1>3. LInv => LinksResolve
  BY DEF LInv, Sound, LinksResolve, RegistryOf!Linked, RegistryOf!Created, Records
<1> QED
  BY <1>1, <1>2, <1>3, PTL DEF Spec

-----------------------------------------------------------------------------
(***************************************************************************)
(* The platform implements the registry, as long as no client numbers its  *)
(* writes ahead.  A committed request was judged on rows read earlier.     *)
(* That the update replaces the row it judged is shown above; that the     *)
(* records it names are still there is the invariant of the links.         *)
(***************************************************************************)
RInv == IInv /\ LInv

\* A create commits as the registry's.
LEMMA InsertImplements ==
  ASSUME RInv, NEW c \in Clients, req[c].record \in Records, Inserted(c)
  PROVE  RegistryOf!Next \/ UNCHANGED storeVars
<1> DEFINE r == req[c].record
           data == req[c].data
<1> SUFFICES ASSUME rows[r].life = "absent", pc[c] = "commit",
                    rows' = [rows EXCEPT ![r] = [life |-> "live", status |-> InitialStatusOf(r),
                                                 version |-> 1, data |-> data]],
                    Log(r, [action |-> "create", before |-> "", after |-> InitialStatusOf(r),
                            actor |-> c])
             PROVE  RegistryOf!Create(r, c)
  BY SameRecords DEF Inserted, CreateAudited, storeVars, RegistryOf!Next
<1>1. RegistryOf!Linked(r, data)
  BY LookedUpLinks DEF RInv, Inserted
<1>2. data \in Data
  BY DEF RInv, IInv, JInv, TypeOK, Request
<1> QED
  BY <1>1, <1>2, SameRecords DEF RegistryOf!Create, RegistryOf!Put, RegistryOf!Log, Log

\* What an update that matches replaces, and what it writes.
LEMMA UpdateReplaces ==
  ASSUME IInv, NEW c \in Clients, Writing(c), req[c].record \in Records,
         NEW item, UpdateAudited(c, item), ~ UNCHANGED storeVars
  PROVE  LET r == req[c].record IN
         /\ rows[r] \in Row /\ rows[r].life = "live"
         /\ cur[c] = rows[r] /\ Judged(c, rows[r])
         /\ req[c].expected = rows[r].version
         /\ rows' = [rows EXCEPT ![r] = [item EXCEPT !.version = rows[r].version + 1]]
         /\ Log(r, [action |-> req[c].op, before |-> rows[r].status,
                    after |-> item.status, actor |-> c])
<1> DEFINE r == req[c].record
<1>1. /\ pc[c] = "commit" /\ Matches(r, req[c].expected)
      /\ rows' = [rows EXCEPT ![r] = [item EXCEPT !.version = req[c].expected + 1]]
      /\ Log(r, [action |-> req[c].op, before |-> cur[c].status,
                 after |-> item.status, actor |-> c])
  BY DEF UpdateAudited
<1>2. rows[r].life = "live" /\ req[c].expected = rows[r].version
  BY <1>1 DEF Matches, Live
<1>3. cur[c] = rows[r]
  BY <1>1, MatchIsFresh
<1>4. Judged(c, cur[c])
  BY <1>1 DEF IInv, JInv, Holds, Writing
<1>5. rows[r] \in Row
  BY DEF IInv, JInv, TypeOK
<1> QED
  BY <1>1, <1>2, <1>3, <1>4, <1>5

\* So does an edit ...
LEMMA EditImplements ==
  ASSUME RInv, NEW c \in Clients, req[c].record \in Records, Edited(c)
  PROVE  RegistryOf!Next \/ UNCHANGED storeVars
<1> DEFINE r == req[c].record
           data == req[c].data
           item == [cur[c] EXCEPT !.data = data]
<1> SUFFICES ASSUME ~ UNCHANGED storeVars PROVE RegistryOf!Edit(r, c)
  BY SameRecords DEF RegistryOf!Next
<1>1. /\ rows[r] \in Row /\ rows[r].life = "live"
      /\ cur[c] = rows[r] /\ Judged(c, rows[r])
      /\ rows' = [rows EXCEPT ![r] = [item EXCEPT !.version = rows[r].version + 1]]
      /\ Log(r, [action |-> req[c].op, before |-> rows[r].status,
                 after |-> item.status, actor |-> c])
  BY UpdateReplaces DEF RInv, Edited, Writing
<1>2. pc[c] = "commit" /\ req[c].op = "update"
  BY DEF Edited, UpdateAudited
<1>3. RegistryOf!Linked(r, data)
  BY <1>2, LookedUpLinks DEF RInv
<1>4. data \in Data
  BY DEF RInv, IInv, JInv, TypeOK, Request
<1>5. /\ r \in Manifests => rows[r].status = "draft"
      /\ r \in Checks => rows[r].status = "pending"
  BY <1>1, <1>2 DEF Judged
<1>6. /\ [item EXCEPT !.version = rows[r].version + 1]
           = [rows[r] EXCEPT !.version = @ + 1, !.data = data]
      /\ item.status = rows[r].status
  BY <1>1 DEF Row
<1> QED
  BY <1>1, <1>2, <1>3, <1>4, <1>5, <1>6, SameRecords
     DEF RegistryOf!Edit, RegistryOf!Put, RegistryOf!Log, Log

\* ... a transition ...
LEMMA DecisionImplements ==
  ASSUME RInv, NEW c \in Clients, req[c].record \in Records, Decided(c)
  PROVE  RegistryOf!Next \/ UNCHANGED storeVars
<1> DEFINE r == req[c].record
           target == req[c].target
           item == IF r \in Checks THEN [cur[c] EXCEPT !.status = target, !.data.basis = c]
                   ELSE [cur[c] EXCEPT !.status = target]
<1> SUFFICES ASSUME ~ UNCHANGED storeVars PROVE RegistryOf!Advance(r, c)
  BY SameRecords DEF RegistryOf!Next
<1>1. UpdateAudited(c, item) /\ req[c].op = "transition"
  BY DEF Decided
<1> HIDE DEF item
<1>2. /\ rows[r] \in Row /\ rows[r].life = "live"
      /\ cur[c] = rows[r] /\ Judged(c, rows[r])
      /\ rows' = [rows EXCEPT ![r] = [item EXCEPT !.version = rows[r].version + 1]]
      /\ Log(r, [action |-> req[c].op, before |-> rows[r].status,
                 after |-> item.status, actor |-> c])
  BY <1>1, UpdateReplaces DEF RInv, Writing
<1>3. CanTransition(TransitionsOf(r), rows[r].status, target)
  BY <1>1, <1>2 DEF Judged
<1>4. target \in Statuses
  BY <1>3, EdgesTyped
<1>5. /\ [item EXCEPT !.version = rows[r].version + 1]
           = [rows[r] EXCEPT !.status = target, !.version = @ + 1,
                             !.data.basis = IF r \in Checks THEN c ELSE @]
      /\ item.status = target
  <2>1. rows[r].data \in Data
    BY <1>2 DEF Row
  <2>2. CASE r \in Checks
    BY <1>2, <2>1, <2>2 DEF Row, Data, item
  <2>3. CASE r \notin Checks
    <3>1. [rows[r].data EXCEPT !.basis = @] = rows[r].data
      BY <2>1 DEF Data
    <3> QED
      BY <1>2, <2>3, <3>1 DEF Row, item
  <2> QED
    BY <2>2, <2>3
<1> QED
  BY <1>1, <1>2, <1>3, <1>4, <1>5, SameRecords
     DEF RegistryOf!Advance, RegistryOf!Put, RegistryOf!Log, Log

\* ... and a delete, whose entry may name an earlier status.
LEMMA RemovalImplements ==
  ASSUME RInv, NEW c \in Clients, req[c].record \in Records, Removed(c)
  PROVE  RegistryOf!Next \/ UNCHANGED storeVars
<1> DEFINE r == req[c].record
<1>1. pc[c] = "commit" /\ req[c].op = "delete"
  BY DEF Removed, DeleteAudited
<1>2. cur[c].status \in Statuses
  BY <1>1 DEF RInv, LInv, Holds, Sound
<1>3. CASE /\ Live(r) /\ rows' = [rows EXCEPT ![r].life = "deleted"]
           /\ Log(r, [action |-> "delete", before |-> cur[c].status,
                      after |-> "deleted", actor |-> c])
  <2>1. RegistryOf!Remove(r, c)
    BY <1>2, <1>3, SameRecords DEF Live, Log, RegistryOf!Remove, RegistryOf!Put, RegistryOf!Log
  <2> QED
    BY <2>1, SameRecords DEF RegistryOf!Next
<1> QED
  BY <1>3 DEF Removed, DeleteAudited

\* Whatever a step is for its request, for the registry it is a step or nothing.
LEMMA StepImplements ==
  ASSUME RInv, [Next]_vars
  PROVE  RegistryOf!Next \/ UNCHANGED storeVars
<1>1. ASSUME NEW c \in Clients, Serving(c)
      PROVE  RegistryOf!Next \/ UNCHANGED storeVars
  BY <1>1, InsertImplements, EditImplements, DecisionImplements, RemovalImplements
     DEF Serving, Loaded, Found, storeVars
<1>2. ASSUME NEW c \in Clients, Shape(c)
      PROVE  RegistryOf!Next \/ UNCHANGED storeVars
  BY <1>1, <1>2 DEF Shape, Received, Receive, Answered, storeVars
<1> QED
  BY <1>2, NextShape DEF Tick, vars, storeVars


\* The invariant holds of the seeded tables.
LEMMA RegistryInit == ASSUME Init PROVE RInv
  BY InvInit, LinksInit DEF RInv

\* No step breaks it.
LEMMA RegistryStep == ASSUME Ahead = 0, RInv, [Next]_vars PROVE RInv'
  BY InvStep, LinksStep DEF RInv

\* The tables start as the registry's.
LEMMA InitImplements == ASSUME Init PROVE RegistryOf!Init
  BY SameRecords DEF Init, StoreInit, RegistryOf!Init

\* The platform implements the atomic, audited registry: although requests
\* interleave at every database call, each commit is one of its steps.
THEOREM Refinement == Ahead = 0 => (Spec => ImplementsRegistry)
<1> SUFFICES ASSUME Ahead = 0 PROVE Spec => ImplementsRegistry
  OBVIOUS
<1>1. Init => RInv /\ RegistryOf!Init
  BY RegistryInit, InitImplements
<1>2. RInv /\ [Next]_vars => RInv'
  BY RegistryStep
<1>3. RInv /\ [Next]_vars => [RegistryOf!Next]_(RegistryOf!registryVars)
  BY StepImplements DEF storeVars, RegistryOf!registryVars
<1> QED
  BY <1>1, <1>2, <1>3, PTL DEF Spec, ImplementsRegistry, RegistryOf!Spec

\* The parties of a manifest and the manifest of a check are records that exist
-----------------------------------------------------------------------------
(***************************************************************************)
(* The audit trail.  Whatever versions the clients send, a row has an      *)
(* entry for each of its writes, the last of which left its status.  That  *)
(* each starts where the one before it ended takes clients that do not     *)
(* number ahead.                                                           *)
(***************************************************************************)

Chain(log, first, n) ==
  \A i \in 1..n : /\ log[i].action # "delete"
                  /\ log[i].before = IF i = 1 THEN first ELSE log[i - 1].after

\* A write that leaves a check decided is a decision, with its author's basis.
Signs(r, row, e) ==
  r \in Checks /\ row.status \notin {"", "pending"} =>
    e.action = "transition" /\ row.data.basis = e.actor

\* A log has an entry for each write of its record.
Counts(r, row, log) ==
  LET n == row.version - InitialRows[r].version IN
  /\ n \in Nat
  /\ Len(log) = IF row.life = "deleted" THEN n + 1 ELSE n
  /\ row.status = IF n = 0 THEN InitialRows[r].status ELSE log[n].after
  /\ row.life = "deleted" => log[n + 1].action = "delete"
  /\ n > 0 => Signs(r, row, log[n])

Counted == \A r \in Records : Counts(r, rows[r], audits[r])

\* The entries follow one another.
Chained ==
  \A r \in Records : Chain(audits[r], InitialRows[r].status, Writes(r))

\* An entry appended to a log leaves the others where they are.
LEMMA Appended ==
  ASSUME NEW log \in Seq(AuditEntry), NEW e \in AuditEntry, NEW n \in Nat, Len(log) = n
  PROVE  /\ Append(log, e) \in Seq(AuditEntry) /\ Len(Append(log, e)) = n + 1
         /\ Append(log, e)[n + 1] = e
         /\ \A i \in 1..n : Append(log, e)[i] = log[i]
  OBVIOUS

\* It leaves their chain unbroken ...
LEMMA ChainKept ==
  ASSUME NEW log \in Seq(AuditEntry), NEW e \in AuditEntry, NEW n \in Nat, Len(log) = n,
         NEW first, Chain(log, first, n)
  PROVE  Chain(Append(log, e), first, n)
<1>1. ASSUME NEW i \in 1..n, i # 1 PROVE i - 1 \in 1..n
  BY <1>1
<1> QED
  BY <1>1, Appended DEF Chain

\* ... and continues it when it starts from the status the last one left.
LEMMA ChainGrows ==
  ASSUME NEW log \in Seq(AuditEntry), NEW e \in AuditEntry, NEW n \in Nat, Len(log) = n,
         NEW first, Chain(log, first, n), e.action # "delete",
         n = 0 => e.before = first,
         n # 0 => e.before = log[n].after
  PROVE  Chain(Append(log, e), first, n + 1)
<1> DEFINE log1 == Append(log, e)
<1>1. log1[n + 1] = e /\ \A i \in 1..n : log1[i] = log[i]
  BY Appended
<1>2. Chain(log1, first, n)
  BY ChainKept
<1> HIDE DEF log1
<1>3. ASSUME NEW i \in 1..(n + 1), i # n + 1 PROVE i \in 1..n
  BY <1>3
<1>4. n # 0 => n \in 1..n /\ (n + 1) - 1 = n /\ n + 1 # 1
  OBVIOUS
<1>5. n = 0 => n + 1 = 1
  OBVIOUS
<1>6. log1[n + 1].before = IF n + 1 = 1 THEN first ELSE log1[(n + 1) - 1].after
  BY <1>1, <1>4, <1>5
<1>7. log1[n + 1].action # "delete"
  BY <1>1
<1>8. Chain(log1, first, n + 1)
  BY <1>2, <1>3, <1>6, <1>7 DEF Chain
<1> QED
  BY <1>8 DEF log1

\* A version raised by one counts one write more.
LEMMA OneMore == \A a, b \in Nat : (a + 1) - b = (a - b) + 1
  OBVIOUS

\* What Counts says, the number of writes having a name.
LEMMA CountsOf ==
  ASSUME NEW r, NEW row, NEW log, NEW n \in Nat,
         row.version - InitialRows[r].version = n
  PROVE  Counts(r, row, log) <=>
           /\ Len(log) = IF row.life = "deleted" THEN n + 1 ELSE n
           /\ row.status = IF n = 0 THEN InitialRows[r].status ELSE log[n].after
           /\ row.life = "deleted" => log[n + 1].action = "delete"
           /\ n > 0 => Signs(r, row, log[n])
  BY DEF Counts

\* What it says of a row that is not deleted.
LEMMA CountsOfLive ==
  ASSUME NEW r, NEW row, NEW log, row.life # "deleted", Counts(r, row, log)
  PROVE  \E n \in Nat :
           /\ row.version - InitialRows[r].version = n
           /\ Len(log) = n
           /\ n = 0 => row.status = InitialRows[r].status
           /\ n # 0 => row.status = log[n].after
           /\ n > 0 => Signs(r, row, log[n])
  BY DEF Counts

\* A write adds the entry of the status it leaves; one that starts from the
\* status of the row continues the chain.
LEMMA WriteCounts ==
  ASSUME NEW r \in Records, NEW row \in Row, NEW log \in Seq(AuditEntry),
         Counts(r, row, log), row.life # "deleted",
         NEW item, item.version = row.version + 1, item.life = "live",
         NEW e \in AuditEntry, e.action # "delete", e.after = item.status, Signs(r, item, e)
  PROVE  /\ Counts(r, item, Append(log, e))
         /\ Chain(log, InitialRows[r].status, row.version - InitialRows[r].version)
            /\ e.before = row.status =>
              Chain(Append(log, e), InitialRows[r].status, item.version - InitialRows[r].version)
<1>1. PICK n \in Nat :
        /\ row.version - InitialRows[r].version = n
        /\ Len(log) = n
        /\ n = 0 => row.status = InitialRows[r].status
        /\ n # 0 => row.status = log[n].after
  BY CountsOfLive
<1>2. n + 1 \in Nat /\ n + 1 # 0
  OBVIOUS
<1>3. item.version - InitialRows[r].version = n + 1
  BY <1>1, OneMore, RowVersions, RecordsAssumption
<1>4. Len(Append(log, e)) = n + 1 /\ Append(log, e)[n + 1] = e
  BY <1>1, Appended
<1>5. Counts(r, item, Append(log, e))
  BY <1>2, <1>3, <1>4, CountsOf
<1>6. ASSUME Chain(log, InitialRows[r].status, n), e.before = row.status
      PROVE  Chain(Append(log, e), InitialRows[r].status, n + 1)
  BY <1>1, <1>6, ChainGrows
<1> QED
  BY <1>1, <1>3, <1>5, <1>6

\* A delete adds an entry and raises no version.
LEMMA RemoveCounts ==
  ASSUME NEW r \in Records, NEW row \in Row, NEW log \in Seq(AuditEntry),
         Counts(r, row, log), row.life # "deleted",
         NEW item, item = [row EXCEPT !.life = "deleted"],
         NEW e \in AuditEntry, e.action = "delete"
  PROVE  /\ Counts(r, item, Append(log, e))
         /\ Chain(log, InitialRows[r].status, row.version - InitialRows[r].version) =>
              Chain(Append(log, e), InitialRows[r].status, item.version - InitialRows[r].version)
<1>1. PICK n \in Nat :
        /\ row.version - InitialRows[r].version = n
        /\ Len(log) = n
        /\ n = 0 => row.status = InitialRows[r].status
        /\ n # 0 => row.status = log[n].after
        /\ n > 0 => Signs(r, row, log[n])
  BY CountsOfLive
<1>2. /\ item.version = row.version /\ item.status = row.status /\ item.data = row.data
      /\ item.life = "deleted"
  BY DEF Row
<1>3. item.version - InitialRows[r].version = n
  BY <1>1, <1>2
<1>4. /\ Len(Append(log, e)) = n + 1 /\ Append(log, e)[n + 1] = e
      /\ n # 0 => Append(log, e)[n] = log[n]
  <2>1. n # 0 => n \in 1..n
    OBVIOUS
  <2> QED
    BY <1>1, <2>1, Appended
<1>5. n > 0 <=> n # 0
  OBVIOUS
<1>6. n > 0 => Signs(r, item, Append(log, e)[n])
  BY <1>1, <1>2, <1>4, <1>5 DEF Signs
<1>7. Counts(r, item, Append(log, e))
  BY <1>1, <1>2, <1>3, <1>4, <1>5, <1>6, CountsOf
<1>8. ASSUME Chain(log, InitialRows[r].status, n)
      PROVE  Chain(Append(log, e), InitialRows[r].status, n)
  BY <1>1, <1>8, ChainKept
<1> QED
  BY <1>1, <1>3, <1>7, <1>8

\* Every step adds to a row's log the entry of its write; it continues the chain
\* if the request went by the row as it is.
LEMMA LogGrows ==
  ASSUME LInv, [Next]_vars, NEW r \in Records, Counts(r, rows[r], audits[r])
  PROVE  /\ Counts(r, rows[r], audits[r])'
         /\ /\ Chain(audits[r], InitialRows[r].status, Writes(r))
            /\ \A c \in Clients : Replaces(c, r) /\ Writer(c, r) => cur[c].status = rows[r].status
            => Chain(audits[r], InitialRows[r].status, Writes(r))'
<1>1. /\ TypeOK /\ JInv
      /\ rows[r] \in Row /\ audits[r] \in Seq(AuditEntry)
  BY VersionsTyped DEF LInv, JInv, TypeOK
<1>2. CASE rows'[r] = rows[r] /\ audits'[r] = audits[r]
  BY <1>2 DEF Counts, Signs, Chain, Writes
<1>3. ASSUME NEW c \in Clients, Writer(c, r), Inserts(c, r)
      PROVE  /\ Counts(r, rows[r], audits[r])'
             /\ Chain(audits[r], InitialRows[r].status, Writes(r)) =>
                  Chain(audits[r], InitialRows[r].status, Writes(r))'
  <2> DEFINE e == [action |-> "create", before |-> "", after |-> InitialStatusOf(r), actor |-> c]
  <2>1. /\ rows'[r] = [life |-> "live", status |-> InitialStatusOf(r),
                       version |-> 1, data |-> req[c].data]
    BY <1>3 DEF Inserts
  <2>2. /\ audits'[r] = Append(audits[r], e) /\ rows[r].life = "absent"
        /\ rows[r].version = 0 /\ rows[r].status = ""
    BY <1>1, <1>3 DEF Inserts, JInv, AbsentUnwritten
  <2>3. /\ rows'[r].version = 1 /\ rows'[r].life = "live"
        /\ rows'[r].status = InitialStatusOf(r)
    BY <2>1
  <2>4. e \in AuditEntry
    BY KindsDisjoint DEF AuditEntry, Operations
  <2>5. r \in Checks => InitialStatusOf(r) = "pending"
    BY KindsDisjoint DEF ComplianceCheckInitialStatus
  <2>6. e.action = "create" /\ e.before = "" /\ e.after = InitialStatusOf(r)
    OBVIOUS
  <2>7. Signs(r, rows'[r], e)
    BY <2>3, <2>5 DEF Signs
  <2>8. rows'[r].version = rows[r].version + 1
    <3>1. 1 = 0 + 1
      OBVIOUS
    <3> QED
      BY <2>2, <2>3, <3>1, Zenon
  <2> HIDE DEF e
  <2>9. rows[r].life # "deleted" /\ e.action # "delete" /\ e.after = rows'[r].status
        /\ e.before = rows[r].status
    BY <2>2, <2>3, <2>6
  <2> QED
    BY <1>1, <2>2, <2>3, <2>4, <2>7, <2>8, <2>9, WriteCounts DEF Writes
<1>4. ASSUME NEW c \in Clients, Writer(c, r), Replaces(c, r)
      PROVE  /\ Counts(r, rows[r], audits[r])'
             /\ Chain(audits[r], InitialRows[r].status, Writes(r))
                /\ cur[c].status = rows[r].status =>
                  Chain(audits[r], InitialRows[r].status, Writes(r))'
  <2> DEFINE e == [action |-> req[c].op, before |-> cur[c].status,
                   after |-> Item(c).status, actor |-> c]
  <2>1. /\ req[c].record = r /\ pc[c] = "commit" /\ Writing(c)
        /\ audits'[r] = Append(audits[r], e)
    BY <1>4 DEF Writer, Replaces
  <2>2. Judged(c, cur[c])
    BY <1>1, <2>1 DEF JInv, Holds, Writing
  <2>3. /\ Item(c) \in Row /\ rows[r].life = "live" /\ rows'[r].life = cur[c].life
        /\ rows'[r].version = rows[r].version + 1 /\ rows'[r].status = Item(c).status
        /\ req[c].op = "update" => rows'[r].status = cur[c].status
        /\ req[c].op = "transition" /\ r \in Checks => rows'[r].data.basis = c
    BY <1>1, <1>4, <2>1, ReplacesWhat
  <2>4. e \in AuditEntry
    BY <1>1, <2>1, <2>3 DEF TypeOK, Row, AuditEntry, Operations, Writing
  <2>5. e.action = req[c].op /\ e.before = cur[c].status /\ e.after = Item(c).status /\ e.actor = c
    OBVIOUS
  <2>6. Signs(r, rows'[r], e)
    BY <2>1, <2>2, <2>3, <2>5 DEF Signs, Judged, Writing
  <2> HIDE DEF e
  <2>7. rows[r].life # "deleted" /\ e.action # "delete" /\ e.after = rows'[r].status
        /\ rows'[r].life = "live"
    BY <2>1, <2>2, <2>3, <2>5 DEF Writing, Judged
  <2> QED
    BY <1>1, <2>1, <2>3, <2>4, <2>5, <2>6, <2>7, WriteCounts DEF Writes
<1>5. ASSUME NEW c \in Clients, Writer(c, r), Removes(c, r)
      PROVE  /\ Counts(r, rows[r], audits[r])'
             /\ Chain(audits[r], InitialRows[r].status, Writes(r)) =>
                  Chain(audits[r], InitialRows[r].status, Writes(r))'
  <2> DEFINE e == [action |-> "delete", before |-> cur[c].status,
                   after |-> "deleted", actor |-> c]
  <2>1. /\ rows[r].life = "live" /\ rows'[r] = [rows[r] EXCEPT !.life = "deleted"]
        /\ audits'[r] = Append(audits[r], e)
    BY <1>5 DEF Removes
  <2>2. e \in AuditEntry /\ e.action = "delete"
    BY <1>1 DEF TypeOK, Row, AuditEntry, Operations
  <2> HIDE DEF e
  <2>3. rows[r].life # "deleted"
    BY <2>1
  <2>4. PICK item : item = rows'[r]
    OBVIOUS
  <2>5. /\ Counts(r, item, Append(audits[r], e))
        /\ Chain(audits[r], InitialRows[r].status, rows[r].version - InitialRows[r].version) =>
             Chain(Append(audits[r], e), InitialRows[r].status,
                   item.version - InitialRows[r].version)
    BY <1>1, <2>1, <2>2, <2>3, <2>4, RemoveCounts
  <2> QED
    BY <2>1, <2>4, <2>5 DEF Writes
<1> QED
  BY <1>1, <1>2, <1>3, <1>4, <1>5, OneWriter DEF Writer

\* Before the first write there is nothing to account for.
LEMMA InitCounts == ASSUME Init PROVE Counted /\ Chained
<1>1. ASSUME NEW r \in Records
      PROVE  /\ Counts(r, InitialRows[r], <<>>)
             /\ Chain(<<>>, InitialRows[r].status, 0)
             /\ InitialRows[r].version - InitialRows[r].version = 0
  <2>1. InitialRows[r].life # "deleted"
    <3>1. NoRow.life = "absent"
      BY DEF NoRow
    <3> QED
      BY <3>1, RecordsAssumption
  <2>2. InitialRows[r].version - InitialRows[r].version = 0
    BY RowVersions, RecordsAssumption
  <2> QED
    BY <2>1, <2>2 DEF Counts, Chain
<1> QED
  BY <1>1 DEF Init, StoreInit, Counted, Chained, Writes

\* Whatever versions the clients send, a row's log has one entry for each of its
\* writes.
LEMMA AlwaysCounted == Spec => [](LInv /\ Counted)
<1>1. Init => LInv /\ Counted
  BY LinksInit, InitCounts
<1>2. LInv /\ Counted /\ [Next]_vars => (LInv /\ Counted)'
  BY LinksStep, LogGrows DEF Counted
<1> QED
  BY <1>1, <1>2, PTL DEF Spec

\* The basis of a decided check was written by who took the decision in force,
\* whatever versions the clients send.
THEOREM Bases == Spec => []BasisIsTheDeciders
<1>1. Counted => BasisIsTheDeciders
  BY DEF Counted, Counts, Signs, BasisIsTheDeciders, Writes, Records
<1> QED
  BY <1>1, AlwaysCounted, PTL

\* If none numbers ahead, the entries of a row are a chain.
LEMMA AlwaysChained ==
  ASSUME Ahead = 0
  PROVE  Spec => [](RInv /\ Counted /\ Chained)
<1>1. Init => RInv /\ Counted /\ Chained
  BY RegistryInit, InitCounts
<1>2. RInv /\ Counted /\ Chained /\ [Next]_vars => (RInv /\ Counted /\ Chained)'
  <2> SUFFICES ASSUME RInv, Counted, Chained, [Next]_vars PROVE (RInv /\ Counted /\ Chained)'
    OBVIOUS
  <2>1. RInv'
    BY RegistryStep
  <2>2. ASSUME NEW r \in Records, NEW c \in Clients, Replaces(c, r), Writer(c, r)
        PROVE  cur[c].status = rows[r].status
    BY <2>2, MatchIsFresh DEF RInv, Replaces, Writer
  <2>3. ASSUME NEW r \in Records
        PROVE  /\ Counts(r, rows[r], audits[r])'
               /\ Chain(audits[r], InitialRows[r].status, Writes(r))'
    BY <2>2, LogGrows DEF RInv, Counted, Chained
  <2> QED
    BY <2>1, <2>3 DEF Counted, Chained
<1> QED
  BY <1>1, <1>2, PTL DEF Spec

\* The audit entries of a row account for its version, its chain of statuses
\* and its deletion, however requests interleave.
THEOREM Trail == Ahead = 0 => (Spec => []AuditTrail)
<1> SUFFICES ASSUME Ahead = 0 PROVE Spec => []AuditTrail
  OBVIOUS
<1>1. Counted /\ Chained => AuditTrail
  <2> SUFFICES ASSUME Counted, Chained, NEW r \in Records
               PROVE  LET log == audits[r]
                          n == Writes(r)
                      IN
                      /\ Len(log) = IF rows[r].life = "deleted" THEN n + 1 ELSE n
                      /\ \A i \in 1..n :
                           /\ log[i].action # "delete"
                           /\ log[i].before = IF i = 1 THEN InitialRows[r].status
                                              ELSE log[i - 1].after
                      /\ n > 0 => log[n].after = rows[r].status
                      /\ rows[r].life = "deleted" => log[n + 1].action = "delete"
    BY DEF AuditTrail
  <2>1. PICK n \in Nat : Writes(r) = n
    BY DEF Counted, Counts, Writes
  <2>2. /\ Len(audits[r]) = IF rows[r].life = "deleted" THEN n + 1 ELSE n
        /\ Chain(audits[r], InitialRows[r].status, n)
        /\ rows[r].status = IF n = 0 THEN InitialRows[r].status ELSE audits[r][n].after
        /\ rows[r].life = "deleted" => audits[r][n + 1].action = "delete"
    <3>1. Counts(r, rows[r], audits[r]) /\ Chain(audits[r], InitialRows[r].status, Writes(r))
      BY DEF Counted, Chained
    <3>2. rows[r].version - InitialRows[r].version = n
      BY <2>1 DEF Writes
    <3> QED
      BY <2>1, <3>1, <3>2 DEF Counts
  <2>3. n > 0 => n # 0
    OBVIOUS
  <2> QED
    BY <2>1, <2>2, <2>3 DEF Chain
<1> QED
  BY <1>1, AlwaysChained, PTL
=============================================================================
