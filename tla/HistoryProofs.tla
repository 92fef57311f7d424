---------------------------- MODULE HistoryProofs ----------------------------
(***************************************************************************)
(* What the unlocked reads of a request still guarantee, and in which      *)
(* order a record's entries are stamped, for every value of the constants. *)
(*                                                                         *)
(* The argument: the history grows while a request is in flight, a lookup  *)
(* that succeeds adds to it what it judged, and the links of the row that  *)
(* is committed are those of the copy the lookups went by.                 *)
(***************************************************************************)
EXTENDS PlatformHistory, PlatformProofs

-----------------------------------------------------------------------------
(* The inductive invariant.                                                *)

\* What a request has judged by now was in order when it did.
SawInOrder(c) ==
  LET r == req[c].record
      data == cur[c].data
  IN
  /\ Handling(c, Manifests, "transition") /\ req[c].target \in {"submitted", "in_transit"} =>
       /\ pc[c] \in {"carrier", "commit"} => data.generator \in seen[c]
       /\ pc[c] = "commit" => data.carrier \in seen[c]
  /\ Handling(c, Checks, "transition") /\ req[c].target = "pass" =>
       (pc[c] = "commit" => data.manifest \in seen[c])
  /\ Handling(c, Manifests \cup Checks, "delete") =>
       (pc[c] = "commit" => r \in seen[c])

\* Whatever versions the clients send.
VInv ==
  /\ LInv
  /\ \A c \in Clients : SawInOrder(c)

\* A request whose entry was overtaken cannot write its row any more.
Late(c) ==
  LET row == rows[req[c].record] IN
  c \in overtaken =>
    /\ pc[c] = "commit"
    /\ req[c].op = "create" => row.life # "absent"
    /\ Writing(c) => row.life = "deleted" \/ row.version > cur[c].version

\* If none numbers ahead.
HInv ==
  /\ RInv
  /\ overtaken \subseteq Clients
  /\ \A c \in Clients : Late(c)

-----------------------------------------------------------------------------
(* What a step adds to the history.                                        *)

\* While a request is in flight its history grows by what is in order.
LEMMA SeenGrows ==
  ASSUME HistoryNext, NEW c \in Clients, pc'[c] # "idle"
  PROVE  /\ seen[c] \subseteq seen'[c]
         /\ InOrderFor(c)' \subseteq seen'[c]
  BY DEF HistoryNext

\* The row a request goes by names records of the right kinds.
LEMMA HoldsNames ==
  ASSUME LInv, NEW c \in Clients, Holds(c)
  PROVE  NamesParties(req[c].record, cur[c].data)
<1>1. RegistryOf!Linked(req[c].record, cur[c].data)
  BY DEF LInv, Sound
<1>2. cur[c].data \in Data
  BY DEF LInv, JInv, TypeOK, Row
<1>3. None \notin Records
  BY RecordsAssumption
<1> QED
  BY <1>1, <1>2, <1>3, SameRecords
     DEF NamesParties, RegistryOf!Linked, RegistryOf!Created, Data

-----------------------------------------------------------------------------
(* The lookups of each service.                                            *)

\* A request that is received or answered has judged nothing.
LEMMA NothingSeen ==
  ASSUME NEW c \in Clients, pc'[c] \in {"idle", "load"}
  PROVE  SawInOrder(c)'
  BY DEF SawInOrder, Handling

\* A decoded request starts before its lookups; a create looks up, but promises
\* nothing here.
LEMMA ReceivedSaw ==
  ASSUME TypeOK, NEW c \in Clients, Received(c)
  PROVE  SawInOrder(c)'
<1>1. PICK op \in Operations, r \in Records, v \in 0..(MaxVersion - 1),
           t \in Statuses \cup {""}, data \in Data, p \in Phases \ {"idle"} :
        /\ op # "create" => p = "load"
        /\ Receive(c, op, r, v, t, data, p)
  BY DEF Received
<1>2. req'[c].op = op /\ pc'[c] = p
  BY <1>1 DEF Receive, TypeOK
<1>3. CASE op = "create"
  BY <1>2, <1>3 DEF SawInOrder, Handling
<1> QED
  BY <1>1, <1>2, <1>3, NothingSeen

\* A request that promises nothing here.
LEMMA OthersSee ==
  ASSUME NEW c \in Clients, req'[c] = req[c],
         \/ req[c].op \in {"create", "update"}
         \/ req[c].record \in Generators \cup Carriers
  PROVE  SawInOrder(c)'
  BY OneKind DEF SawInOrder, Handling

\* A party found in order is seen to be.
LEMMA SeesParty ==
  ASSUME HistoryNext, NEW c \in Clients, pc'[c] # "idle", UNCHANGED <<rows, now, req>>,
         req[c].record \in Manifests, req[c].op = "transition",
         NEW code,
         \/ code \in Generators /\ GeneratorQualified(code)
         \/ code \in Carriers /\ CarrierQualified(code)
  PROVE  code \in seen'[c]
<1>1. Watched(c)' = Generators \cup Carriers
  <2>1. /\ Handling(c, Manifests, "transition")' /\ ~ Handling(c, Checks, "transition")'
        /\ req'[c].op # "delete"
    BY OneKind DEF Handling
  <2> QED
    BY <2>1 DEF Watched
<1>2. InOrder(c, code)'
  BY DEF InOrder, GeneratorQualified, CarrierQualified, Live, Unexpired
<1> QED
  BY <1>1, <1>2, SeenGrows DEF InOrderFor

\* So is a manifest that may pass ...
LEMMA SeesManifest ==
  ASSUME HistoryNext, NEW c \in Clients, pc'[c] # "idle", UNCHANGED <<rows, now, req>>,
         req[c].record \in Checks, req[c].op = "transition",
         NEW code \in Manifests, Live(code), rows[code].status \in Passable
  PROVE  code \in seen'[c]
<1>1. Watched(c)' = Manifests
  BY OneKind DEF Watched, Handling
<1>2. InOrder(c, code)'
  BY DEF InOrder, Live
<1> QED
  BY <1>1, <1>2, SeenGrows DEF InOrderFor

\* ... and a row that may be deleted.
LEMMA SeesUndecided ==
  ASSUME HistoryNext, NEW c \in Clients, pc'[c] # "idle", UNCHANGED <<rows, now, req>>,
         req[c].op = "delete", rows[req[c].record].status \in {"draft", "pending"}
  PROVE  req[c].record \in seen'[c]
<1>1. Watched(c)' = {req[c].record}
  <2>1. /\ ~ Handling(c, Manifests, "transition")' /\ ~ Handling(c, Checks, "transition")'
        /\ req'[c] = req[c] /\ req'[c].op = "delete"
    BY DEF Handling
  <2> QED
    BY <2>1 DEF Watched
<1>2. InOrder(c, req[c].record)'
  BY DEF InOrder
<1> QED
  BY <1>1, <1>2, SeenGrows DEF InOrderFor

\* A call of the manifest service.
LEMMA ManifestSees ==
  ASSUME VInv, HistoryNext, NEW c \in Clients, TransferManifestStep(c)
  PROVE  SawInOrder(c)'
<1> LInv /\ TypeOK /\ SawInOrder(c)
  BY DEF VInv, LInv, JInv
<1>1. CASE TransferManifestRequest(c)
  <2>1. pc[c] = "idle"
    BY <1>1 DEF TransferManifestRequest, Receive
  <2>2. Shape(c)
    BY ManifestShape
  <2>3. Received(c) \/ pc'[c] = "idle"
    BY <2>1, <2>2 DEF Shape, Answered, Answer, Serving, Loaded, Found, Inserted, CreateAudited,
         Edited, Decided, UpdateAudited, Removed, DeleteAudited, TypeOK
  <2> QED
    BY <2>3, ReceivedSaw, NothingSeen
<1>2. CASE Answer(c)
  BY <1>2, NothingSeen DEF Answer, TypeOK
<1>3. CASE CreateManifest(c) \/ UpdateManifest(c)
  <2>1. CASE req' = req
    BY <1>3, <2>1, OthersSee DEF CreateManifest, UpdateManifest, Handling
  <2> QED
    BY <1>2, <1>3, <2>1
       DEF CreateManifest, UpdateManifest, FindParties, FindByCode, Get, Proceed, CreateAudited,
           UpdateAudited
<1>4. CASE TransitionManifest(c)
  <2>1. req[c].record \in Manifests /\ req[c].record \notin Checks /\ req[c].op = "transition"
    BY <1>4, OneKind DEF TransitionManifest, Handling
  <2> DEFINE data == cur[c].data
  <2>2. CASE /\ pc' = [pc EXCEPT ![c] = IF req[c].target \in {"submitted", "in_transit"}
                                        THEN "generator" ELSE "commit"]
             /\ UNCHANGED req
    BY <2>1, <2>2 DEF SawInOrder, Handling, TypeOK
  <2>3. CASE /\ pc[c] = "generator" /\ pc' = [pc EXCEPT ![c] = "carrier"]
             /\ GeneratorQualified(data.generator)
             /\ UNCHANGED <<rows, now, req, cur>>
    <3>1. pc'[c] = "carrier" /\ data.generator \in Generators
      BY <2>1, <2>3, HoldsNames DEF TypeOK, Holds, NamesParties
    <3>2. data.generator \in seen'[c]
      BY <2>1, <2>3, <3>1, SeesParty
    <3> QED
      BY <2>1, <2>3, <3>1, <3>2 DEF SawInOrder, Handling
  <2>4. CASE /\ pc[c] = "carrier" /\ pc' = [pc EXCEPT ![c] = "commit"]
             /\ CarrierQualified(data.carrier)
             /\ UNCHANGED <<rows, now, req, cur>>
    <3>1. pc'[c] = "commit" /\ data.carrier \in Carriers
      BY <2>1, <2>4, HoldsNames DEF TypeOK, Holds, NamesParties
    <3>2. data.carrier \in seen'[c]
      BY <2>1, <2>4, <3>1, SeesParty
    <3>3. seen[c] \subseteq seen'[c]
      BY <3>1, SeenGrows
    <3> QED
      BY <2>1, <2>4, <3>1, <3>2, <3>3 DEF SawInOrder, Handling
  <2> QED
    BY <1>2, <1>4, <2>2, <2>3, <2>4
       DEF TransitionManifest, Get, ValidateLinkedParties, FindByCode, Proceed, UpdateAudited
<1>5. CASE DeleteManifest(c)
  <2>1. req[c].record \in Manifests /\ req[c].op = "delete"
    BY <1>5 DEF DeleteManifest, Handling
  <2>2. CASE /\ pc' = [pc EXCEPT ![c] = "commit"] /\ UNCHANGED <<rows, now, req>>
             /\ rows[req[c].record].status = "draft"
    <3>1. pc'[c] = "commit"
      BY <2>2 DEF TypeOK
    <3>2. req[c].record \in seen'[c]
      BY <2>1, <2>2, <3>1, SeesUndecided
    <3> QED
      BY <2>1, <2>2, <3>2 DEF SawInOrder, Handling
  <2> QED
    BY <1>2, <1>5, <2>2 DEF DeleteManifest, Get, Proceed, DeleteAudited
<1> QED
  BY <1>1, <1>3, <1>4, <1>5 DEF TransferManifestStep

\* A call of the check service.
LEMMA CheckSees ==
  ASSUME VInv, HistoryNext, NEW c \in Clients, ComplianceCheckStep(c)
  PROVE  SawInOrder(c)'
<1> LInv /\ TypeOK /\ SawInOrder(c)
  BY DEF VInv, LInv, JInv
<1>1. CASE ComplianceCheckRequest(c)
  <2>1. pc[c] = "idle"
    BY <1>1 DEF ComplianceCheckRequest, Receive
  <2>2. Shape(c)
    BY CheckShape
  <2>3. Received(c) \/ pc'[c] = "idle"
    BY <2>1, <2>2 DEF Shape, Answered, Answer, Serving, Loaded, Found, Inserted, CreateAudited,
         Edited, Decided, UpdateAudited, Removed, DeleteAudited, TypeOK
  <2> QED
    BY <2>3, ReceivedSaw, NothingSeen
<1>2. CASE Answer(c)
  BY <1>2, NothingSeen DEF Answer, TypeOK
<1>3. CASE CreateCheck(c) \/ UpdateCheck(c)
  <2>1. CASE req' = req
    BY <1>3, <2>1, OthersSee DEF CreateCheck, UpdateCheck, Handling
  <2> QED
    BY <1>2, <1>3, <2>1
       DEF CreateCheck, UpdateCheck, FindManifest, FindByCode, Get, Proceed, CreateAudited,
           UpdateAudited
<1>4. CASE TransitionCheck(c)
  <2>1. req[c].record \in Checks /\ req[c].record \notin Manifests /\ req[c].op = "transition"
    BY <1>4, OneKind DEF TransitionCheck, Handling
  <2> DEFINE m == cur[c].data.manifest
  <2>2. CASE pc' = [pc EXCEPT ![c] = "manifest"] /\ UNCHANGED req
    BY <2>1, <2>2 DEF SawInOrder, Handling, TypeOK
  <2>3. CASE /\ pc[c] = "manifest" /\ pc' = [pc EXCEPT ![c] = "commit"]
             /\ Live(m) /\ (req[c].target = "pass" => rows[m].status \in Passable)
             /\ UNCHANGED <<rows, now, req, cur>>
    <3>1. pc'[c] = "commit" /\ m \in Manifests
      BY <2>1, <2>3, HoldsNames DEF TypeOK, Holds, NamesParties
    <3>2. req[c].target = "pass" => m \in seen'[c]
      BY <2>1, <2>3, <3>1, SeesManifest
    <3> QED
      BY <2>1, <2>3, <3>1, <3>2 DEF SawInOrder, Handling
  <2> QED
    BY <1>2, <1>4, <2>2, <2>3
       DEF TransitionCheck, Get, FindByCode, Proceed, UpdateAudited
<1>5. CASE DeleteCheck(c)
  <2>1. req[c].record \in Checks /\ req[c].op = "delete"
    BY <1>5 DEF DeleteCheck, Handling
  <2>2. CASE /\ pc' = [pc EXCEPT ![c] = "commit"] /\ UNCHANGED <<rows, now, req>>
             /\ rows[req[c].record].status = "pending"
    <3>1. pc'[c] = "commit"
      BY <2>2 DEF TypeOK
    <3>2. req[c].record \in seen'[c]
      BY <2>1, <2>2, <3>1, SeesUndecided
    <3> QED
      BY <2>1, <2>2, <3>2 DEF SawInOrder, Handling
  <2> QED
    BY <1>2, <1>5, <2>2 DEF DeleteCheck, Get, Proceed, DeleteAudited
<1> QED
  BY <1>1, <1>3, <1>4, <1>5 DEF ComplianceCheckStep

\* The other two services promise nothing here.
LEMMA PartiesSee ==
  ASSUME VInv, HistoryNext, NEW c \in Clients, WasteGeneratorStep(c) \/ CarrierProfileStep(c)
  PROVE  SawInOrder(c)'
<1> TypeOK
  BY DEF VInv, LInv, JInv
<1>1. Shape(c)
  BY GeneratorShape, CarrierShape
<1>2. CASE WasteGeneratorRequest(c) \/ CarrierProfileRequest(c)
  <2>1. pc[c] = "idle"
    BY <1>2 DEF WasteGeneratorRequest, CarrierProfileRequest, Receive
  <2>2. Received(c) \/ pc'[c] = "idle"
    BY <2>1, <1>1 DEF Shape, Answered, Answer, Serving, Loaded, Found, Inserted, CreateAudited,
         Edited, Decided, UpdateAudited, Removed, DeleteAudited, TypeOK
  <2> QED
    BY <2>2, ReceivedSaw, NothingSeen
<1>3. CASE Answer(c)
  BY <1>3, NothingSeen DEF Answer, TypeOK
<1>4. CASE req' = req /\ req[c].record \in Generators \cup Carriers
  BY <1>4, OthersSee
<1> QED
  BY <1>2, <1>3, <1>4
     DEF WasteGeneratorStep, CreateGenerator, UpdateGenerator, TransitionGenerator, DeleteGenerator,
         CarrierProfileStep, CreateCarrier, UpdateCarrier, TransitionCarrier, DeleteCarrier,
         Handling, Get, CreateAudited, UpdateAudited, DeleteAudited, Proceed

\* Whoever takes the step.
LEMMA SeesStep ==
  ASSUME VInv, HistoryNext, NEW c \in Clients
  PROVE  SawInOrder(c)'
<1> TypeOK /\ Next /\ SawInOrder(c)
  BY DEF VInv, LInv, JInv, HistoryNext
<1>1. CASE pc'[c] = pc[c] /\ req'[c] = req[c] /\ cur'[c] = cur[c]
  <2>1. CASE pc'[c] = "idle"
    BY <2>1, NothingSeen
  <2>2. CASE pc'[c] # "idle"
    <3>1. seen[c] \subseteq seen'[c]
      BY <2>2, SeenGrows
    <3> QED
      BY <1>1, <3>1 DEF SawInOrder, Handling
  <2> QED
    BY <2>1, <2>2
<1>2. ASSUME NEW d \in Clients, ClientStep(d)
      PROVE  SawInOrder(c)'
  <2>1. CASE c = d
    <3>1. CASE Fail(c)
      BY <3>1, NothingSeen DEF Fail, Answer, TypeOK
    <3> QED
      BY <1>2, <2>1, <3>1, PartiesSee, ManifestSees, CheckSees DEF ClientStep
  <2>2. CASE c # d
    <3>1. Shape(d)
      BY <1>2, GeneratorShape, CarrierShape, ManifestShape, CheckShape
         DEF ClientStep, Fail, Shape, Answered
    <3> QED
      BY <1>1, <2>2, <3>1, OthersWait
  <2> QED
    BY <2>1, <2>2
<1> QED
  BY <1>1, <1>2 DEF Next, Tick

\* It holds from the start, and no step breaks it.
LEMMA AlwaysSeen == HistorySpec => []VInv
<1>1. HistoryInit => VInv
  BY LinksInit DEF HistoryInit, Init, StoreInit, VInv, SawInOrder, Handling
<1>2. VInv /\ [HistoryNext]_historyVars => VInv'
  <2>1. CASE HistoryNext
    BY <2>1, LinksStep, SeesStep DEF VInv, HistoryNext
  <2>2. CASE UNCHANGED historyVars
    <3>1. UNCHANGED <<rows, audits, pc, req, cur, now, seen>>
      BY <2>2 DEF historyVars, vars
    <3>2. VInv => LInv'
      BY <2>2, LinksStep DEF VInv, historyVars
    <3>3. \A c \in Clients : SawInOrder(c) => SawInOrder(c)'
      BY <3>1 DEF SawInOrder, Handling
    <3> QED
      BY <3>2, <3>3 DEF VInv
  <2> QED
    BY <2>1, <2>2
<1> QED
  BY <1>1, <1>2, PTL DEF HistorySpec

-----------------------------------------------------------------------------
(* What the unlocked reads do give, whatever versions the clients send.    *)

\* A request that changes a record is its one writer.
LEMMA CommitsOne ==
  ASSUME JInv, Next, NEW c \in Clients, NEW r, Commits(c, r)
  PROVE  r \in Records /\ Writer(c, r)
<1>1. /\ TypeOK /\ pc[c] = "commit" /\ pc'[c] = "idle" /\ req[c].record = r
      /\ rows'[r] # rows[r]
  BY DEF Commits, JInv
<1>2. r \in Records
  BY <1>1 DEF JInv, NamesRecord
<1>3. PICK d \in Clients : Writer(d, r)
  BY <1>1, <1>2, OneWriter
<1>4. c = d
  BY <1>1, <1>3 DEF Writer
<1> QED
  BY <1>2, <1>3, <1>4

\* Only a decision gives a manifest or a check another status than its first:
\* an edit, even one that lands late, was judged on a row in that status.
LEMMA OnlyDecisionsEnter ==
  ASSUME JInv, Next, NEW c \in Clients, NEW r \in Manifests \cup Checks, Commits(c, r),
         rows[r].status # rows'[r].status, rows'[r].status # InitialStatusOf(r)
  PROVE  /\ req[c].op = "transition" /\ req[c].record = r /\ pc[c] = "commit"
         /\ rows'[r].status = req[c].target
         /\ rows'[r].data.generator = cur[c].data.generator
         /\ rows'[r].data.carrier = cur[c].data.carrier
         /\ rows'[r].data.manifest = cur[c].data.manifest
<1>1. /\ TypeOK /\ r \in Records /\ Writer(c, r) /\ rows[r] \in Row
  BY CommitsOne, VersionsTyped DEF JInv
<1>2. CASE Inserts(c, r)
  <2>1. rows'[r] = [life |-> "live", status |-> InitialStatusOf(r),
                    version |-> 1, data |-> req[c].data]
    BY <1>2 DEF Inserts
  <2> QED
    BY <2>1
<1>3. CASE Removes(c, r)
  BY <1>1, <1>3 DEF Removes, Row
<1>4. CASE Replaces(c, r)
  <2>1. /\ req[c].record = r /\ pc[c] = "commit" /\ Writing(c)
    BY <1>1, <1>4 DEF Writer, Replaces
  <2>2. Judged(c, cur[c])
    BY <2>1 DEF JInv, Holds, Writing
  <2>3. CASE req[c].op = "update"
    <3>1. rows'[r].status = cur[c].status
      BY <1>1, <1>4, <2>1, <2>3, ReplacesWhat
    <3>2. cur[c].status = InitialStatusOf(r)
      BY <1>1, <2>1, <2>2, <2>3, KindsDisjoint
         DEF Judged, TransferManifestInitialStatus, ComplianceCheckInitialStatus
    <3> QED
      BY <3>1, <3>2
  <2>4. CASE req[c].op = "transition"
    BY <1>1, <1>4, <2>1, <2>4, ReplacesWhat
  <2> QED
    BY <2>1, <2>3, <2>4 DEF Writing
<1> QED
  BY <1>1, <1>2, <1>3, <1>4 DEF Writer

\* A manifest enters transport only in a request during which each of its
\* parties was qualified at some instant.
THEOREM PartiesQualified == HistorySpec => PartiesQualifiedDuringRequest
<1>1. VInv /\ [HistoryNext]_historyVars =>
        [\A c \in Clients, m \in Manifests :
           Commits(c, m) /\ rows[m].status # rows'[m].status
           /\ rows'[m].status \in {"submitted", "in_transit"} =>
             /\ rows'[m].data.generator \in seen[c]
             /\ rows'[m].data.carrier \in seen[c]]_historyVars
  <2> SUFFICES ASSUME VInv, HistoryNext, NEW c \in Clients, NEW m \in Manifests,
                      Commits(c, m), rows[m].status # rows'[m].status,
                      rows'[m].status \in {"submitted", "in_transit"}
               PROVE  /\ rows'[m].data.generator \in seen[c]
                      /\ rows'[m].data.carrier \in seen[c]
    OBVIOUS
  <2>1. rows'[m].status # InitialStatusOf(m)
    BY KindsDisjoint DEF Records, TransferManifestInitialStatus
  <2>2. /\ req[c].op = "transition" /\ req[c].record = m /\ pc[c] = "commit"
        /\ rows'[m].status = req[c].target
        /\ rows'[m].data.generator = cur[c].data.generator
        /\ rows'[m].data.carrier = cur[c].data.carrier
    BY <2>1, OnlyDecisionsEnter DEF VInv, LInv, HistoryNext
  <2>3. SawInOrder(c)
    BY DEF VInv
  <2> QED
    BY <2>2, <2>3 DEF SawInOrder, Handling
<1> QED
  BY <1>1, AlwaysSeen, PTL DEF HistorySpec, PartiesQualifiedDuringRequest

\* A check passes only in a request during which its manifest could pass review.
THEOREM PassableWhenPassed == HistorySpec => PassableDuringRequest
<1>1. VInv /\ [HistoryNext]_historyVars =>
        [\A c \in Clients, k \in Checks :
           Commits(c, k) /\ rows[k].status # rows'[k].status /\ rows'[k].status = "pass" =>
             rows'[k].data.manifest \in seen[c]]_historyVars
  <2> SUFFICES ASSUME VInv, HistoryNext, NEW c \in Clients, NEW k \in Checks,
                      Commits(c, k), rows[k].status # rows'[k].status,
                      rows'[k].status = "pass"
               PROVE  rows'[k].data.manifest \in seen[c]
    OBVIOUS
  <2>1. rows'[k].status # InitialStatusOf(k)
    BY KindsDisjoint DEF Records, ComplianceCheckInitialStatus
  <2>2. /\ req[c].op = "transition" /\ req[c].record = k /\ pc[c] = "commit"
        /\ rows'[k].status = req[c].target
        /\ rows'[k].data.manifest = cur[c].data.manifest
    BY <2>1, OnlyDecisionsEnter DEF VInv, LInv, HistoryNext
  <2>3. SawInOrder(c)
    BY DEF VInv
  <2> QED
    BY <2>2, <2>3 DEF SawInOrder, Handling
<1> QED
  BY <1>1, AlwaysSeen, PTL DEF HistorySpec, PassableDuringRequest

\* A manifest or a check is deleted only in a request during which it was
\* undecided.
THEOREM UndecidedWhenDeleted == HistorySpec => UndecidedDuringDelete
<1>1. VInv /\ [HistoryNext]_historyVars =>
        [\A c \in Clients, r \in Manifests \cup Checks :
           Commits(c, r) /\ rows'[r].life = "deleted" =>
             r \in seen[c]]_historyVars
  <2> SUFFICES ASSUME VInv, HistoryNext, NEW c \in Clients, NEW r \in Manifests \cup Checks,
                      Commits(c, r), rows'[r].life = "deleted"
               PROVE  r \in seen[c]
    OBVIOUS
  <2>1. r \in Records /\ Writer(c, r) /\ TypeOK /\ JInv
    BY CommitsOne DEF VInv, LInv, JInv, HistoryNext
  <2>2. req[c].record = r /\ pc[c] = "commit" /\ (Inserts(c, r) \/ Replaces(c, r) \/ Removes(c, r))
    BY <2>1 DEF Writer
  <2>3. ~ Inserts(c, r)
    <3>1. ASSUME Inserts(c, r) PROVE FALSE
      <4>1. rows'[r] = [life |-> "live", status |-> InitialStatusOf(r),
                        version |-> 1, data |-> req[c].data]
        BY <3>1 DEF Inserts
      <4> QED
        BY <4>1
    <3> QED
      BY <3>1
  <2>4. ~ Replaces(c, r)
    <3>1. ASSUME Replaces(c, r) PROVE FALSE
      <4>1. rows'[r].life = cur[c].life /\ Writing(c)
        BY <2>1, <2>2, <3>1, ReplacesWhat
      <4>2. cur[c].life = "live"
        BY <2>1, <2>2, <4>1 DEF JInv, Holds, Writing, Judged
      <4> QED
        BY <4>1, <4>2
    <3> QED
      BY <3>1
  <2>5. req[c].op = "delete"
    BY <2>2, <2>3, <2>4 DEF Removes
  <2>6. SawInOrder(c)
    BY DEF VInv
  <2> QED
    BY <2>2, <2>5, <2>6 DEF SawInOrder, Handling
<1> QED
  BY <1>1, AlwaysSeen, PTL DEF HistorySpec, UndecidedDuringDelete
-----------------------------------------------------------------------------
(* Entries that were overtaken.                                            *)

\* A step that leaves a request at its commit leaves it alone.
LEMMA CommitWaits ==
  ASSUME TypeOK, Next, NEW c \in Clients, pc[c] = "commit", pc'[c] = "commit"
  PROVE  req'[c] = req[c] /\ cur'[c] = cur[c]
<1>1. ASSUME NEW d \in Clients, Shape(d)
      PROVE  req'[c] = req[c] /\ cur'[c] = cur[c]
  <2>1. CASE c = d
    BY <1>1, <2>1 DEF TypeOK, Shape, Received, Receive, Answered, Answer, Serving, Loaded, Found,
         Inserted, CreateAudited, Edited, Decided, UpdateAudited, Removed, DeleteAudited
  <2> QED
    BY <1>1, <2>1, OthersWait
<1> QED
  BY <1>1, NextShape DEF Tick, vars

\* An overtaken request stays too late.
LEMMA LateStep ==
  ASSUME HInv, HistoryNext, NEW c \in Clients
  PROVE  Late(c)'
<1> RInv /\ IInv /\ JInv /\ TypeOK /\ Next /\ Late(c)
  BY DEF HInv, RInv, IInv, JInv, HistoryNext
<1> DEFINE r == req[c].record
<1> SUFFICES ASSUME Overtaken(c)
             PROVE  Late(c)'
  BY DEF HistoryNext, Late
<1>1. /\ pc[c] = "commit" /\ pc'[c] = "commit"
      /\ req'[c] = req[c] /\ cur'[c] = cur[c]
      /\ c \in overtaken \/ audits'[r] # audits[r]
  BY CommitWaits DEF Overtaken
<1>2. r \in Records
  BY <1>1 DEF JInv, NamesRecord
<1>3. Evolves(r)
  BY <1>2, RowsEvolve
<1>4. /\ rows[r].version \in Nat /\ rows'[r].version \in Nat /\ cur[c].version \in Nat
  BY <1>2, TypeStep, VersionsTyped, RowVersions DEF TypeOK
<1>5. Writing(c) => cur[c].version <= rows[r].version
  BY <1>1 DEF IInv, WritersHoldJudgedRows, Writing
<1>6. \/ /\ req[c].op = "create" => rows[r].life # "absent"
         /\ Writing(c) => rows[r].life = "deleted" \/ rows[r].version > cur[c].version
      \/ rows'[r].life = "deleted"
      \/ rows'[r].version > rows[r].version /\ rows'[r].life # "absent"
  <2>1. CASE c \in overtaken
    BY <1>1, <2>1 DEF Late
  <2>2. CASE audits'[r] # audits[r]
    <3>1. ~ (rows[r].version > rows[r].version)
      BY <1>4
    <3> QED
      BY <1>2, <1>4, <2>2, <3>1, RowsEvolve DEF Evolves
  <2> QED
    BY <1>1, <2>1, <2>2
<1>7. req[c].op = "create" => rows'[r].life # "absent"
  BY <1>3, <1>6 DEF Evolves
<1>8. Writing(c) => rows'[r].life = "deleted" \/ rows'[r].version > cur[c].version
  <2> HIDE DEF r
  <2> QED
    BY <1>3, <1>4, <1>5, <1>6 DEF Evolves
<1> QED
  BY <1>1, <1>7, <1>8 DEF Late, Writing

\* The invariant holds from the start, and no step breaks it.
LEMMA AlwaysLate == Ahead = 0 => (HistorySpec => []HInv)
<1> SUFFICES ASSUME Ahead = 0 PROVE HistorySpec => []HInv
  OBVIOUS
<1>1. HistoryInit => HInv
  BY RegistryInit DEF HistoryInit, HInv, Late
<1>2. HInv /\ [HistoryNext]_historyVars => HInv'
  <2>1. CASE HistoryNext
    BY <2>1, RegistryStep, LateStep DEF HInv, HistoryNext
  <2>2. CASE UNCHANGED historyVars
    <3>1. UNCHANGED <<rows, pc, req, cur, overtaken>>
      BY <2>2 DEF historyVars, vars
    <3>2. HInv => RInv'
      BY <2>2, RegistryStep DEF HInv, historyVars
    <3>3. \A c \in Clients : Late(c) => Late(c)'
      BY <3>1 DEF Late, Writing
    <3> QED
      BY <3>1, <3>2, <3>3 DEF HInv
  <2> QED
    BY <2>1, <2>2
<1> QED
  BY <1>1, <1>2, PTL DEF HistorySpec

\* The entries of a record, ordered by their stamps, are in the order of its
\* writes: an overtaken request writes nothing, unless it deletes.
THEOREM InOrderOfStamps == Ahead = 0 => (HistorySpec => HistoryInOrder)
<1> SUFFICES ASSUME Ahead = 0 PROVE HistorySpec => HistoryInOrder
  OBVIOUS
<1>1. HInv /\ [HistoryNext]_historyVars =>
        [\A c \in overtaken, r \in Records : Commits(c, r) => req[c].op = "delete"]_historyVars
  <2> SUFFICES ASSUME HInv, HistoryNext, NEW c \in overtaken, NEW r \in Records,
                      Commits(c, r)
               PROVE  req[c].op = "delete"
    OBVIOUS
  <2>1. c \in Clients /\ Late(c)
    BY DEF HInv
  <2>2. RInv /\ IInv /\ JInv /\ r \in Records /\ Writer(c, r)
    BY <2>1, CommitsOne DEF HInv, RInv, IInv, HistoryNext
  <2>3. /\ req[c].record = r /\ pc[c] = "commit"
        /\ Inserts(c, r) \/ Replaces(c, r) \/ Removes(c, r)
    BY <2>2 DEF Writer
  <2>4. ~ Inserts(c, r)
    BY <2>1, <2>3 DEF Late, Inserts
  <2>5. ~ Replaces(c, r)
    <3>1. rows[r].version \in Nat
      BY <2>2, VersionsTyped DEF JInv
    <3>2. ~ (rows[r].version > rows[r].version)
      BY <3>1
    <3>3. Replaces(c, r) => rows[r].life = "live" /\ cur[c] = rows[r]
      BY <2>1, <2>2, <2>3, MatchIsFresh DEF Replaces, Matches, Live
    <3>4. Replaces(c, r) => Writing(c)
      BY DEF Replaces
    <3> QED
      BY <2>1, <2>3, <3>2, <3>3, <3>4 DEF Late
  <2> QED
    BY <2>3, <2>4, <2>5 DEF Removes
<1> QED
  BY <1>1, AlwaysLate, PTL DEF HistorySpec, HistoryInOrder
=============================================================================
