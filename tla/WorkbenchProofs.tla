-------------------------- MODULE WorkbenchProofs ---------------------------
(***************************************************************************)
(* What a confirmed dialog changes, for every set of records, number of    *)
(* calls in flight and kind of page.                                       *)
(*                                                                         *)
(* The argument: whatever the page holds of a row, in its list, its dialog *)
(* or a call in flight, the row once was; a write raises the version, so   *)
(* as long as the versions agree the row is still what the page holds.     *)
(***************************************************************************)
EXTENDS Workbench, TLAPS

-----------------------------------------------------------------------------
(* The inductive invariant.                                                *)

\* A row as the backend stores it: its status is one of its kind.
Stored == [id : Ids, status : DOMAIN Graph, version : 1..MaxVersion]

\* What the page holds of a row is no newer than the row, and is the row while
\* the versions agree.
Faithful(item) ==
  LET row == rows[item.id] IN
  /\ item \in Stored
  /\ row # None
  /\ row # Gone => row.version >= item.version
  /\ row # Gone /\ row.version = item.version => row = item

Steps == {"none", "load", "create", "transition", "loaded", "written", "failed"}

Call == [step : Steps, query : Queries, answer : SUBSET Stored,
         dialog : [item : Stored, status : Statuses] \cup {NoDialog}, closes : BOOLEAN]

WTypeOK ==
  /\ rows \in [Ids -> Stored \cup {None, Gone}]
  /\ \A i \in Ids : Live(i) => rows[i].id = i
  /\ pending # NoDialog => pending \in [item : Stored, status : Statuses]
  /\ calls \in [Slots -> Call]

WInv ==
  /\ WTypeOK
  /\ \A item \in items : Faithful(item)
  /\ pending # NoDialog => Faithful(pending.item)
  /\ \A s \in Slots :
       /\ \A item \in calls[s].answer : Faithful(item)
       /\ calls[s].step = "transition" => Faithful(calls[s].dialog.item)

-----------------------------------------------------------------------------
(* The stored rows.                                                        *)

\* A graph leads to statuses of its own only.
LEMMA GraphClosed ==
  /\ InitialStatus \in DOMAIN Graph /\ DOMAIN Graph \subseteq Statuses
  /\ \A s \in DOMAIN Graph : Graph[s] \subseteq DOMAIN Graph
<1>1. CASE Kind = "wasteGenerator"
  BY <1>1 DEF Graph, InitialStatus, WasteGeneratorTransitions, WasteGeneratorInitialStatus, Statuses
<1>2. CASE Kind = "carrierProfile"
  BY <1>2 DEF Graph, InitialStatus, CarrierProfileTransitions, CarrierProfileInitialStatus, Statuses
<1>3. CASE Kind = "transferManifest"
  BY <1>3 DEF Graph, InitialStatus, TransferManifestTransitions, TransferManifestInitialStatus, Statuses
<1>4. CASE Kind = "complianceCheck"
  BY <1>4 DEF Graph, InitialStatus, ComplianceCheckTransitions, ComplianceCheckInitialStatus, Statuses
<1> QED
  BY <1>1, <1>2, <1>3, <1>4, WorkbenchAssumption

\* So are the statuses its buttons offer.
LEMMA OffersTyped ==
  ASSUME NEW s \in DOMAIN Graph
  PROVE  TRANSITIONS[s] \subseteq Statuses
<1>1. CASE Kind = "wasteGenerator"
  BY <1>1 DEF Graph, TRANSITIONS, WasteGeneratorTransitions, Statuses
<1>2. CASE Kind = "carrierProfile"
  BY <1>2 DEF Graph, TRANSITIONS, CarrierProfileTransitions, Statuses
<1>3. CASE Kind = "transferManifest"
  BY <1>3 DEF Graph, TRANSITIONS, TransferManifestTransitions, Statuses
<1>4. CASE Kind = "complianceCheck"
  BY <1>4 DEF Graph, TRANSITIONS, ComplianceCheckTransitions, Statuses
<1> QED
  BY <1>1, <1>2, <1>3, <1>4, WorkbenchAssumption

\* A stored row is neither of the two ways not to be there.
LEMMA StoredIsRow ==
  ASSUME NEW row \in Stored
  PROVE  row # None /\ row # Gone /\ row.version \in Nat
<1>1. row \in Row
  BY GraphClosed DEF Stored, Row
<1>2. 1..MaxVersion \subseteq Nat
  BY WorkbenchAssumption
<1> QED
  BY <1>1, <1>2, WorkbenchAssumption DEF Stored

\* What becomes of a row.
Evolves(i) ==
  \/ rows'[i] = rows[i]
  \/ rows[i] = None /\ rows'[i] \in Stored /\ rows'[i].id = i
  \/ rows'[i] = Gone
  \/ /\ rows[i] \in Stored /\ rows'[i] \in Stored /\ rows'[i].id = i
     /\ rows'[i].version = rows[i].version + 1

\* A write of a stored row.
LEMMA WriteEvolves ==
  ASSUME WTypeOK, NEW i \in Ids, Live(i), rows[i].version < MaxVersion,
         NEW status \in DOMAIN Graph,
         rows' = [rows EXCEPT ![i].status = status, ![i].version = @ + 1],
         NEW j \in Ids
  PROVE  Evolves(j)
<1>1. rows[i] \in Stored /\ rows[i].id = i
  BY DEF WTypeOK, Live
<1>2. rows[i].version + 1 \in 1..MaxVersion
  BY <1>1, WorkbenchAssumption DEF Stored
<1>3. CASE i = j
  <2> DEFINE row == [rows[i] EXCEPT !.status = status, !.version = rows[i].version + 1]
  <2>1. rows'[i] = row
    BY DEF WTypeOK
  <2>2. row \in Stored /\ row.id = i /\ row.version = rows[i].version + 1
    BY <1>1, <1>2 DEF Stored
  <2> QED
    BY <1>1, <1>3, <2>1, <2>2 DEF Evolves
<1>4. CASE i # j
  BY <1>4 DEF WTypeOK, Evolves
<1> QED
  BY <1>3, <1>4

\* Every step writes rows in one of these ways.
LEMMA RowsEvolve ==
  ASSUME WTypeOK, [Next]_vars, NEW j \in Ids
  PROVE  Evolves(j)
<1>1. CASE UNCHANGED rows
  BY <1>1 DEF Evolves
<1>2. ASSUME NEW s \in Slots, Create(s)
      PROVE  Evolves(j)
  <2>1. PICK i \in Ids :
          /\ rows[i] = None
          /\ rows' = [rows EXCEPT ![i] = [id |-> i, status |-> InitialStatus, version |-> 1]]
    BY <1>2 DEF Create
  <2>2. [id |-> i, status |-> InitialStatus, version |-> 1] \in Stored
    BY GraphClosed, WorkbenchAssumption DEF Stored
  <2> QED
    BY <2>1, <2>2 DEF WTypeOK, Evolves
<1>3. ASSUME NEW s \in Slots, Transition(s)
      PROVE  Evolves(j)
  <2> DEFINE i == calls[s].dialog.item.id
  <2>1. /\ Live(i) /\ rows[i].version < MaxVersion
        /\ CanTransition(Graph, rows[i].status, calls[s].dialog.status)
        /\ rows' = [rows EXCEPT ![i].status = calls[s].dialog.status, ![i].version = @ + 1]
    BY <1>3 DEF Transition
  <2>2. calls[s].dialog.status \in DOMAIN Graph
    BY <2>1, GraphClosed DEF CanTransition
  <2>3. CASE i \in Ids
    BY <2>1, <2>2, <2>3, WriteEvolves
  <2>4. CASE i \notin Ids
    BY <2>1, <2>4 DEF WTypeOK, Evolves
  <2> QED
    BY <2>3, <2>4
<1>4. ASSUME NEW i \in Ids, Other(i)
      PROVE  Evolves(j)
  <2>1. CASE rows' = [rows EXCEPT ![i] = Gone]
    BY <2>1 DEF WTypeOK, Evolves
  <2>2. ASSUME NEW status \in {rows[i].status} \cup Graph[rows[i].status],
               rows[i].version < MaxVersion,
               rows' = [rows EXCEPT ![i].status = status, ![i].version = @ + 1]
        PROVE  Evolves(j)
    <3>1. Live(i) /\ rows[i].status \in DOMAIN Graph
      BY <1>4 DEF Other, WTypeOK, Live, Stored
    <3>2. status \in DOMAIN Graph
      BY <2>2, <3>1, GraphClosed
    <3> QED
      BY <2>2, <3>1, <3>2, WriteEvolves
  <2> QED
    BY <1>4, <2>1, <2>2 DEF Other
<1> QED
  BY <1>1, <1>2, <1>3, <1>4
     DEF Next, vars, Load, CreateDemo, CloseTransition, ConfirmTransition, OpenTransition,
         List, Refuse, Loaded, Written, Failed

\* Whatever happens to the row, what the page holds of it stays faithful.
LEMMA FaithfulStays ==
  ASSUME WTypeOK, [Next]_vars, NEW item, Faithful(item)
  PROVE  Faithful(item)'
<1> DEFINE i == item.id
<1>1. item \in Stored /\ i \in Ids
  BY DEF Faithful, Stored
<1>2. rows[i] \in Stored \cup {Gone} /\ Evolves(i)
  BY <1>1, RowsEvolve DEF Faithful, WTypeOK
<1>3. CASE rows'[i] = rows[i]
  BY <1>3 DEF Faithful
<1>4. CASE rows'[i] = Gone
  BY <1>1, <1>4, WorkbenchAssumption DEF Faithful
<1>5. CASE /\ rows[i] \in Stored /\ rows'[i] \in Stored
           /\ rows'[i].version = rows[i].version + 1
  <2>1. /\ rows[i].version \in Nat /\ item.version \in Nat
        /\ rows[i] # Gone /\ rows'[i] # None
    BY <1>1, <1>5, StoredIsRow
  <2>2. rows[i].version >= item.version
    BY <2>1 DEF Faithful
  <2>3. rows'[i].version >= item.version /\ rows'[i].version # item.version
    BY <1>5, <2>1, <2>2
  <2> QED
    BY <1>1, <2>1, <2>3 DEF Faithful
<1> QED
  BY <1>2, <1>3, <1>4, <1>5 DEF Evolves, Faithful

\* What a list has is faithful when it is read.
LEMMA RowsFaithful ==
  ASSUME WTypeOK, NEW query, NEW item \in Rows(query)
  PROVE  Faithful(item)
<1>1. PICK i \in Ids : item = rows[i] /\ Live(i)
  BY WorkbenchAssumption DEF Rows, Matching
<1>2. item \in Stored /\ item.id = i
  BY <1>1 DEF WTypeOK, Live
<1> QED
  BY <1>1, <1>2, StoredIsRow DEF Faithful

-----------------------------------------------------------------------------
(* What the page holds.                                                    *)

\* The tables keep their type.
LEMMA RowsTyped ==
  ASSUME WTypeOK, [Next]_vars
  PROVE  /\ rows' \in [Ids -> Stored \cup {None, Gone}]
         /\ \A i \in Ids : Live(i)' => rows'[i].id = i
<1>1. rows' = [i \in Ids |-> rows'[i]]
  BY DEF WTypeOK, Next, vars, Load, CreateDemo, CloseTransition, ConfirmTransition, OpenTransition,
         List, Create, Transition, Refuse, Other, Loaded, Written, Failed
<1>2. ASSUME NEW i \in Ids
      PROVE  rows'[i] \in Stored \cup {None, Gone} /\ (Live(i)' => rows'[i].id = i)
  BY RowsEvolve DEF WTypeOK, Evolves, Live
<1> QED
  BY <1>1, <1>2

\* The dialog shows a row of the list, or what it showed before.
LEMMA PendingStep ==
  ASSUME WInv, [Next]_vars, pending' # NoDialog
  PROVE  pending' \in [item : Stored, status : Statuses] /\ Faithful(pending'.item)
<1>1. CASE pending' = pending
  BY <1>1 DEF WInv, WTypeOK
<1>2. ASSUME NEW item \in items, NEW target \in TRANSITIONS[item.status],
             OpenTransition(item, target)
      PROVE  pending' \in [item : Stored, status : Statuses] /\ Faithful(pending'.item)
  <2>1. Faithful(item) /\ item \in Stored
    BY DEF WInv, Faithful
  <2>2. target \in Statuses
    BY <2>1, OffersTyped DEF Stored
  <2>3. pending' = [item |-> item, status |-> target]
    BY <1>2 DEF OpenTransition
  <2> QED
    BY <2>1, <2>2, <2>3
<1> QED
  BY <1>1, <1>2
     DEF Next, vars, Load, CreateDemo, CloseTransition, ConfirmTransition,
         List, Create, Transition, Refuse, Other, Loaded, Written, Failed

\* The list shows an answer, or what it showed before.
LEMMA ItemsStep ==
  ASSUME WInv, [Next]_vars, NEW item \in items'
  PROVE  Faithful(item)
  BY DEF WInv, Next, vars, view, Patch, Load, CreateDemo, CloseTransition, ConfirmTransition,
         OpenTransition, List, Create, Transition, Refuse, Other, Loaded, Written, Failed

\* What a call carries.
Carries(call) ==
  /\ call \in Call
  /\ \A item \in call.answer : Faithful(item)
  /\ call.step = "transition" => Faithful(call.dialog.item)

\* No call carries nothing.
LEMMA NoCallCarries ==
  ASSUME NEW step \in Steps \ {"transition"}, NEW query \in Queries, NEW closes \in BOOLEAN
  PROVE  Carries([NoCall EXCEPT !.step = step, !.query = query, !.closes = closes])
  BY DEF Carries, Call, NoCall, Queries

\* A call carries what it did, the answer of a list, or the dialog.
LEMMA CallStep ==
  ASSUME WInv, [Next]_vars, NEW s \in Slots
  PROVE  calls' \in [Slots -> Call] /\ Carries(calls'[s])
<1>1. calls \in [Slots -> Call] /\ \A t \in Slots : Carries(calls[t])
  BY DEF WInv, WTypeOK, Carries
<1>2. ASSUME NEW t \in Slots, NEW call, Carries(call), calls' = [calls EXCEPT ![t] = call]
      PROVE  calls' \in [Slots -> Call] /\ Carries(calls'[s])
  BY <1>1, <1>2 DEF Carries
<1>3. CASE UNCHANGED calls
  BY <1>1, <1>3
<1>4. Carries(NoCall)
  BY DEF Carries, Call, NoCall, Queries, Steps
<1>5. ASSUME NEW query \in Queries, Load(query)
      PROVE  calls' \in [Slots -> Call] /\ Carries(calls'[s])
  <2>1. Carries([NoCall EXCEPT !.step = "load", !.query = query])
    BY DEF Carries, Call, NoCall, Steps
  <2> QED
    BY <1>2, <1>5, <2>1 DEF Load, Send
<1>6. CASE CreateDemo
  <2>1. Carries([NoCall EXCEPT !.step = "create"])
    BY DEF Carries, Call, NoCall, Queries, Steps
  <2> QED
    BY <1>2, <1>6, <2>1 DEF CreateDemo, Send
<1>7. CASE ConfirmTransition
  <2>1. pending \in [item : Stored, status : Statuses] /\ Faithful(pending.item)
    BY <1>7 DEF ConfirmTransition, WInv, WTypeOK
  <2>2. Carries([NoCall EXCEPT !.step = "transition", !.dialog = pending])
    BY <2>1 DEF Carries, Call, NoCall, Queries, Steps
  <2> QED
    BY <1>2, <1>7, <2>2 DEF ConfirmTransition, Send
<1>8. ASSUME NEW t \in Slots, List(t)
      PROVE  calls' \in [Slots -> Call] /\ Carries(calls'[s])
  <2> DEFINE call == [calls[t] EXCEPT !.step = "loaded", !.answer = Rows(calls[t].query)]
  <2>1. Rows(calls[t].query) \subseteq Stored
    BY RowsFaithful DEF Faithful, WInv
  <2>2. Carries(call)
    BY <1>1, <2>1, RowsFaithful DEF Carries, Call, Steps, WInv
  <2>3. calls' = [calls EXCEPT ![t] = call]
    BY <1>1, <1>8 DEF List
  <2> HIDE DEF call
  <2> QED
    BY <1>2, <2>2, <2>3
<1>9. ASSUME NEW t \in Slots, NEW step \in Steps \ {"transition"},
             calls' = [calls EXCEPT ![t].step = step]
      PROVE  calls' \in [Slots -> Call] /\ Carries(calls'[s])
  <2> DEFINE call == [calls[t] EXCEPT !.step = step]
  <2>1. Carries(call)
    BY <1>1, <1>9 DEF Carries, Call
  <2>2. calls' = [calls EXCEPT ![t] = call]
    BY <1>1, <1>9
  <2> HIDE DEF call
  <2> QED
    BY <1>2, <2>1, <2>2
<1>10. ASSUME NEW t \in Slots, Create(t) \/ Transition(t) \/ Refuse(t)
       PROVE  calls' \in [Slots -> Call] /\ Carries(calls'[s])
  BY <1>9, <1>10 DEF Create, Transition, Refuse, Steps
<1>11. ASSUME NEW t \in Slots, Loaded(t) \/ Failed(t)
       PROVE  calls' \in [Slots -> Call] /\ Carries(calls'[s])
  BY <1>2, <1>4, <1>11 DEF Loaded, Failed, Finish
<1>12. ASSUME NEW t \in Slots, Written(t)
       PROVE  calls' \in [Slots -> Call] /\ Carries(calls'[s])
  <2>1. Carries([NoCall EXCEPT !.step = "load", !.closes = calls[t].dialog # NoDialog])
    BY DEF Carries, Call, NoCall, Queries, Steps
  <2> QED
    BY <1>2, <1>12, <2>1 DEF Written
<1> QED
  BY <1>3, <1>5, <1>6, <1>7, <1>8, <1>10, <1>11, <1>12
     DEF Next, vars, CloseTransition, OpenTransition, Other

-----------------------------------------------------------------------------
(* The invariant is inductive.                                             *)

LEMMA WInvInit == ASSUME Init PROVE WInv
<1>1. ASSUME NEW i \in Ids
      PROVE  rows[i] \in Stored \cup {None} /\ (Live(i) => rows[i].id = i)
  <2>1. [id |-> i, status |-> InitialStatus, version |-> 1] \in Stored
    BY GraphClosed, WorkbenchAssumption DEF Stored
  <2> QED
    BY <2>1 DEF Init, Live
<1>2. rows \in [Ids -> Stored \cup {None, Gone}]
  BY <1>1 DEF Init
<1>3. NoCall \in Call /\ NoCall.answer = {} /\ NoCall.step = "none"
  BY DEF NoCall, Call, Steps, Queries
<1> QED
  BY <1>1, <1>2, <1>3 DEF Init, WInv, WTypeOK

LEMMA WInvStep == ASSUME WInv, [Next]_vars PROVE WInv'
<1> WTypeOK
  BY DEF WInv
<1>1. \A item : Faithful(item) => Faithful(item)'
  BY FaithfulStays
<1>2. WTypeOK'
  <2>1. calls' \in [Slots -> Call]
    <3>1. CASE Slots = {}
      BY <3>1 DEF WTypeOK, Next, vars, Load, CreateDemo, CloseTransition, ConfirmTransition,
                  OpenTransition, Other
    <3> QED
      BY <3>1, CallStep
  <2> QED
    BY <2>1, RowsTyped, PendingStep DEF WTypeOK
<1>3. \A item \in items' : Faithful(item)'
  BY <1>1, ItemsStep
<1>4. pending' # NoDialog => Faithful(pending.item)'
  <2> SUFFICES ASSUME pending' # NoDialog
               PROVE  Faithful(pending.item)'
    OBVIOUS
  <2>1. PICK item : item = pending'.item
    OBVIOUS
  <2>2. Faithful(item)'
    BY <1>1, <2>1, PendingStep
  <2> QED
    BY <2>1, <2>2 DEF Faithful
<1>5. ASSUME NEW s \in Slots
      PROVE  /\ \A item \in calls'[s].answer : Faithful(item)'
             /\ calls'[s].step = "transition" => Faithful(calls[s].dialog.item)'
  <2>1. Carries(calls'[s])
    BY CallStep
  <2>2. PICK item : item = calls'[s].dialog.item
    OBVIOUS
  <2>3. calls'[s].step = "transition" => Faithful(item)'
    BY <1>1, <2>1, <2>2 DEF Carries
  <2> QED
    BY <1>1, <2>1, <2>2, <2>3 DEF Carries, Faithful
<1> QED
  BY <1>2, <1>3, <1>4, <1>5 DEF WInv

-----------------------------------------------------------------------------
\* A confirmed transition changes the row its dialog showed, in the version it
\* showed, with any number of calls in flight and writers behind them.
THEOREM Confirmed == Spec => ConfirmsWhatItShows
<1>1. Init => WInv
  BY WInvInit
<1>2. WInv /\ [Next]_vars => WInv'
  BY WInvStep
<1>3. WInv /\ [Next]_vars =>
        [\A s \in Slots :
           calls[s].step = "transition" /\ calls'[s].step # "transition" /\ rows' # rows =>
             rows[calls[s].dialog.item.id] = calls[s].dialog.item]_vars
  <2> SUFFICES ASSUME WInv, Next, NEW s \in Slots,
                      calls[s].step = "transition", calls'[s].step # "transition", rows' # rows
               PROVE  rows[calls[s].dialog.item.id] = calls[s].dialog.item
    BY DEF vars
  <2>1. calls \in [Slots -> Call]
    BY DEF WInv, WTypeOK
  <2>2. Transition(s)
    BY <2>1 DEF Next, Load, CreateDemo, CloseTransition, ConfirmTransition, OpenTransition,
                List, Create, Transition, Refuse, Other, Loaded, Written, Failed
  <2>3. Faithful(calls[s].dialog.item)
    BY DEF WInv
  <2> QED
    BY <2>2, <2>3 DEF Transition, ExpectedVersion, Faithful, Live
<1> QED
  BY <1>1, <1>2, <1>3, PTL DEF Spec, ConfirmsWhatItShows
=============================================================================
