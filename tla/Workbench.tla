----------------------------- MODULE Workbench ------------------------------
(***************************************************************************)
(* The page of one kind of record in the front end: EntityPageComponent    *)
(* over EntityStore (stores/factory.ts), against a backend other callers   *)
(* write to.  Every call is asynchronous: the user goes on while one is in *)
(* flight, and the answers come in any order.                              *)
(*                                                                         *)
(* An action is what runs between two awaits; of the backend it has what   *)
(* Registry.tla promises: a write matches the version it names or nothing. *)
(***************************************************************************)
EXTENDS StatusGraph, FiniteSets

CONSTANTS
  Kind,        \* the key of the page's EntityConfig
  Ids,         \* the records
  Found,       \* those a search finds; an empty one finds all
  Slots,       \* bound: the calls in flight at once
  MaxVersion,  \* bound on the versions
  None, Gone   \* no record yet, and no longer

Graph ==
  CASE Kind = "wasteGenerator"   -> WasteGeneratorTransitions
    [] Kind = "carrierProfile"   -> CarrierProfileTransitions
    [] Kind = "transferManifest" -> TransferManifestTransitions
    [] Kind = "complianceCheck"  -> ComplianceCheckTransitions

\* TRANSITIONS of types/status.ts: the buttons of a row.
TRANSITIONS ==
  CASE Kind = "wasteGenerator" ->
         [active     |-> {"restricted", "suspended", "expired"},
          restricted |-> {"active", "suspended", "expired"},
          suspended  |-> {"active", "expired"},
          expired    |-> {}]
    [] Kind = "carrierProfile" ->
         [pending    |-> {"verified", "restricted", "expired"},
          verified   |-> {"restricted", "expired"},
          restricted |-> {"pending", "expired"},
          expired    |-> {}]
    [] Kind = "transferManifest" ->
         [draft      |-> {"submitted"},
          submitted  |-> {"in_transit", "rejected"},
          in_transit |-> {"received", "rejected"},
          received   |-> {},
          rejected   |-> {}]
    [] Kind = "complianceCheck" ->
         [pending   |-> {"pass", "fail", "escalated"},
          pass      |-> {},
          fail      |-> {"escalated"},
          escalated |-> {}]

InitialStatus ==
  CASE Kind = "wasteGenerator"   -> WasteGeneratorInitialStatus
    [] Kind = "carrierProfile"   -> CarrierProfileInitialStatus
    [] Kind = "transferManifest" -> TransferManifestInitialStatus
    [] Kind = "complianceCheck"  -> ComplianceCheckInitialStatus

Row == [id : Ids, status : Statuses, version : 1..MaxVersion]

ASSUME WorkbenchAssumption ==
  /\ Kind \in {"wasteGenerator", "carrierProfile", "transferManifest", "complianceCheck"}
  /\ Found \subseteq Ids /\ MaxVersion \in Nat \ {0}
  /\ None # Gone /\ None \notin Row /\ Gone \notin Row

\* A search, or all; pages are left to Listing.tla.
Queries == {"all", "search"}
Matching(query) == IF query = "search" THEN Found ELSE Ids

\* A dialog about a row, as the list showed it, and a target.
Dialog == [item : Row, status : Statuses]
NoDialog == [item |-> None, status |-> ""]

VARIABLES
  rows,     \* rows[i]: the stored row, None or Gone
  items,    \* the rows the list shows
  listed,   \* the query they are of
  loading, error,
  asked,    \* the query the user asked for last
  pending,  \* the dialog
  calls     \* calls[s]: a call in flight

view == <<items, listed, loading, error>>
vars == <<rows, items, listed, loading, error, asked, pending, calls>>

\* A call waits for the backend ("load", "create", "transition") or for its
\* turn to go on with the answer ("loaded", "written", "failed").  `dialog' is
\* what it was confirmed with; `closes' says that the dialog goes with it.
NoCall == [step |-> "none", query |-> "all", answer |-> {}, dialog |-> NoDialog, closes |-> FALSE]

Init ==
  /\ rows \in [Ids -> Row \cup {None}]
  /\ \A i \in Ids : rows[i] \in {None, [id |-> i, status |-> InitialStatus, version |-> 1]}
  /\ items = {} /\ listed = "all" /\ loading = FALSE /\ error = FALSE
  /\ asked = "all"
  /\ pending = NoDialog
  /\ calls = [s \in Slots |-> NoCall]

Send(s, call) == calls[s] = NoCall /\ calls' = [calls EXCEPT ![s] = call]
Finish(s) == calls' = [calls EXCEPT ![s] = NoCall]

Patch(isLoading, isError) ==
  loading' = isLoading /\ error' = isError /\ UNCHANGED <<items, listed>>

(***************************************************************************)
(* The user.                                                               *)
(***************************************************************************)
\* ngOnInit, query and reset.
Load(query) ==
  /\ asked' = query
  /\ \E s \in Slots : Send(s, [NoCall EXCEPT !.step = "load", !.query = query])
  /\ Patch(TRUE, FALSE)
  /\ UNCHANGED <<rows, pending>>

CreateDemo ==
  /\ \E s \in Slots : Send(s, [NoCall EXCEPT !.step = "create"])
  /\ Patch(TRUE, error)
  /\ UNCHANGED <<rows, asked, pending>>

OpenTransition(item, target) ==
  /\ pending = NoDialog
  /\ item \in items /\ target \in TRANSITIONS[item.status]
  /\ pending' = [item |-> item, status |-> target]
  /\ UNCHANGED <<rows, view, asked, calls>>

CloseTransition ==
  /\ pending # NoDialog
  /\ pending' = NoDialog
  /\ UNCHANGED <<rows, view, asked, calls>>

\* The dialog stays while the call is in flight: it can be confirmed again.
ConfirmTransition ==
  /\ pending # NoDialog
  /\ \E s \in Slots : Send(s, [NoCall EXCEPT !.step = "transition", !.dialog = pending])
  /\ Patch(TRUE, error)
  /\ UNCHANGED <<rows, asked, pending>>

(***************************************************************************)
(* The backend.                                                            *)
(***************************************************************************)
Live(i) == rows[i] \notin {None, Gone}

Rows(query) == {rows[i] : i \in {j \in Matching(query) : Live(j)}}

List(s) ==
  /\ calls[s].step = "load"
  /\ calls' = [calls EXCEPT ![s].step = "loaded", ![s].answer = Rows(calls[s].query)]
  /\ UNCHANGED <<rows, view, asked, pending>>

\* The response may be lost after the commit, here and below.
Create(s) ==
  /\ calls[s].step = "create"
  /\ \E i \in Ids :
       /\ rows[i] = None
       /\ rows' = [rows EXCEPT ![i] = [id |-> i, status |-> InitialStatus, version |-> 1]]
  /\ \E step \in {"written", "failed"} : calls' = [calls EXCEPT ![s].step = step]
  /\ UNCHANGED <<view, asked, pending>>

\* Mutant: expectedVersion is the version the list shows by now.
ExpectedVersionNow(s) ==
  LET i == calls[s].dialog.item.id IN
  CHOOSE v \in 1..MaxVersion :
    IF \E item \in items : item.id = i
    THEN \E item \in items : item.id = i /\ item.version = v
    ELSE v = calls[s].dialog.item.version

\* expectedVersion: item.version, of the item the dialog was opened on.
ExpectedVersion(s) == calls[s].dialog.item.version

Transition(s) ==
  LET i == calls[s].dialog.item.id
      target == calls[s].dialog.status
  IN
  /\ calls[s].step = "transition"
  /\ Live(i) /\ rows[i].version = ExpectedVersion(s) /\ rows[i].version < MaxVersion
  /\ CanTransition(Graph, rows[i].status, target)
  /\ rows' = [rows EXCEPT ![i].status = target, ![i].version = @ + 1]
  /\ \E step \in {"written", "failed"} : calls' = [calls EXCEPT ![s].step = step]
  /\ UNCHANGED <<view, asked, pending>>

\* A call is refused, or fails on its way.
Refuse(s) ==
  /\ calls[s].step \in {"load", "create", "transition"}
  /\ calls' = [calls EXCEPT ![s].step = "failed"]
  /\ UNCHANGED <<rows, view, asked, pending>>

\* Another caller edits, advances or deletes a record.
Other(i) ==
  /\ Live(i)
  /\ \/ /\ rows[i].version < MaxVersion
        /\ \E status \in {rows[i].status} \cup Graph[rows[i].status] :
             rows' = [rows EXCEPT ![i].status = status, ![i].version = @ + 1]
     \/ rows' = [rows EXCEPT ![i] = Gone]
  /\ UNCHANGED <<view, asked, pending, calls>>

(***************************************************************************)
(* The answers.                                                            *)
(***************************************************************************)
\* The list shows the answer that came last.
Loaded(s) ==
  /\ calls[s].step = "loaded"
  /\ items' = calls[s].answer /\ listed' = calls[s].query
  /\ loading' = FALSE /\ error' = FALSE
  /\ pending' = IF calls[s].closes THEN NoDialog ELSE pending
  /\ Finish(s)
  /\ UNCHANGED <<rows, asked>>

\* After a write the store loads with its own defaults: no search, page 1.
Written(s) ==
  /\ calls[s].step = "written"
  /\ calls' = [calls EXCEPT ![s] = [NoCall EXCEPT !.step = "load",
                                      !.closes = calls[s].dialog # NoDialog]]
  /\ Patch(TRUE, FALSE)
  /\ UNCHANGED <<rows, asked, pending>>

\* The load after a write catches its own error: the dialog goes all the same.
Failed(s) ==
  /\ calls[s].step = "failed"
  /\ pending' = IF calls[s].closes THEN NoDialog ELSE pending
  /\ Finish(s)
  /\ Patch(FALSE, TRUE)
  /\ UNCHANGED <<rows, asked>>

Next ==
  \/ \E query \in Queries : Load(query)
  \/ CreateDemo \/ CloseTransition \/ ConfirmTransition
  \/ \E item \in items : \E target \in TRANSITIONS[item.status] : OpenTransition(item, target)
  \/ \E s \in Slots :
       \/ List(s) \/ Create(s) \/ Transition(s) \/ Refuse(s)
       \/ Loaded(s) \/ Written(s) \/ Failed(s)
  \/ \E i \in Ids : Other(i)

Spec == Init /\ [][Next]_vars

-----------------------------------------------------------------------------
\* What a confirmed transition changes is the row the dialog showed, in the
\* version it showed, whatever others wrote, however often it was confirmed,
\* retried after a lost answer or overtaken by reloads of the list.
ConfirmsWhatItShows ==
  [][\A s \in Slots :
       calls[s].step = "transition" /\ calls'[s].step # "transition" /\ rows' # rows =>
         rows[calls[s].dialog.item.id] = calls[s].dialog.item]_vars

\* "status changes must be made in both places": what a button offers on a row
\* that is as the list shows it is not refused for want of an edge.
OffersOnlyEdges ==
  pending # NoDialog => CanTransition(Graph, pending.item.status, pending.status)

\* The record total is labelled the current query's: with no call in flight the
\* list is of what the user asked for last, unless an error is shown.
ListsWhatWasAsked ==
  (\A s \in Slots : calls[s] = NoCall) /\ ~error /\ items # {} => listed = asked
=============================================================================
