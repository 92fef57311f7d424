------------------------- MODULE AuditSummaryProofs -------------------------
(***************************************************************************)
(* The figures of an audit summary fit together, for any number of         *)
(* entries, actors, kinds and hours.                                       *)
(*                                                                         *)
(* The argument: a figure of an earlier query counts a part of what the    *)
(* window holds at a later one.  The sum of the counts by kind, or by      *)
(* action, is the count of all: it satisfies the recursion the sum is      *)
(* defined by, and only one function does.                                 *)
(***************************************************************************)
EXTENDS AuditSummary, FiniteSetTheorems, WellFoundedInduction, TLAPS

USE AuditSummaryAssumption

-----------------------------------------------------------------------------
(* Sums over a finite set.                                                 *)

First(s) == CHOOSE x \in s : TRUE

\* h adds up f over the subsets of S.
AddsUp(h, f, S) ==
  h = [s \in SUBSET S |-> IF s = {} THEN 0 ELSE f[First(s)] + h[s \ {First(s)}]]

\* The sum is what the recursion behind it says.
LEMMA SumIs ==
  ASSUME NEW f, NEW S
  PROVE  SumOver(f, S) = (CHOOSE h : AddsUp(h, f, S))[S]
BY DEF SumOver, MapThenSumSet, MapThenFoldSet, First, AddsUp

\* Two functions that add up f are one: a smallest set on which they differed
\* would not be empty, and without its first element they would differ already.
LEMMA OneSum ==
  ASSUME NEW S, IsFiniteSet(S), NEW f, NEW g, NEW h, AddsUp(g, f, S), AddsUp(h, f, S)
  PROVE  g = h
<1> DEFINE Apart == {s \in SUBSET S : g[s] # h[s]}
<1>1. ASSUME Apart # {}
      PROVE  FALSE
  <2>1. IsWellFoundedOn(StrictSubsetOrdering(S), SUBSET S)
    BY FS_FiniteSubsetsOfFinite, FS_StrictSubsetOrderingWellFounded
  <2>2. PICK m \in Apart : \A s \in Apart : ~ (<<s, m>> \in StrictSubsetOrdering(S))
    BY <1>1, <2>1, WFMin
  <2>3. CASE m = {}
    BY <2>2, <2>3 DEF AddsUp
  <2>4. CASE m # {}
    <3> DEFINE x == First(m)
    <3>1. x \in m
      BY <2>4 DEF First
    <3>2. m \ {x} \in SUBSET S /\ <<m \ {x}, m>> \in StrictSubsetOrdering(S)
      BY <2>2, <3>1 DEF StrictSubsetOrdering
    <3>3. g[m \ {x}] = h[m \ {x}]
      BY <2>2, <3>2
    <3>4. g[m] = f[x] + g[m \ {x}] /\ h[m] = f[x] + h[m \ {x}]
      BY <2>2, <2>4 DEF AddsUp
    <3> QED
      BY <2>2, <3>3, <3>4
  <2> QED
    BY <2>3, <2>4
<1>2. \A s \in SUBSET S : g[s] = h[s]
  BY <1>1
<1>3. g = [s \in SUBSET S |-> g[s]] /\ h = [s \in SUBSET S |-> h[s]]
  BY DEF AddsUp
<1> QED
  BY <1>2, <1>3

\* A function that adds up f has the sum for its last value.
LEMMA SumOf ==
  ASSUME NEW S, IsFiniteSet(S), NEW f, NEW h, AddsUp(h, f, S)
  PROVE  SumOver(f, S) = h[S]
<1>1. AddsUp(CHOOSE g : AddsUp(g, f, S), f, S)
  OBVIOUS
<1> QED
  BY <1>1, OneSum, SumIs

PartOf(W, p, s) == {i \in W : p[i] \in s}

\* A finite set has as many elements as its parts by p have together.
LEMMA SumOfParts ==
  ASSUME NEW W, IsFiniteSet(W), NEW S, IsFiniteSet(S), NEW p, NEW f,
         \A x \in S : f[x] = Cardinality({i \in W : p[i] = x})
  PROVE  SumOver(f, S) = Cardinality(PartOf(W, p, S))
<1> DEFINE h == [s \in SUBSET S |-> Cardinality(PartOf(W, p, s))]
<1>1. ASSUME NEW s \in SUBSET S
      PROVE  h[s] = IF s = {} THEN 0 ELSE f[First(s)] + h[s \ {First(s)}]
  <2>1. CASE s = {}
    <3>1. PartOf(W, p, s) = {}
      BY <2>1 DEF PartOf
    <3> QED
      BY <2>1, <3>1, FS_EmptySet
  <2>2. CASE s # {}
    <3> DEFINE x == First(s)
               A == {i \in W : p[i] = x}
               B == PartOf(W, p, s \ {x})
    <3>1. x \in s
      BY <2>2 DEF First
    <3>2. A \subseteq W /\ B \subseteq W /\ A \cap B = {} /\ PartOf(W, p, s) = A \cup B
      BY <3>1 DEF PartOf
    <3>3. /\ IsFiniteSet(A) /\ Cardinality(A) \in Nat
          /\ IsFiniteSet(B) /\ Cardinality(B) \in Nat
      BY <3>2, FS_Subset, FS_CardinalityType
    <3> HIDE DEF A, B
    <3>4. Cardinality(A \cup B) = Cardinality(A) + Cardinality(B) - Cardinality(A \cap B)
      BY <3>3, FS_Union
    <3>5. Cardinality(A \cap B) = 0
      BY <3>2, FS_EmptySet
    <3>6. Cardinality(PartOf(W, p, s)) = Cardinality(A) + Cardinality(B)
      BY <3>2, <3>3, <3>4, <3>5
    <3>7. h[s] = Cardinality(A) + Cardinality(B)
      BY <3>6
    <3>8. f[x] = Cardinality(A)
      BY <3>1 DEF A
    <3>9. h[s \ {x}] = Cardinality(B)
      BY DEF B
    <3> QED
      BY <2>2, <3>7, <3>8, <3>9
  <2> QED
    BY <2>1, <2>2
<1>2. AddsUp(h, f, S)
  <2>1. h = [s \in SUBSET S |-> h[s]]
    OBVIOUS
  <2> HIDE DEF h
  <2> QED
    BY <1>1, <2>1 DEF AddsUp
<1>3. SumOver(f, S) = h[S]
  <2> HIDE DEF h
  <2> QED
    BY <1>2, SumOf
<1> QED
  BY <1>3

-----------------------------------------------------------------------------
(* The inductive invariant.                                                *)

Typed ==
  /\ log \in Seq(Entry)
  /\ now \in 0..MaxTime /\ hours \in 1..MaxHours /\ since \in Int
  /\ query \in {"idle", "total", "transitions", "actors", "actions", "kinds", "answered"}
  /\ summary \in [total : Nat, transitions : Nat, actors : Nat,
                  actions : [Actions -> Nat], kinds : [Kinds -> Nat]]

OfAction(a) == {i \in InWindow : log[i].action = a}

\* A figure, once there, counts entries that are still in the window.
Fits ==
  /\ query \in {"transitions", "actors", "actions", "kinds"} =>
       summary.total <= Cardinality(InWindow)
  /\ query \in {"actors", "actions", "kinds"} =>
       /\ summary.transitions <= Cardinality(OfAction("transition"))
       /\ summary.transitions <= Cardinality(InWindow)
  /\ query \in {"actions", "kinds"} =>
       /\ summary.actors <= Cardinality(InWindow)
       /\ summary.total > 0 => summary.actors > 0
  /\ query = "kinds" =>
       LET byAction == SumOver(summary.actions, Actions) IN
       /\ byAction \in Nat /\ byAction <= Cardinality(InWindow)
       /\ summary.total <= byAction /\ summary.actors <= byAction
       /\ summary.transitions <= summary.actions["transition"]

SInv == Typed /\ Fits /\ SummaryAddsUp

\* What the window holds is finite, and so are its parts.
Counts ==
  /\ IsFiniteSet(InWindow) /\ Cardinality(InWindow) \in Nat
  /\ \A a : IsFiniteSet(OfAction(a)) /\ Cardinality(OfAction(a)) \in Nat

LEMMA WindowCounts == Typed => Counts
<1> SUFFICES ASSUME Typed PROVE Counts
  OBVIOUS
<1>1. InWindow \subseteq 1..Len(log) /\ Len(log) \in Nat
  BY DEF InWindow, Typed
<1>2. IsFiniteSet(1..Len(log))
  BY <1>1, FS_Interval
<1>3. IsFiniteSet(InWindow) /\ Cardinality(InWindow) \in Nat
  BY <1>1, <1>2, FS_Subset, FS_CardinalityType
<1>4. \A a : OfAction(a) \subseteq InWindow
  BY DEF OfAction
<1> QED
  BY <1>3, <1>4, FS_Subset, FS_CardinalityType DEF Counts

\* A committed entry is one more; those in the window stay there.
LEMMA CommitGrows ==
  ASSUME Typed, NEW stamp \in Max({0, now - Lag})..now, NEW action \in Actions,
         NEW kind \in Kinds, NEW actor \in Actors, Commit(stamp, action, kind, actor)
  PROVE  /\ Typed'
         /\ Cardinality(InWindow) <= Cardinality(InWindow')
         /\ \A a : Cardinality(OfAction(a)) <= Cardinality(OfAction(a)')
<1> DEFINE e == [stamp |-> stamp, action |-> action, kind |-> kind, actor |-> actor]
<1>1. log' = Append(log, e) /\ UNCHANGED <<now, query, hours, since, summary>>
  BY DEF Commit
<1>2. now \in Nat /\ now <= MaxTime /\ Lag \in Nat
  BY DEF Typed
<1>3. Max({0, now - Lag}) >= 0
  <2>1. \E x \in {0, now - Lag} : \A y \in {0, now - Lag} : x >= y
    BY <1>2
  <2>2. \A y \in {0, now - Lag} : Max({0, now - Lag}) >= y
    BY <2>1 DEF Max
  <2> QED
    BY <2>2
<1>4. Max({0, now - Lag}) \in Int
  <2>1. \E x \in {0, now - Lag} : \A y \in {0, now - Lag} : x >= y
    BY <1>2
  <2> QED
    BY <1>2, <2>1 DEF Max
<1>5. stamp \in 0..MaxTime
  BY <1>2, <1>3, <1>4
<1>6. e \in Entry
  BY <1>5 DEF Entry
<1> HIDE DEF e
<1>7. log \in Seq(Entry) /\ log' \in Seq(Entry)
  BY <1>1, <1>6 DEF Typed
<1>8. Typed'
  BY <1>1, <1>7 DEF Typed
<1>9. DOMAIN log \subseteq DOMAIN log' /\ \A i \in DOMAIN log : log'[i] = log[i]
  BY <1>1, <1>6, <1>7
<1>10. InWindow \subseteq InWindow' /\ \A a : OfAction(a) \subseteq OfAction(a)'
  BY <1>1, <1>9 DEF InWindow, OfAction, Since
<1>11. Counts'
  <2>1. (Typed => Counts)'
    BY WindowCounts, PTL
  <2> QED
    BY <1>8, <2>1
<1> QED
  BY <1>8, <1>10, <1>11, FS_Subset DEF Counts

\* The window has no more actors than entries, and one if it has an entry.
LEMMA FewActors ==
  ASSUME Typed
  PROVE  LET names == {log[i].actor : i \in InWindow} IN
         /\ Cardinality(names) \in Nat /\ Cardinality(names) <= Cardinality(InWindow)
         /\ Cardinality(InWindow) > 0 => Cardinality(names) > 0
<1> DEFINE names == {log[i].actor : i \in InWindow}
           f == [i \in InWindow |-> log[i].actor]
<1>1. f \in Surjection(InWindow, names)
  BY DEF Surjection
<1>2. IsFiniteSet(InWindow) /\ Cardinality(InWindow) \in Nat
  BY WindowCounts DEF Counts
<1>3. IsFiniteSet(names) /\ Cardinality(names) <= Cardinality(InWindow)
  <2> HIDE DEF f, names
  <2> QED
    BY <1>1, <1>2, FS_Surjection
<1>4. Cardinality(names) \in Nat
  BY <1>3, FS_CardinalityType
<1>5. InWindow # {} => names # {}
  OBVIOUS
<1>6. Cardinality(InWindow) > 0 => Cardinality(names) > 0
  <2> HIDE DEF names
  <2>1. /\ Cardinality(InWindow) = 0 <=> InWindow = {}
        /\ Cardinality(names) = 0 <=> names = {}
    BY <1>2, <1>3, FS_EmptySet
  <2> QED
    BY <1>2, <1>4, <1>5, <2>1
<1> QED
  BY <1>3, <1>4, <1>6

\* The counts by action are those of the parts of the window.
LEMMA ActionsAddUp ==
  ASSUME Typed
  PROVE  SumOver([a \in Actions |-> Cardinality({i \in InWindow : log[i].action = a})], Actions)
           = Cardinality(InWindow)
<1> DEFINE f == [a \in Actions |-> Cardinality({i \in InWindow : log[i].action = a})]
           p == [i \in InWindow |-> log[i].action]
<1>1. IsFiniteSet(Actions)
  <2>1. IsFiniteSet({} \cup {"transition"}) /\ IsFiniteSet({} \cup {"transition"} \cup {"other"})
    BY FS_EmptySet, FS_AddElement
  <2>2. Actions = {} \cup {"transition"} \cup {"other"}
    BY DEF Actions
  <2> QED
    BY <2>1, <2>2
<1>2. \A a \in Actions : f[a] = Cardinality({i \in InWindow : p[i] = a})
  <2>1. \A a : {i \in InWindow : p[i] = a} = {i \in InWindow : log[i].action = a}
    OBVIOUS
  <2> QED
    BY <2>1
<1>3. PartOf(InWindow, p, Actions) = InWindow
  <2>1. \A i \in InWindow : log[i] \in Entry
    BY DEF Typed, InWindow
  <2> QED
    BY <2>1 DEF PartOf, Entry
<1>4. IsFiniteSet(InWindow)
  BY WindowCounts DEF Counts
<1>5. SumOver(f, Actions) = Cardinality(PartOf(InWindow, p, Actions))
  <2> HIDE DEF f, p
  <2> QED
    BY <1>1, <1>2, <1>4, SumOfParts
<1> QED
  BY <1>3, <1>5

\* So are those by kind.
LEMMA KindsAddUp ==
  ASSUME Typed
  PROVE  SumOver([k \in Kinds |-> Cardinality({i \in InWindow : log[i].kind = k})], Kinds)
           = Cardinality(InWindow)
<1> DEFINE f == [k \in Kinds |-> Cardinality({i \in InWindow : log[i].kind = k})]
           p == [i \in InWindow |-> log[i].kind]
<1>1. \A k \in Kinds : f[k] = Cardinality({i \in InWindow : p[i] = k})
  <2>1. \A k : {i \in InWindow : p[i] = k} = {i \in InWindow : log[i].kind = k}
    OBVIOUS
  <2> QED
    BY <2>1
<1>2. PartOf(InWindow, p, Kinds) = InWindow
  <2>1. \A i \in InWindow : log[i] \in Entry
    BY DEF Typed, InWindow
  <2> QED
    BY <2>1 DEF PartOf, Entry
<1>3. IsFiniteSet(InWindow)
  BY WindowCounts DEF Counts
<1>4. SumOver(f, Kinds) = Cardinality(PartOf(InWindow, p, Kinds))
  <2> HIDE DEF f, p
  <2> QED
    BY <1>1, <1>3, SumOfParts
<1> QED
  BY <1>2, <1>4

-----------------------------------------------------------------------------
(* One lemma per query, and the steps that answer nothing.                 *)

\* The total counts what the window holds.
LEMMA TotalStep ==
  ASSUME SInv, Total, UNCHANGED <<log, now, hours, since>>
  PROVE  SInv'
<1> USE DEF SInv
<1>1. Counts /\ InWindow' = InWindow
  BY WindowCounts DEF InWindow, Since
<1>2. summary' = [summary EXCEPT !.total = Cardinality(InWindow)] /\ query' = "transitions"
  BY DEF Total
<1>3. Typed'
  BY <1>1, <1>2 DEF Typed, Counts
<1>4. Fits'
  BY <1>1, <1>2 DEF Fits, Typed, Counts
<1> QED
  BY <1>2, <1>3, <1>4 DEF SummaryAddsUp

\* The transitions are among what the window holds.
LEMMA TransitionsStep ==
  ASSUME SInv, Transitions, UNCHANGED <<log, now, hours, since>>
  PROVE  SInv'
<1> USE DEF SInv
<1>1. /\ Counts /\ InWindow' = InWindow
      /\ OfAction("transition")' = OfAction("transition")
      /\ OfAction("transition") \subseteq InWindow
  BY WindowCounts DEF InWindow, Since, OfAction
<1>2. /\ summary' = [summary EXCEPT !.transitions = Cardinality(OfAction("transition"))]
      /\ query = "transitions" /\ query' = "actors"
  BY DEF Transitions, OfAction
<1>3. Typed'
  BY <1>1, <1>2 DEF Typed, Counts
<1>4. Cardinality(OfAction("transition")) <= Cardinality(InWindow)
  BY <1>1, FS_Subset DEF Counts
<1>5. /\ summary'.total = summary.total
      /\ summary'.transitions = Cardinality(OfAction("transition"))
  BY <1>2 DEF Typed
<1>6. Fits'
  BY <1>1, <1>2, <1>4, <1>5 DEF Fits, Typed, Counts
<1> QED
  BY <1>2, <1>3, <1>6 DEF SummaryAddsUp

\* Behind every actor is an entry in the window, and behind every entry an actor.
LEMMA UniqueActorsStep ==
  ASSUME SInv, UniqueActors, UNCHANGED <<log, now, hours, since>>
  PROVE  SInv'
<1> DEFINE names == {log[i].actor : i \in InWindow}
<1>1. /\ Typed /\ Fits /\ Counts /\ InWindow' = InWindow
      /\ OfAction("transition")' = OfAction("transition")
  BY WindowCounts DEF InWindow, Since, OfAction, SInv
<1>2. /\ summary' = [summary EXCEPT !.actors = Cardinality(names)]
      /\ query = "actors" /\ query' = "actions"
  BY DEF UniqueActors
<1>3. /\ Cardinality(names) \in Nat /\ Cardinality(names) <= Cardinality(InWindow)
      /\ Cardinality(InWindow) > 0 => Cardinality(names) > 0
  BY <1>1, FewActors
<1> HIDE DEF names
<1>4. Typed'
  BY <1>1, <1>2, <1>3 DEF Typed
<1>5. /\ summary'.total = summary.total /\ summary'.transitions = summary.transitions
      /\ summary'.actors = Cardinality(names) /\ summary.total \in Nat
  BY <1>1, <1>2 DEF Typed
<1>6. Fits'
  BY <1>1, <1>2, <1>3, <1>5 DEF Fits, Counts
<1> QED
  BY <1>2, <1>4, <1>6 DEF SummaryAddsUp, SInv

\* The counts by action add up to the window, which still holds what was counted.
LEMMA ByActionStep ==
  ASSUME SInv, ByAction, UNCHANGED <<log, now, hours, since>>
  PROVE  SInv'
<1> DEFINE f == [a \in Actions |-> Cardinality({i \in InWindow : log[i].action = a})]
<1>1. /\ Typed /\ Fits /\ Counts /\ InWindow' = InWindow
      /\ OfAction("transition")' = OfAction("transition")
  BY WindowCounts DEF InWindow, Since, OfAction, SInv
<1>2. /\ summary' = [summary EXCEPT !.actions = f]
      /\ query = "actions" /\ query' = "kinds"
  BY DEF ByAction
<1>3. f["transition"] = Cardinality(OfAction("transition"))
  BY DEF Actions, OfAction
<1>4. f \in [Actions -> Nat]
  BY <1>1 DEF Counts, OfAction
<1>5. SumOver(f, Actions) = Cardinality(InWindow)
  BY <1>1, ActionsAddUp
<1> HIDE DEF f
<1>6. Typed'
  BY <1>1, <1>2, <1>4 DEF Typed
<1>7. /\ summary'.total = summary.total /\ summary'.transitions = summary.transitions
      /\ summary'.actors = summary.actors /\ summary'.actions = f
  BY <1>1, <1>2 DEF Typed
<1>8. SumOver(summary.actions, Actions)' = SumOver(f, Actions)
  BY <1>7
<1>9. Fits'
  BY <1>1, <1>2, <1>3, <1>5, <1>7, <1>8 DEF Fits, Counts
<1> QED
  BY <1>2, <1>6, <1>9 DEF SummaryAddsUp, SInv

\* So do those by kind.
LEMMA ByKindStep ==
  ASSUME SInv, ByKind, UNCHANGED <<log, now, hours, since>>
  PROVE  SInv'
<1> DEFINE f == [k \in Kinds |-> Cardinality({i \in InWindow : log[i].kind = k})]
<1>1. Typed /\ Fits /\ Counts
  BY WindowCounts DEF SInv
<1>2. /\ summary' = [summary EXCEPT !.kinds = f]
      /\ query = "kinds" /\ query' = "answered"
  BY DEF ByKind
<1>3. f \in [Kinds -> Nat]
  <2>1. \A k : {i \in InWindow : log[i].kind = k} \subseteq InWindow
    OBVIOUS
  <2>2. \A k : Cardinality({i \in InWindow : log[i].kind = k}) \in Nat
    BY <1>1, <2>1, FS_Subset, FS_CardinalityType DEF Counts
  <2> QED
    BY <2>2
<1>4. SumOver(f, Kinds) = Cardinality(InWindow)
  BY <1>1, KindsAddUp
<1> HIDE DEF f
<1>5. Typed'
  BY <1>1, <1>2, <1>3 DEF Typed
<1>6. /\ summary'.total = summary.total /\ summary'.transitions = summary.transitions
      /\ summary'.actors = summary.actors /\ summary'.actions = summary.actions
      /\ summary'.kinds = f
  BY <1>1, <1>2 DEF Typed
<1>7. SumOver(summary.actions, Actions)' = SumOver(summary.actions, Actions)
  BY <1>6
<1>8. SumOver(summary.kinds, Kinds)' = Cardinality(InWindow)
  BY <1>4, <1>6
<1>9. LET byAction == SumOver(summary.actions, Actions)
          byKind   == SumOver(summary.kinds, Kinds)
      IN  (/\ summary.total <= byAction /\ byAction <= byKind
           /\ summary.transitions <= summary.actions["transition"]
           /\ summary.transitions <= byKind
           /\ summary.actors <= byAction
           /\ summary.total > 0 => summary.actors > 0)'
  BY <1>1, <1>2, <1>6, <1>7, <1>8 DEF Fits, Counts
<1>10. SummaryAddsUp'
  BY <1>9 DEF SummaryAddsUp
<1>11. Fits'
  BY <1>2 DEF Fits
<1> QED
  BY <1>5, <1>10, <1>11 DEF SInv

\* An entry that is committed between two queries disturbs no figure.
LEMMA CommitStep ==
  ASSUME SInv, NEW stamp \in Max({0, now - Lag})..now, NEW action \in Actions,
         NEW kind \in Kinds, NEW actor \in Actors, Commit(stamp, action, kind, actor)
  PROVE  SInv'
<1>1. Typed /\ Fits /\ SummaryAddsUp /\ UNCHANGED <<query, summary>>
  BY DEF SInv, Commit
<1>2. /\ Typed'
      /\ Cardinality(InWindow) <= Cardinality(InWindow')
      /\ Cardinality(OfAction("transition")) <= Cardinality(OfAction("transition")')
  BY <1>1, CommitGrows
<1>3. Counts /\ Counts'
  <2>1. (Typed => Counts)'
    BY WindowCounts, PTL
  <2> QED
    BY <1>1, <1>2, <2>1, WindowCounts
<1>4. summary.total \in Nat /\ summary.transitions \in Nat /\ summary.actors \in Nat
  BY <1>1 DEF Typed
<1>5. SumOver(summary.actions, Actions)' = SumOver(summary.actions, Actions)
  BY <1>1
<1>6. Fits'
  BY <1>1, <1>2, <1>3, <1>4, <1>5 DEF Fits, Counts
<1>7. SummaryAddsUp'
  BY <1>1 DEF SummaryAddsUp
<1> QED
  BY <1>2, <1>6, <1>7 DEF SInv

\* The window is within its bounds, and the service, which bounds it again,
\* leaves it as it is.
LEMMA WindowBounded ==
  \A asked \in Int : Window(asked) \in 1..MaxHours /\ Window(Window(asked)) = Window(asked)
<1>1. MaxHours \in Nat /\ DefaultHours \in 1..MaxHours
  OBVIOUS
<1> QED
  BY <1>1 DEF Window

\* Every step of the specification keeps the invariant.
LEMMA SummaryStep == SInv /\ [Next]_vars => SInv'
<1> SUFFICES ASSUME SInv, [Next]_vars PROVE SInv'
  OBVIOUS
<1>1. CASE Begin \/ End
  <2>1. query' \in {"idle", "total"}
    BY <1>1 DEF Begin, End
  <2>2. Typed'
    <3>1. CASE Begin
      <4>1. PICK asked \in AskedHours : hours' = Window(asked) /\ since' = now - Window(asked)
        BY <3>1 DEF Begin
      <4>2. Window(asked) \in 1..MaxHours
        BY WindowBounded
      <4> QED
        BY <3>1, <4>1, <4>2 DEF Begin, SInv, Typed
    <3>2. CASE End
      BY <3>2 DEF End, NoSummary, SInv, Typed
    <3> QED
      BY <1>1, <3>1, <3>2
  <2> QED
    BY <2>1, <2>2 DEF SInv, Fits, SummaryAddsUp
<1>2. CASE UNCHANGED <<log, query, hours, since, summary>> /\ now' \in 0..MaxTime
  <2>1. Typed'
    BY <1>2 DEF SInv, Typed
  <2>2. InWindow' = InWindow /\ OfAction("transition")' = OfAction("transition")
    BY <1>2 DEF InWindow, Since, OfAction
  <2> QED
    BY <1>2, <2>1, <2>2 DEF SInv, Fits, SummaryAddsUp
<1>3. CASE SummarizeAudits
  BY <1>3, TotalStep, TransitionsStep, UniqueActorsStep, ByActionStep, ByKindStep
     DEF SummarizeAudits
<1>4. CASE Tick
  BY <1>2, <1>4 DEF Tick, SInv, Typed
<1>5. CASE UNCHANGED vars
  BY <1>2, <1>5 DEF vars, SInv, Typed
<1> QED
  BY <1>1, <1>3, <1>4, <1>5, CommitStep DEF Next

\* The figures of a summary fit together, for any number of entries, actors,
\* kinds and hours, whatever is committed between the five queries.
THEOREM FiguresFit == Spec => []SummaryAddsUp
<1>1. Init => SInv
  <2> SUFFICES ASSUME Init PROVE SInv
    OBVIOUS
  <2>1. Typed
    BY DEF Init, Typed, NoSummary
  <2> QED
    BY <2>1 DEF Init, SInv, Fits, SummaryAddsUp
<1>2. SInv => SummaryAddsUp
  BY DEF SInv
<1> QED
  BY <1>1, <1>2, SummaryStep, PTL DEF Spec
=============================================================================
