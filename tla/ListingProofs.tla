--------------------------- MODULE ListingProofs ----------------------------
(***************************************************************************)
(* What a walk through the pages of a list sees, for every set of rows,    *)
(* page size and number of writes.                                         *)
(*                                                                         *)
(* The argument: a row that is not written never moves towards the front,  *)
(* so it cannot slip from a page still to be read to one read already; and *)
(* behind a page that is not full there is none.                           *)
(***************************************************************************)
EXTENDS Listing, FiniteSetTheorems, SequenceTheorems, TLAPS

-----------------------------------------------------------------------------
(* Sequences.                                                              *)

\* w is s with e at position i, and what is behind shifted by one.
IsInserted(w, s, i, e) ==
  /\ Len(w) = Len(s) + 1
  /\ \A k \in 1..(Len(s) + 1) :
       w[k] = IF k < i THEN s[k] ELSE IF k = i THEN e ELSE s[k - 1]

\* That is what InsertAt does.
LEMMA Inserted ==
  \A S : \A s \in Seq(S) : \A i \in 1..(Len(s) + 1) : \A e \in S :
    InsertAt(s, i, e) \in Seq(S) /\ IsInserted(InsertAt(s, i, e), s, i, e)
<1> TAKE S
<1> TAKE s \in Seq(S)
<1> TAKE i \in 1..(Len(s) + 1)
<1> TAKE e \in S
<1> DEFINE a == SubSeq(s, 1, i - 1)
           b == SubSeq(s, i, Len(s))
<1>1. Len(s) \in Nat /\ i \in Nat /\ i >= 1 /\ i <= Len(s) + 1
  OBVIOUS
<1>2. a \in Seq(S) /\ Len(a) = i - 1 /\ \A k \in 1..(i - 1) : a[k] = s[k]
  BY <1>1
<1>3. b \in Seq(S) /\ Len(b) = Len(s) - i + 1 /\ \A k \in 1..(Len(s) - i + 1) : b[k] = s[i + k - 1]
  BY <1>1
<1>4. InsertAt(s, i, e) = a \o <<e>> \o b
  BY DEF InsertAt
<1> HIDE DEF a, b
<1> DEFINE c == a \o <<e>>
<1>5. c \in Seq(S) /\ Len(c) = i /\ c[i] = e /\ \A k \in 1..(i - 1) : c[k] = s[k]
  BY <1>1, <1>2
<1>6. InsertAt(s, i, e) = c \o b
  BY <1>4
<1> HIDE DEF c
<1>7. /\ c \o b \in Seq(S) /\ Len(c \o b) = Len(s) + 1
      /\ \A k \in 1..(Len(s) + 1) : (c \o b)[k] = IF k <= i THEN c[k] ELSE b[k - i]
  <2>1. Len(c) + Len(b) = Len(s) + 1
    BY <1>1, <1>3, <1>5
  <2>2. /\ c \o b \in Seq(S) /\ Len(c \o b) = Len(c) + Len(b)
        /\ \A k \in 1..(Len(c) + Len(b)) :
             (c \o b)[k] = IF k <= Len(c) THEN c[k] ELSE b[k - Len(c)]
    BY <1>3, <1>5, ConcatProperties
  <2> QED
    BY <1>5, <2>1, <2>2
<1>8. ASSUME NEW k \in 1..(Len(s) + 1)
      PROVE  (c \o b)[k] = IF k < i THEN s[k] ELSE IF k = i THEN e ELSE s[k - 1]
  <2>1. CASE k <= i
    BY <1>1, <1>5, <1>7, <2>1
  <2>2. CASE k > i
    <3>1. (c \o b)[k] = b[k - i]
      <4>1. ~(k <= i)
        BY <1>1, <2>2
      <4> QED
        BY <1>7, <4>1
    <3>2. k - i \in 1..(Len(s) - i + 1) /\ i + (k - i) - 1 = k - 1
      BY <1>1, <2>2
    <3>3. b[k - i] = s[k - 1]
      BY <1>3, <3>2
    <3> QED
      BY <1>1, <2>2, <3>1, <3>3
  <2>3. k <= i \/ k > i
    BY <1>1
  <2> QED
    BY <2>1, <2>2, <2>3, Zenon
<1> QED
  BY <1>6, <1>7, <1>8 DEF IsInserted

\* Removing closes the gap.
LEMMA Removed ==
  \A S : \A s \in Seq(S) : \A i \in 1..Len(s) :
    /\ RemoveAt(s, i) \in Seq(S)
    /\ Len(RemoveAt(s, i)) = Len(s) - 1
    /\ \A k \in 1..(Len(s) - 1) :
         RemoveAt(s, i)[k] = IF k < i THEN s[k] ELSE s[k + 1]
<1> TAKE S
<1> TAKE s \in Seq(S)
<1> TAKE i \in 1..Len(s)
<1> DEFINE a == SubSeq(s, 1, i - 1)
           b == SubSeq(s, i + 1, Len(s))
<1>1. Len(s) \in Nat /\ i \in Nat /\ i >= 1 /\ i <= Len(s)
  OBVIOUS
<1>2. a \in Seq(S) /\ Len(a) = i - 1 /\ \A k \in 1..(i - 1) : a[k] = s[k]
  BY <1>1
<1>3. b \in Seq(S) /\ Len(b) = Len(s) - i /\ \A k \in 1..(Len(s) - i) : b[k] = s[i + k]
  BY <1>1
<1>4. RemoveAt(s, i) = a \o b
  BY DEF RemoveAt
<1> HIDE DEF a, b
<1>5. /\ a \o b \in Seq(S) /\ Len(a \o b) = Len(s) - 1
      /\ \A k \in 1..(Len(s) - 1) : (a \o b)[k] = IF k <= i - 1 THEN a[k] ELSE b[k - (i - 1)]
  <2>1. Len(a) + Len(b) = Len(s) - 1
    BY <1>1, <1>2, <1>3
  <2>2. /\ a \o b \in Seq(S) /\ Len(a \o b) = Len(a) + Len(b)
        /\ \A k \in 1..(Len(a) + Len(b)) :
             (a \o b)[k] = IF k <= Len(a) THEN a[k] ELSE b[k - Len(a)]
    BY <1>2, <1>3, ConcatProperties
  <2> QED
    BY <1>2, <2>1, <2>2
<1>6. ASSUME NEW k \in 1..(Len(s) - 1)
      PROVE  (a \o b)[k] = IF k < i THEN s[k] ELSE s[k + 1]
  <2>1. CASE k < i
    <3>1. k <= i - 1 /\ k \in 1..(i - 1)
      BY <1>1, <2>1
    <3> QED
      BY <1>2, <1>5, <2>1, <3>1
  <2>2. CASE k >= i
    <3>1. (a \o b)[k] = b[k - (i - 1)]
      <4>1. ~(k <= i - 1)
        BY <1>1, <2>2
      <4> QED
        BY <1>5, <4>1
    <3>2. k - (i - 1) \in 1..(Len(s) - i) /\ i + (k - (i - 1)) = k + 1
      BY <1>1, <2>2
    <3>3. b[k - (i - 1)] = s[k + 1]
      BY <1>3, <3>2
    <3> QED
      BY <1>1, <2>2, <3>1, <3>3
  <2>3. k < i \/ k >= i
    BY <1>1
  <2> QED
    BY <2>1, <2>2, <2>3, Zenon
<1> QED
  BY <1>4, <1>5, <1>6

\* So a sequence without repetitions stays one, and of what is new to it only the
\* inserted is.
LEMMA InsertedNew ==
  ASSUME NEW S, NEW s \in Seq(S), NEW i \in 1..(Len(s) + 1), NEW e \in S,
         IsInjective(s), e \notin ToSet(s)
  PROVE  IsInjective(InsertAt(s, i, e)) /\ ToSet(s) \subseteq ToSet(InsertAt(s, i, e))
<1> DEFINE w == InsertAt(s, i, e)
<1>1. Len(s) \in Nat /\ i \in Nat /\ i >= 1 /\ i <= Len(s) + 1 /\ DOMAIN s = 1..Len(s)
  OBVIOUS
<1>2. /\ DOMAIN w = 1..(Len(s) + 1)
      /\ \A k \in 1..(Len(s) + 1) : w[k] = IF k < i THEN s[k] ELSE IF k = i THEN e ELSE s[k - 1]
  <2>1. w \in Seq(S) /\ IsInserted(w, s, i, e)
    BY Inserted
  <2> HIDE DEF w
  <2> QED
    BY <2>1 DEF IsInserted
<1> HIDE DEF w
<1>3. \A k \in DOMAIN s : s[k] # e
  BY DEF ToSet
<1>4. \A j, k \in DOMAIN s : s[j] = s[k] => j = k
  BY DEF IsInjective
<1>5. ASSUME NEW j \in DOMAIN w, NEW k \in DOMAIN w, w[j] = w[k]
      PROVE  j = k
  <2> DEFINE Old(m) == IF m < i THEN m ELSE m - 1
  <2>1. \A m \in DOMAIN w : m # i => Old(m) \in DOMAIN s /\ w[m] = s[Old(m)]
    BY <1>1, <1>2
  <2>2. w[i] = e /\ i \in DOMAIN w
    BY <1>1, <1>2
  <2>3. j = i <=> k = i
    BY <1>3, <1>5, <2>1, <2>2
  <2>4. CASE j # i
    <3>1. Old(j) = Old(k)
      BY <1>4, <1>5, <2>1, <2>3, <2>4
    <3> QED
      BY <1>1, <1>2, <2>3, <2>4, <3>1
  <2> QED
    BY <2>3, <2>4
<1>6. ASSUME NEW k \in DOMAIN s
      PROVE  \E m \in DOMAIN w : w[m] = s[k]
  <2>1. CASE k < i
    BY <1>1, <1>2, <2>1
  <2>2. CASE ~ (k < i)
    <3>1. k + 1 \in DOMAIN w /\ w[k + 1] = s[k]
      BY <1>1, <1>2, <2>2
    <3> QED
      BY <3>1
  <2> QED
    BY <2>1, <2>2
<1> QED
  BY <1>5, <1>6 DEF IsInjective, ToSet, w

\* And what is removed from one is in it no more.
LEMMA RemovedGone ==
  ASSUME NEW S, NEW s \in Seq(S), NEW i \in 1..Len(s), IsInjective(s)
  PROVE  /\ IsInjective(RemoveAt(s, i)) /\ s[i] \notin ToSet(RemoveAt(s, i))
         /\ ToSet(s) \ {s[i]} \subseteq ToSet(RemoveAt(s, i))
<1> DEFINE u == RemoveAt(s, i)
           Old(m) == IF m < i THEN m ELSE m + 1
<1>1. Len(s) \in Nat /\ i \in Nat /\ i >= 1 /\ i <= Len(s) /\ DOMAIN s = 1..Len(s)
  OBVIOUS
<1>2. /\ DOMAIN u = 1..(Len(s) - 1)
      /\ \A k \in 1..(Len(s) - 1) : u[k] = IF k < i THEN s[k] ELSE s[k + 1]
  <2>1. /\ u \in Seq(S) /\ Len(u) = Len(s) - 1
        /\ \A k \in 1..(Len(s) - 1) : u[k] = IF k < i THEN s[k] ELSE s[k + 1]
    BY Removed, Zenon
  <2> HIDE DEF u
  <2> QED
    BY <2>1
<1> HIDE DEF u
<1>3. \A j, k \in DOMAIN s : s[j] = s[k] => j = k
  BY DEF IsInjective
<1>4. \A m \in DOMAIN u : Old(m) \in DOMAIN s /\ Old(m) # i /\ u[m] = s[Old(m)]
  BY <1>1, <1>2
<1>5. \A j, k \in DOMAIN u : Old(j) = Old(k) => j = k
  BY <1>1, <1>2
<1>6. ASSUME NEW k \in DOMAIN s, k # i
      PROVE  \E m \in DOMAIN u : u[m] = s[k]
  <2>1. CASE k < i
    BY <1>1, <1>2, <2>1
  <2>2. CASE ~ (k < i)
    <3>1. k - 1 \in DOMAIN u /\ u[k - 1] = s[k]
      BY <1>1, <1>2, <1>6, <2>2
    <3> QED
      BY <3>1
  <2> QED
    BY <2>1, <2>2
<1> HIDE DEF Old
<1>7. \A j, k \in DOMAIN u : u[j] = u[k] => j = k
  BY <1>3, <1>4, <1>5
<1>8. \A m \in DOMAIN u : u[m] # s[i]
  BY <1>1, <1>3, <1>4
<1> QED
  BY <1>6, <1>7, <1>8 DEF IsInjective, ToSet, u

-----------------------------------------------------------------------------
(* The inductive invariant.                                                *)

\* Of the rows that stayed as they were, those in front of the page to be read
\* have been seen.
Behind ==
  \A i \in DOMAIN listed : listed[i] \in steady /\ i <= (page - 1) * size => listed[i] \in seen

PInv ==
  /\ TypeOK
  /\ steady \subseteq ToSet(listed)
  /\ phase \in {"count", "select"} => Behind
  /\ WalkSeesAll

\* Where pages begin and end.
LEMMA PageBounds ==
  ASSUME NEW p \in Nat \ {0}, NEW z \in Nat
  PROVE  (p - 1) * z \in Nat /\ p * z = (p - 1) * z + z /\ ((p + 1) - 1) * z = p * z
OBVIOUS

\* A list is no longer than its rows are many.
LEMMA FewListed ==
  ASSUME TypeOK
  PROVE  Len(listed) \in 0..Cardinality(Rows)
<1>1. IsFiniteSet(Rows) /\ Cardinality(Rows) \in Nat
  BY ListingAssumption, FS_CardinalityType
<1>2. Len(listed) \in Nat /\ listed \in [1..Len(listed) -> Rows]
  BY DEF TypeOK
<1>3. listed \in Injection(1..Len(listed), Rows)
  BY <1>2 DEF TypeOK, Injection
<1>4. Cardinality(1..Len(listed)) <= Cardinality(Rows)
  BY <1>1, <1>3, FS_Injection
<1>5. Cardinality(1..Len(listed)) = Len(listed)
  BY <1>2, FS_Interval
<1> QED
  BY <1>1, <1>2, <1>4, <1>5

\* A page that is not full is the last of the list.
LEMMA ShortIsLast ==
  ASSUME TypeOK, Cardinality(OnPage) < size, NEW i \in DOMAIN listed
  PROVE  i <= page * size
<1> DEFINE p == (page - 1) * size
           D == (p + 1)..(p + size)
           f == [k \in D |-> listed[k]]
<1>1. page \in Nat \ {0} /\ size \in Nat
  BY ListingAssumption DEF TypeOK
<1>2. p \in Nat /\ page * size = p + size
  BY <1>1, PageBounds
<1>3. Len(listed) \in Nat /\ listed \in [1..Len(listed) -> Rows] /\ i \in 1..Len(listed)
  BY DEF TypeOK
<1> HIDE DEF p
<1>4. SUFFICES ASSUME ~ (i <= page * size) PROVE FALSE
  OBVIOUS
<1>5. D \subseteq DOMAIN listed
  BY <1>1, <1>2, <1>3, <1>4
<1>6. OnPage = {listed[k] : k \in D}
  BY <1>2, <1>5 DEF OnPage, p
<1>7. f \in [D -> OnPage] /\ \A j, k \in D : f[j] = f[k] => j = k
  BY <1>5, <1>6 DEF TypeOK, IsInjective
<1>8. f \in Injection(D, OnPage)
  <2> HIDE DEF f, D
  <2> QED
    BY <1>7 DEF Injection, IsInjective
<1>9. OnPage \subseteq Rows
  BY <1>3, <1>5, <1>6
<1>10. IsFiniteSet(OnPage) /\ Cardinality(OnPage) \in Nat
  BY <1>9, ListingAssumption, FS_Subset, FS_CardinalityType
<1>11. Cardinality(D) <= Cardinality(OnPage)
  BY <1>8, <1>10, FS_Injection
<1>12. Cardinality(D) = size
  BY <1>1, <1>2, FS_Interval
<1> QED
  BY <1>1, <1>10, <1>11, <1>12

-----------------------------------------------------------------------------
(* The steps.                                                              *)

\* A write that keeps the list a list, and moves no row that stays as it is
\* towards the front.
LEMMA WriteStep ==
  ASSUME PInv, Write, listed' \in Seq(Rows), IsInjective(listed'),
         steady' \subseteq steady, steady' \subseteq ToSet(listed'),
         \A j \in DOMAIN listed' : listed'[j] \in steady' =>
           \E i \in DOMAIN listed : i <= j /\ listed[i] = listed'[j]
  PROVE  PInv'
<1>1. writes < MaxWrites /\ writes' = writes + 1 /\ UNCHANGED <<reader, phase, page, size, total, seen>>
  BY DEF Write, readVars
<1>2. TypeOK'
  BY <1>1, ListingAssumption DEF PInv, TypeOK
<1>3. ASSUME Behind PROVE Behind'
  <2> SUFFICES ASSUME NEW j \in DOMAIN listed', listed'[j] \in steady', j <= (page - 1) * size
               PROVE  listed'[j] \in seen
    BY <1>1 DEF Behind
  <2>1. PICK i \in DOMAIN listed : i <= j /\ listed[i] = listed'[j]
    OBVIOUS
  <2>2. (page - 1) * size \in Nat
    BY ListingAssumption, PageBounds DEF PInv, TypeOK
  <2>3. i \in Nat /\ j \in Nat
    BY DEF PInv, TypeOK
  <2>4. i <= (page - 1) * size
    BY <2>1, <2>2, <2>3
  <2> QED
    BY <1>3, <2>1, <2>4 DEF Behind
<1>4. WalkSeesAll'
  BY <1>1 DEF PInv, WalkSeesAll
<1> QED
  BY <1>1, <1>2, <1>3, <1>4 DEF PInv

LEMMA EnterStep ==
  ASSUME PInv, NEW r \in Rows, Enter(r)
  PROVE  PInv'
<1>1. PICK i \in 1..(Len(listed) + 1) : listed' = InsertAt(listed, i, r)
  BY DEF Enter
<1>2. Write /\ r \notin ToSet(listed) /\ steady' = steady \ {r}
  BY DEF Enter
<1>3. listed \in Seq(Rows) /\ IsInjective(listed) /\ steady \subseteq ToSet(listed)
  BY DEF PInv, TypeOK
<1>4. /\ listed' \in Seq(Rows) /\ Len(listed') = Len(listed) + 1
      /\ \A k \in 1..(Len(listed) + 1) :
           listed'[k] = IF k < i THEN listed[k] ELSE IF k = i THEN r ELSE listed[k - 1]
  <2>1. listed' \in Seq(Rows) /\ IsInserted(listed', listed, i, r)
    BY <1>1, <1>3, Inserted
  <2> QED
    BY <2>1 DEF IsInserted
<1>5. IsInjective(listed') /\ ToSet(listed) \subseteq ToSet(listed')
  BY <1>1, <1>2, <1>3, InsertedNew
<1>6. ASSUME NEW j \in DOMAIN listed', listed'[j] \in steady'
      PROVE  \E n \in DOMAIN listed : n <= j /\ listed[n] = listed'[j]
  <2>1. listed'[j] # r /\ j \in 1..(Len(listed) + 1) /\ Len(listed) \in Nat
    BY <1>2, <1>3, <1>4, <1>6
  <2>2. CASE j < i
    BY <1>3, <1>4, <2>1, <2>2
  <2>3. CASE ~ (j < i)
    <3>1. j - 1 \in DOMAIN listed /\ j - 1 <= j /\ listed[j - 1] = listed'[j]
      BY <1>3, <1>4, <2>1, <2>3
    <3> QED
      BY <3>1
  <2> QED
    BY <2>2, <2>3
<1>7. steady' \subseteq steady /\ steady' \subseteq ToSet(listed')
  BY <1>2, <1>3, <1>5
<1> QED
  BY <1>2, <1>4, <1>5, <1>6, <1>7, WriteStep

LEMMA TouchStep ==
  ASSUME PInv, NEW r \in Rows, Touch(r)
  PROVE  PInv'
<1>1. PICK i \in DOMAIN listed, j \in DOMAIN listed :
        listed[j] = r /\ i <= j /\ listed' = InsertAt(RemoveAt(listed, j), i, r)
  BY DEF Touch
<1>2. Write /\ steady' = steady \ {r}
  BY DEF Touch
<1>3. /\ listed \in Seq(Rows) /\ IsInjective(listed) /\ steady \subseteq ToSet(listed)
      /\ i \in 1..Len(listed) /\ j \in 1..Len(listed) /\ Len(listed) \in Nat
  BY DEF PInv, TypeOK
<1>4. PICK u : u = RemoveAt(listed, j)
  OBVIOUS
<1>5. /\ u \in Seq(Rows) /\ Len(u) = Len(listed) - 1
      /\ \A k \in 1..(Len(listed) - 1) : u[k] = IF k < j THEN listed[k] ELSE listed[k + 1]
  BY <1>3, <1>4, Removed, Zenon
<1>6. IsInjective(u) /\ r \notin ToSet(u) /\ ToSet(listed) \ {r} \subseteq ToSet(u)
  BY <1>1, <1>3, <1>4, RemovedGone
<1>7. listed' = InsertAt(u, i, r)
  BY <1>1, <1>4
<1>8. i \in 1..(Len(u) + 1)
  BY <1>3, <1>5
<1>9. /\ listed' \in Seq(Rows) /\ Len(listed') = Len(u) + 1
      /\ \A k \in 1..(Len(u) + 1) :
           listed'[k] = IF k < i THEN u[k] ELSE IF k = i THEN r ELSE u[k - 1]
  <2>1. u \in Seq(Rows) /\ i \in 1..(Len(u) + 1)
    BY <1>5, <1>8
  <2>2. listed' \in Seq(Rows) /\ IsInserted(listed', u, i, r)
    BY <1>7, <2>1, Inserted
  <2> QED
    BY <2>2 DEF IsInserted
<1>10. IsInjective(listed') /\ ToSet(u) \subseteq ToSet(listed')
  BY <1>5, <1>6, <1>7, <1>8, InsertedNew
<1>11. ASSUME NEW m \in DOMAIN listed', listed'[m] \in steady'
       PROVE  \E n \in DOMAIN listed : n <= m /\ listed[n] = listed'[m]
  <2>1. listed'[m] # r /\ m \in 1..Len(listed)
    BY <1>2, <1>3, <1>5, <1>9, <1>11
  <2>2. CASE m < i
    <3>1. m < j /\ m \in 1..Len(listed) /\ m \in 1..(Len(listed) - 1)
      BY <1>1, <1>3, <2>1, <2>2
    <3>2. m \in DOMAIN listed /\ listed'[m] = listed[m]
      BY <1>3, <1>5, <1>9, <2>2, <3>1
    <3> QED
      BY <1>3, <2>1, <3>2
  <2>3. CASE ~ (m < i)
    <3>1. m # i /\ m - 1 \in 1..(Len(listed) - 1) /\ listed'[m] = u[m - 1]
      BY <1>3, <1>5, <1>9, <2>1, <2>3
    <3>2. CASE m - 1 < j
      <4>1. m - 1 \in DOMAIN listed /\ m - 1 <= m /\ listed'[m] = listed[m - 1]
        BY <1>3, <1>5, <2>1, <3>1, <3>2
      <4> QED
        BY <4>1
    <3>3. CASE ~ (m - 1 < j)
      <4>1. m \in DOMAIN listed /\ m <= m /\ listed'[m] = listed[m]
        BY <1>3, <1>5, <2>1, <3>1, <3>3
      <4> QED
        BY <4>1
    <3> QED
      BY <3>2, <3>3
  <2> QED
    BY <2>2, <2>3
<1>12. steady' \subseteq steady /\ steady' \subseteq ToSet(listed')
  BY <1>2, <1>3, <1>6, <1>10
<1> QED
  BY <1>2, <1>9, <1>10, <1>11, <1>12, WriteStep

LEMMA LeaveStep ==
  ASSUME PInv, NEW r \in Rows, Leave(r)
  PROVE  PInv'
<1>1. PICK i \in DOMAIN listed : listed[i] = r /\ listed' = RemoveAt(listed, i)
  BY DEF Leave
<1>2. Write /\ steady' = {}
  BY DEF Leave
<1>3. listed \in Seq(Rows) /\ IsInjective(listed) /\ i \in 1..Len(listed)
  BY DEF PInv, TypeOK
<1>4. listed' \in Seq(Rows) /\ IsInjective(listed')
  <2>1. listed' \in Seq(Rows)
    BY <1>1, <1>3, Removed, Zenon
  <2>2. IsInjective(listed')
    BY <1>1, <1>3, RemovedGone
  <2> QED
    BY <2>1, <2>2
<1> QED
  BY <1>2, <1>4, WriteStep

\* A page read: what is in front of the next one has been seen; and if the page
\* is not full, nothing is behind it.
LEMMA SelectStep ==
  ASSUME PInv, Select
  PROVE  PInv'
<1>1. /\ phase = "select" /\ seen' = seen \cup OnPage
      /\ UNCHANGED <<listed, writes, reader, size, total, steady>>
      /\ \/ LastPage(OnPage) /\ phase' = "done" /\ page' = page
         \/ phase' = "count" /\ page' = page + 1
  BY DEF Select
<1>2. page \in Nat \ {0} /\ size \in Nat
  BY ListingAssumption DEF PInv, TypeOK
<1>3. /\ (page - 1) * size \in Nat /\ page * size = (page - 1) * size + size
      /\ ((page + 1) - 1) * size = page * size
  BY <1>2, PageBounds
<1>4. ASSUME NEW i \in DOMAIN listed, listed[i] \in steady, i <= page * size
      PROVE  listed[i] \in seen'
  <2>1. i \in Nat
    BY DEF PInv, TypeOK
  <2>2. CASE i <= (page - 1) * size
    BY <1>1, <1>4, <2>2 DEF PInv, Behind
  <2>3. CASE ~ (i <= (page - 1) * size)
    <3>1. i \in ((page - 1) * size + 1)..(page * size)
      BY <1>2, <1>3, <1>4, <2>1, <2>3
    <3> QED
      BY <1>1, <3>1 DEF OnPage
  <2> QED
    BY <2>2, <2>3
<1>5. OnPage \subseteq Rows
  BY DEF PInv, TypeOK, OnPage
<1>6. TypeOK'
  BY <1>1, <1>2, <1>5 DEF PInv, TypeOK
<1>7. CASE LastPage(OnPage) /\ phase' = "done" /\ page' = page
  <2>1. ASSUME reader = "until_short" PROVE steady \subseteq seen'
    <3>1. Cardinality(OnPage) < size
      BY <1>7, <2>1 DEF LastPage
    <3>2. \A i \in DOMAIN listed : i <= page * size
      BY <3>1, ShortIsLast DEF PInv
    <3>3. \A x \in steady : \E i \in DOMAIN listed : listed[i] = x
      BY DEF PInv, ToSet
    <3> QED
      BY <1>4, <3>2, <3>3
  <2> QED
    BY <1>1, <1>6, <1>7, <2>1 DEF PInv, WalkSeesAll
<1>8. CASE phase' = "count" /\ page' = page + 1
  <2>1. (page' - 1) * size' = page * size
    BY <1>1, <1>3, <1>8
  <2>2. Behind'
    BY <1>1, <1>4, <2>1 DEF Behind
  <2> QED
    BY <1>1, <1>6, <1>8, <2>2 DEF PInv, WalkSeesAll
<1> QED
  BY <1>1, <1>7, <1>8

LEMMA BeginStep ==
  ASSUME PInv, Begin
  PROVE  PInv'
<1>1. PICK asked \in PageSizes : size' = BoundSize(asked)
  BY DEF Begin
<1>2. /\ reader' \in Readers /\ phase' = "count" /\ page' = 1 /\ total' = 0
      /\ seen' = {} /\ steady' = ToSet(listed) /\ UNCHANGED <<listed, writes>>
  BY DEF Begin
<1>3. size' \in 1..MaxSize
  BY <1>1, ListingAssumption DEF BoundSize
<1>4. ToSet(listed) \subseteq Rows
  BY DEF PInv, TypeOK, ToSet
<1>5. 0 \in 0..Cardinality(Rows)
  BY ListingAssumption, FS_CardinalityType
<1>6. TypeOK'
  BY <1>2, <1>3, <1>4, <1>5 DEF PInv, TypeOK
<1>7. (page' - 1) * size' = 0
  <2>1. \A z \in Nat : (1 - 1) * z = 0
    OBVIOUS
  <2>2. size' \in Nat
    BY <1>3, ListingAssumption
  <2> QED
    BY <1>2, <2>1, <2>2, Zenon
<1>8. Behind'
  <2>1. \A i \in DOMAIN listed' : ~ (i <= 0)
    BY <1>2 DEF PInv, TypeOK
  <2> QED
    BY <1>7, <2>1 DEF Behind
<1> QED
  BY <1>2, <1>6, <1>8 DEF PInv, WalkSeesAll

LEMMA PStep ==
  ASSUME PInv, [Next]_vars
  PROVE  PInv'
<1>1. CASE Count
  <2>1. total' \in 0..Cardinality(Rows)
    BY <1>1, FewListed DEF Count, PInv
  <2>2. TypeOK'
    BY <1>1, <2>1 DEF Count, PInv, TypeOK
  <2> QED
    BY <1>1, <2>2 DEF Count, PInv, Behind, WalkSeesAll
<1>2. CASE GiveUp
  BY <1>2 DEF GiveUp, PInv, TypeOK, WalkSeesAll
<1>3. CASE UNCHANGED vars
  BY <1>3 DEF vars, PInv, TypeOK, Behind, WalkSeesAll
<1> QED
  BY <1>1, <1>2, <1>3, BeginStep, SelectStep, EnterStep, TouchStep, LeaveStep DEF Next

LEMMA PInit ==
  ASSUME Init
  PROVE  PInv
<1>1. IsFiniteSet(Rows) /\ Cardinality(Rows) \in Nat
  BY ListingAssumption, FS_CardinalityType
<1>2. listed \in Seq(Rows) /\ IsInjective(listed)
  <2>1. CASE listed \in SetToSeqs(Rows)
    <3>1. /\ listed \in [1..Cardinality(Rows) -> Rows]
          /\ \A i, j \in 1..Cardinality(Rows) : i # j => listed[i] # listed[j]
      BY <2>1 DEF SetToSeqs
    <3>2. listed \in Seq(Rows)
      BY <1>1, <3>1, IsASeq
    <3> QED
      BY <3>1, <3>2 DEF IsInjective
  <2>2. CASE listed = <<>>
    BY <2>2 DEF IsInjective
  <2>3. ASSUME NEW r \in Rows, listed = <<r>> PROVE listed \in Seq(Rows) /\ IsInjective(listed)
    BY <2>3 DEF IsInjective
  <2> QED
    BY <2>1, <2>2, <2>3 DEF Init
<1>3. TypeOK
  BY <1>1, <1>2, ListingAssumption DEF Init, TypeOK, Readers
<1> QED
  BY <1>3 DEF Init, PInv, WalkSeesAll

LEMMA Walking == Spec => []PInv
BY PInit, PStep, PTL DEF Spec

-----------------------------------------------------------------------------
\* Every variable of the lists and their readers keeps its type.
THEOREM TypeCorrect == Spec => []TypeOK
<1>1. PInv => TypeOK
  BY DEF PInv
<1> QED
  BY Walking, <1>1, PTL

\* Paging by offsets through a list ordered by the last write, the latest first:
\* a reader who stops at a page that is not full has seen every row that stayed
\* as it was, for any number of rows and writes and any page size, while no row
\* leaves the list.
THEOREM SeesAll == Spec => []WalkSeesAll
<1>1. PInv => WalkSeesAll
  BY DEF PInv
<1> QED
  BY Walking, <1>1, PTL
=============================================================================
