------------------------- MODULE RateLimiterProofs --------------------------
(***************************************************************************)
(* The quota of a counter, for every number of processes, keys, requests,  *)
(* minutes, restarts and resends; and that the limiter is a set of quotas. *)
(*                                                                         *)
(* The argument: the requests counted by one counter got different         *)
(* numbers, since a counter forgets its count only when no request can be  *)
(* counted on it any more.  The admitted ones got numbers up to Limit.     *)
(* Conversely a number is never above what was counted: what stands behind *)
(* a counter only grows, and a counter that forgets only falls.            *)
(***************************************************************************)
EXTENDS RateLimiter, FiniteSetTheorems, TLAPS

-----------------------------------------------------------------------------
(* The inductive invariant.                                                *)

\* A request in the limiter has arrived, and before this minute was over.
Arrived ==
  /\ \A r \in Requests : InFlight(r) => at[r] \in Arrival
  /\ \A r \in Requests : at[r] \in Arrival => at[r].window <= minute
  /\ \A r \in Requests : pc[r] = "redis" => sent[r] <= Resends
  /\ \A r \in Requests : pc[r] = "new" => sent[r] = 0

\* A Redis counter outlives the minute after its own.
LivesOn ==
  \A k \in Keys, w \in Minutes : shared[k][w].count > 0 => w + 2 <= shared[k][w].until

\* A Redis counter has not fallen behind the numbers it gave, unless it is too
\* late to be counted on it.
SharedAhead ==
  \A r \in Requests :
    LET c == ticket[r].counter IN
    HasTicket(r) /\ c.home = Redis =>
      \/ c.window + 2 <= minute
      \/ ticket[r].number <= shared[c.key][c.window].count

\* Neither has a bucket, unless it is too late or the process has started anew.
LocalAhead ==
  \A r \in Requests :
    LET c == ticket[r].counter IN
    HasTicket(r) /\ c.home # Redis =>
      /\ c.life <= life[c.home]
      /\ \/ c.life < life[c.home]
         \/ c.window < minute
         \/ /\ c.window = minute
            /\ local[c.home][c.key].window = minute
            /\ ticket[r].number <= local[c.home][c.key].count

\* No counter gave the same number twice.
NumbersDiffer ==
  \A q, r \in Requests :
    HasTicket(q) /\ HasTicket(r) /\ ticket[q].counter = ticket[r].counter
      /\ ticket[q].number = ticket[r].number => q = r

\* An admitted request was counted, within the limit.
AdmittedWithin ==
  \A r \in Requests : pc[r] = "admitted" => HasTicket(r) /\ ticket[r].number <= Limit

LInv ==
  /\ TypeOK /\ Arrived /\ LivesOn
  /\ SharedAhead /\ LocalAhead /\ NumbersDiffer /\ AdmittedWithin

-----------------------------------------------------------------------------
(* What the operators of a step return.                                    *)

USE RateLimiterAssumption

\* The initial state satisfies the invariant.
LEMMA InvInit == Init => LInv
<1> SUFFICES ASSUME Init PROVE LInv
  OBVIOUS
<1>1. TypeOK
  BY DEF Init, TypeOK, Minutes, NoBucket, Nowhere, NoTicket
<1>2. Arrived
  BY DEF Init, Arrived, InFlight, Arrival, Nowhere
<1>3. LivesOn
  BY DEF Init, LivesOn
<1>4. \A r \in Requests : ~HasTicket(r)
  BY DEF Init, HasTicket, NoTicket
<1>5. SharedAhead /\ LocalAhead /\ NumbersDiffer
  BY <1>4 DEF SharedAhead, LocalAhead, NumbersDiffer
<1>6. AdmittedWithin
  BY DEF Init, AdmittedWithin
<1> QED
  BY <1>1, <1>2, <1>3, <1>5, <1>6 DEF LInv

\* A ticket of the type is one with a number, or none.
LEMMA TicketShape ==
  ASSUME TypeOK, NEW r \in Requests
  PROVE  /\ HasTicket(r) => ticket[r] \in Ticket
         /\ HasTicket(r) => ticket[r].counter \in Counters /\ ticket[r].number \in Nat \ {0}
         /\ ~HasTicket(r) => ticket[r] = NoTicket
BY DEF TypeOK, HasTicket, Ticket, NoTicket

\* A place of the type is one where a request arrived, or none.
LEMMA PlaceShape ==
  ASSUME TypeOK, Arrived, NEW r \in Requests, InFlight(r)
  PROVE  /\ at[r].server \in Servers /\ at[r].key \in Keys
         /\ at[r].window \in Minutes /\ at[r].window <= minute
BY DEF TypeOK, Arrived, Arrival

\* A counted request has the count as its number, and is past the limiter; the
\* others have not moved.
LEMMA CountedShape ==
  ASSUME TypeOK, NEW r \in Requests, NEW c \in Counters, NEW n \in Nat \ {0}, Counted(r, c, n)
  PROVE  /\ ticket' \in [Requests -> Ticket \cup {NoTicket}]
         /\ ticket'[r] = [counter |-> c, number |-> n] /\ HasTicket(r)'
         /\ pc' \in [Requests -> {"new", "redis", "fallback", "admitted", "refused", "lost"}]
         /\ pc'[r] \in {"admitted", "refused"}
         /\ pc'[r] = "admitted" => n <= Limit
         /\ \A q \in Requests \ {r} : ticket'[q] = ticket[q] /\ pc'[q] = pc[q]
         /\ \A q \in Requests \ {r} : HasTicket(q)' <=> HasTicket(q)
<1>1. [counter |-> c, number |-> n] \in Ticket
  BY DEF Ticket
<1>2. /\ ticket' = [ticket EXCEPT ![r] = [counter |-> c, number |-> n]]
      /\ pc' = [pc EXCEPT ![r] = IF OverLimit(n) THEN "refused" ELSE "admitted"]
  BY DEF Counted, Goto
<1>3. ticket' \in [Requests -> Ticket \cup {NoTicket}]
  BY <1>1, <1>2 DEF TypeOK
<1>4. ticket'[r] = [counter |-> c, number |-> n] /\ HasTicket(r)'
  BY <1>2 DEF TypeOK, HasTicket
<1>5. \A q \in Requests \ {r} : ticket'[q] = ticket[q] /\ pc'[q] = pc[q]
  BY <1>2 DEF TypeOK
<1>6. pc' \in [Requests -> {"new", "redis", "fallback", "admitted", "refused", "lost"}]
  BY <1>2 DEF TypeOK
<1>7. pc'[r] = IF OverLimit(n) THEN "refused" ELSE "admitted"
  BY <1>2 DEF TypeOK
<1>8. pc'[r] = "admitted" => n <= Limit
  BY <1>7 DEF OverLimit
<1> QED
  BY <1>3, <1>4, <1>5, <1>6, <1>7, <1>8 DEF HasTicket

\* Counting on a number above those the counter gave keeps the numbers apart.
LEMMA FreshNumber ==
  ASSUME LInv, NEW r \in Requests, NEW c \in Counters, NEW n \in Nat \ {0}, Counted(r, c, n),
         \A q \in Requests : HasTicket(q) /\ ticket[q].counter = c => ticket[q].number < n
  PROVE  NumbersDiffer' /\ AdmittedWithin'
<1> TypeOK /\ NumbersDiffer /\ AdmittedWithin
  BY DEF LInv
<1> /\ ticket'[r] = [counter |-> c, number |-> n]
    /\ HasTicket(r)' /\ (pc'[r] = "admitted" => n <= Limit)
    /\ \A q \in Requests \ {r} : ticket'[q] = ticket[q] /\ pc'[q] = pc[q]
    /\ \A q \in Requests \ {r} : HasTicket(q)' <=> HasTicket(q)
  BY CountedShape
<1>1. NumbersDiffer'
  <2> SUFFICES ASSUME NEW p \in Requests, NEW q \in Requests, HasTicket(p)', HasTicket(q)',
                      ticket'[p].counter = ticket'[q].counter,
                      ticket'[p].number = ticket'[q].number
               PROVE  p = q
    BY DEF NumbersDiffer
  <2>1. CASE p # r /\ q # r
    BY <2>1 DEF NumbersDiffer
  <2>2. CASE p = r /\ q # r
    <3>1. ticket[q].counter = c /\ ticket[q].number = n /\ HasTicket(q)
      BY <2>2
    <3> QED  BY <3>1
  <2>3. CASE q = r /\ p # r
    <3>1. ticket[p].counter = c /\ ticket[p].number = n /\ HasTicket(p)
      BY <2>3
    <3> QED  BY <3>1
  <2> QED
    BY <2>1, <2>2, <2>3
<1>2. AdmittedWithin'
  <2> SUFFICES ASSUME NEW q \in Requests, pc'[q] = "admitted"
               PROVE  HasTicket(q)' /\ ticket'[q].number <= Limit
    BY DEF AdmittedWithin
  <2>1. CASE q = r
    <3>1. ticket'[r].number = n /\ n <= Limit /\ HasTicket(r)'
      BY <2>1
    <3> QED  BY <2>1, <3>1
  <2>2. CASE q # r
    BY <2>2 DEF AdmittedWithin
  <2> QED
    BY <2>1, <2>2
<1> QED
  BY <1>1, <1>2

\* A step that counts no request leaves the numbers as they are.
LEMMA Uncounted ==
  ASSUME LInv, UNCHANGED ticket, \A q \in Requests : pc'[q] = "admitted" => pc[q] = "admitted"
  PROVE  NumbersDiffer' /\ AdmittedWithin'
BY DEF LInv, NumbersDiffer, AdmittedWithin, HasTicket

\* INCR and EXPIRE raise the one counter, which then lives past the next minute.
LEMMA IncrementShape ==
  ASSUME LInv, NEW r \in Requests, InFlight(r), Increment(r)
  PROVE  /\ shared' \in [Keys -> [Minutes -> [count : Nat, until : Nat]]]
         /\ \A k \in Keys, w \in Minutes : shared[k][w].count <= shared'[k][w].count
         /\ shared'[at[r].key][at[r].window].count = shared[at[r].key][at[r].window].count + 1
         /\ LivesOn'
<1> DEFINE k0 == at[r].key
           w0 == at[r].window
           new == [count |-> shared[k0][w0].count + 1, until |-> minute + 2]
<1>1. k0 \in Keys /\ w0 \in Minutes /\ w0 <= minute
  BY PlaceShape DEF LInv
<1>2. shared \in [Keys -> [Minutes -> [count : Nat, until : Nat]]] /\ minute \in Nat
  BY DEF LInv, TypeOK, Minutes
<1>3. shared' = [shared EXCEPT ![k0][w0] = new]
  BY DEF Increment, Expiry
<1> HIDE DEF k0, w0
<1>4. new \in [count : Nat, until : Nat]
  BY <1>1, <1>2
<1>5. \A k \in Keys, w \in Minutes :
        shared'[k][w] = IF k = k0 /\ w = w0 THEN new ELSE shared[k][w]
  BY <1>1, <1>2, <1>3
<1>6. shared' \in [Keys -> [Minutes -> [count : Nat, until : Nat]]]
  BY <1>1, <1>2, <1>3, <1>4
<1>7. \A k \in Keys, w \in Minutes : shared[k][w].count \in Nat
  BY <1>2
<1>8. ASSUME NEW k \in Keys, NEW w \in Minutes
      PROVE  shared[k][w].count <= shared'[k][w].count
  BY <1>5, <1>7
<1>9. shared'[k0][w0].count = shared[k0][w0].count + 1
  BY <1>1, <1>5
<1>10. ASSUME NEW k \in Keys, NEW w \in Minutes, shared'[k][w].count > 0
       PROVE  w + 2 <= shared'[k][w].until
  <2>1. CASE k = k0 /\ w = w0
    BY <1>1, <1>2, <1>5, <2>1 DEF Minutes
  <2>2. CASE ~(k = k0 /\ w = w0)
    BY <1>5, <1>10, <2>2 DEF LInv, LivesOn
  <2> QED
    BY <2>1, <2>2
<1>11. LivesOn'
  BY <1>10 DEF LivesOn
<1> QED
  BY <1>6, <1>8, <1>9, <1>11 DEF k0, w0

-----------------------------------------------------------------------------
(* One lemma per action.                                                   *)

\* A request comes in: it is counted nowhere yet.
LEMMA ArriveStep ==
  ASSUME LInv, NEW r \in Requests, Arrive(r)
  PROVE  LInv'
<1> USE DEF LInv
<1>1. PICK s \in Servers, k \in Keys : at' = [at EXCEPT ![r] = [server |-> s, key |-> k, window |-> minute]]
  BY DEF Arrive
<1>2. /\ pc' = [pc EXCEPT ![r] = IF RedisEnabled THEN "redis" ELSE "fallback"]
      /\ pc[r] = "new" /\ UNCHANGED <<minute, shared, local, life, sent, ticket>>
  BY DEF Arrive, Goto
<1>3. [server |-> s, key |-> k, window |-> minute] \in Arrival
  BY DEF TypeOK, Arrival
<1>4. TypeOK'
  BY <1>1, <1>2, <1>3 DEF TypeOK
<1>5. Arrived'
  <2>1. \A q \in Requests : InFlight(q)' => at'[q] \in Arrival
    BY <1>1, <1>2, <1>3 DEF TypeOK, Arrived, InFlight
  <2>2. \A q \in Requests : at'[q] \in Arrival => at'[q].window <= minute'
    BY <1>1, <1>2, <1>3 DEF TypeOK, Arrived, Minutes
  <2>3. \A q \in Requests : pc'[q] = "redis" => sent'[q] <= Resends
    BY <1>2 DEF TypeOK, Arrived
  <2>4. \A q \in Requests : pc'[q] = "new" => sent'[q] = 0
    BY <1>2 DEF TypeOK, Arrived
  <2> QED
    BY <2>1, <2>2, <2>3, <2>4 DEF Arrived
<1>6. LivesOn' /\ SharedAhead' /\ LocalAhead'
  BY <1>2 DEF LivesOn, SharedAhead, LocalAhead, HasTicket
<1>7. NumbersDiffer' /\ AdmittedWithin'
  BY <1>2, Uncounted DEF TypeOK
<1> QED
  BY <1>4, <1>5, <1>6, <1>7

\* A transaction without an answer leaves its request in the limiter.
LEMMA UnansweredShape ==
  ASSUME LInv, NEW r \in Requests, Send(r), Unanswered(r), UNCHANGED <<minute, at>>
  PROVE  /\ pc' \in [Requests -> {"new", "redis", "fallback", "admitted", "refused", "lost"}]
         /\ sent' \in [Requests -> 0..(Resends + 1)]
         /\ \A q \in Requests : pc'[q] = "admitted" => pc[q] = "admitted"
         /\ Arrived'
<1> USE DEF LInv
<1>1. pc[r] = "redis" /\ sent' = [sent EXCEPT ![r] = @ + 1]
  BY DEF Send
<1>2. sent[r] \in Nat /\ sent[r] <= Resends /\ sent \in [Requests -> 0..(Resends + 1)]
  BY <1>1 DEF TypeOK, Arrived
<1>3. sent' \in [Requests -> 0..(Resends + 1)]
  BY <1>1, <1>2
<1>4. /\ \A q \in Requests \ {r} : pc'[q] = pc[q] /\ sent'[q] = sent[q]
      /\ sent'[r] = sent[r] + 1
      /\ pc' \in [Requests -> {"new", "redis", "fallback", "admitted", "refused", "lost"}]
      /\ pc'[r] = IF sent[r] < Resends THEN "redis" ELSE "fallback"
  BY <1>1, <1>2 DEF Unanswered, Goto, TypeOK
<1>5. \A q \in Requests : InFlight(q)' => at'[q] \in Arrival
  BY <1>1, <1>4 DEF Arrived, InFlight
<1>6. \A q \in Requests : at'[q] \in Arrival => at'[q].window <= minute'
  BY DEF Arrived
<1>7. \A q \in Requests : pc'[q] = "redis" => sent'[q] <= Resends
  BY <1>2, <1>4 DEF Arrived
<1>8. \A q \in Requests : pc'[q] = "new" => sent'[q] = 0
  BY <1>2, <1>4 DEF Arrived
<1> QED
  BY <1>3, <1>4, <1>5, <1>6, <1>7, <1>8 DEF Arrived

\* A transaction that does not reach Redis changes no counter.
LEMMA RedisUnreachableStep ==
  ASSUME LInv, NEW r \in Requests, RedisUnreachable(r)
  PROVE  LInv'
<1> /\ Send(r) /\ Unanswered(r)
    /\ UNCHANGED <<minute, shared, local, life, at, ticket>>
  BY DEF RedisUnreachable
<1>1. TypeOK'
  BY UnansweredShape DEF LInv, TypeOK
<1>2. Arrived'
  BY UnansweredShape
<1>3. LivesOn' /\ SharedAhead' /\ LocalAhead'
  BY DEF LInv, LivesOn, SharedAhead, LocalAhead, HasTicket
<1>4. NumbersDiffer' /\ AdmittedWithin'
  BY Uncounted, UnansweredShape
<1> QED
  BY <1>1, <1>2, <1>3, <1>4 DEF LInv

\* A counter that only rises stays ahead of the numbers it gave.
LEMMA RisingStaysAhead ==
  ASSUME LInv, NEW q \in Requests, HasTicket(q), ticket[q].counter.home = Redis,
         shared' \in [Keys -> [Minutes -> [count : Nat, until : Nat]]],
         \A k \in Keys, w \in Minutes : shared[k][w].count <= shared'[k][w].count
  PROVE  \/ ticket[q].counter.window + 2 <= minute
         \/ ticket[q].number <= shared'[ticket[q].counter.key][ticket[q].counter.window].count
<1> DEFINE c == ticket[q].counter
<1>1. c \in Counters /\ ticket[q].number \in Nat
  BY TicketShape DEF LInv
<1>2. c.key \in Keys /\ c.window \in Minutes
  BY <1>1 DEF Counters
<1>3. \/ c.window + 2 <= minute
      \/ ticket[q].number <= shared[c.key][c.window].count
  BY DEF LInv, SharedAhead
<1>4. shared[c.key][c.window].count \in Nat /\ shared'[c.key][c.window].count \in Nat
  BY <1>2 DEF LInv, TypeOK
<1>5. shared[c.key][c.window].count <= shared'[c.key][c.window].count
  BY <1>2
<1> QED
  BY <1>1, <1>3, <1>4, <1>5

\* A transaction whose answer is lost raises a counter and gives no number.
LEMMA AnswerLostStep ==
  ASSUME LInv, NEW r \in Requests, AnswerLost(r)
  PROVE  LInv'
<1> /\ Send(r) /\ Unanswered(r) /\ Increment(r)
    /\ UNCHANGED <<minute, local, life, at, ticket>>
  BY DEF AnswerLost
<1> InFlight(r)
  BY DEF Send, InFlight
<1>1. TypeOK'
  BY UnansweredShape, IncrementShape DEF LInv, TypeOK
<1>2. Arrived'
  BY UnansweredShape
<1>3. LivesOn'
  BY IncrementShape
<1>4. SharedAhead'
  <2>1. /\ shared' \in [Keys -> [Minutes -> [count : Nat, until : Nat]]]
        /\ \A k \in Keys, w \in Minutes : shared[k][w].count <= shared'[k][w].count
    BY IncrementShape
  <2> QED
    BY <2>1, RisingStaysAhead DEF SharedAhead, HasTicket
<1>5. LocalAhead'
  BY DEF LInv, LocalAhead, HasTicket
<1>6. NumbersDiffer' /\ AdmittedWithin'
  BY Uncounted, UnansweredShape
<1> QED
  BY <1>1, <1>2, <1>3, <1>4, <1>5, <1>6 DEF LInv

\* Redis counts a request: the number is above those the counter gave.
LEMMA RedisAnswersStep ==
  ASSUME LInv, NEW r \in Requests, RedisAnswers(r)
  PROVE  LInv'
<1> DEFINE c == SharedCounter(r)
           n == shared[at[r].key][at[r].window].count + 1
<1>0. /\ Send(r) /\ Increment(r) /\ Counted(r, c, n)
      /\ minute <= at[r].window + 1 /\ UNCHANGED <<minute, local, life, at>>
  BY DEF RedisAnswers
<1>1. pc[r] = "redis" /\ InFlight(r) /\ sent' = [sent EXCEPT ![r] = @ + 1]
  BY <1>0 DEF Send, InFlight
<1>2. at[r].key \in Keys /\ at[r].window \in Minutes /\ at[r].window <= minute
  BY <1>1, PlaceShape DEF LInv
<1>3. c \in Counters
  BY <1>2 DEF SharedCounter, Counters
<1>4. n \in Nat \ {0}
  <2>1. shared[at[r].key][at[r].window].count \in Nat
    BY <1>2 DEF LInv, TypeOK
  <2> QED
    BY <2>1
<1>5. /\ c.home = Redis /\ c.key = at[r].key /\ c.window = at[r].window
      /\ shared' \in [Keys -> [Minutes -> [count : Nat, until : Nat]]]
      /\ \A k \in Keys, w \in Minutes : shared[k][w].count <= shared'[k][w].count
      /\ shared'[c.key][c.window].count = n /\ LivesOn'
  BY <1>0, <1>1, IncrementShape DEF SharedCounter
<1>6. /\ ticket' \in [Requests -> Ticket \cup {NoTicket}]
      /\ ticket'[r] = [counter |-> c, number |-> n] /\ HasTicket(r)'
      /\ pc' \in [Requests -> {"new", "redis", "fallback", "admitted", "refused", "lost"}]
      /\ pc'[r] \in {"admitted", "refused"}
      /\ \A q \in Requests \ {r} : ticket'[q] = ticket[q] /\ pc'[q] = pc[q]
      /\ \A q \in Requests \ {r} : HasTicket(q)' <=> HasTicket(q)
  <2> HIDE DEF c, n
  <2> QED
    BY <1>0, <1>3, <1>4, CountedShape DEF LInv
<1>7. ASSUME NEW q \in Requests, HasTicket(q), ticket[q].counter = c
      PROVE  ticket[q].number < n
  <2>1. minute < c.window + 2
    <3>1. minute \in Nat /\ at[r].window \in Nat
      BY <1>2 DEF Minutes, LInv, TypeOK
    <3>2. c.window = at[r].window
      BY <1>5
    <3> HIDE DEF c
    <3> QED
      BY <1>0, <3>1, <3>2
  <2>2. ticket[q].number <= shared[c.key][c.window].count
    <3>1. \/ c.window + 2 <= minute
          \/ ticket[q].number <= shared[c.key][c.window].count
      BY <1>5, <1>7 DEF LInv, SharedAhead
    <3>2. c.window \in Nat /\ minute \in Nat
      BY <1>2, <1>5 DEF Minutes, LInv, TypeOK
    <3> QED
      BY <2>1, <3>1, <3>2
  <2>3. ticket[q].number \in Nat /\ shared[c.key][c.window].count \in Nat
    BY <1>2, <1>5, <1>7, TicketShape DEF LInv, TypeOK
  <2> QED
    BY <2>2, <2>3, <1>5
<1> HIDE DEF c, n
<1>8. NumbersDiffer' /\ AdmittedWithin'
  BY <1>0, <1>3, <1>4, <1>7, FreshNumber
<1>9. sent' \in [Requests -> 0..(Resends + 1)] /\ \A q \in Requests \ {r} : sent'[q] = sent[q]
  <2>1. sent[r] <= Resends /\ sent \in [Requests -> 0..(Resends + 1)]
    BY <1>1 DEF LInv, Arrived, TypeOK
  <2> QED
    BY <1>1, <2>1
<1>10. TypeOK'
  BY <1>0, <1>5, <1>6, <1>9 DEF LInv, TypeOK
<1>11. Arrived'
  <2>1. \A q \in Requests : InFlight(q)' => at'[q] \in Arrival
    BY <1>0, <1>6 DEF LInv, Arrived, InFlight
  <2>2. \A q \in Requests : at'[q] \in Arrival => at'[q].window <= minute'
    BY <1>0 DEF LInv, Arrived
  <2>3. \A q \in Requests : /\ pc'[q] = "redis" => sent'[q] <= Resends
                            /\ pc'[q] = "new" => sent'[q] = 0
    BY <1>6, <1>9 DEF LInv, Arrived
  <2> QED
    BY <2>1, <2>2, <2>3 DEF Arrived
<1>12. SharedAhead'
  <2> SUFFICES ASSUME NEW q \in Requests, HasTicket(q)', ticket'[q].counter.home = Redis
               PROVE  \/ ticket'[q].counter.window + 2 <= minute'
                      \/ ticket'[q].number <= shared'[ticket'[q].counter.key][ticket'[q].counter.window].count
    BY DEF SharedAhead
  <2>1. CASE q = r
    BY <1>4, <1>5, <1>6, <2>1
  <2>2. CASE q # r
    <3>1. HasTicket(q) /\ ticket'[q] = ticket[q]
      BY <1>6, <2>2
    <3>2. \/ ticket[q].counter.window + 2 <= minute
          \/ ticket[q].number <= shared'[ticket[q].counter.key][ticket[q].counter.window].count
      BY <3>1, <1>5, RisingStaysAhead
    <3> QED
      BY <3>1, <3>2, <1>0
  <2> QED
    BY <2>1, <2>2
<1>13. LocalAhead'
  <2>1. \A q \in Requests : HasTicket(q)' /\ ticket'[q].counter.home # Redis =>
          q # r /\ HasTicket(q) /\ ticket'[q] = ticket[q]
    BY <1>5, <1>6
  <2> QED
    BY <2>1, <1>0 DEF LInv, LocalAhead
<1> QED
  BY <1>5, <1>8, <1>10, <1>11, <1>12, <1>13 DEF LInv

\* A new minute: the buckets of the old ones are counted on no more.
LEMMA TickStep ==
  ASSUME LInv, Tick
  PROVE  LInv'
<1> USE DEF LInv
<1>1. /\ minute \in Nat /\ minute' = minute + 1 /\ minute' \in Minutes
      /\ UNCHANGED <<shared, local, life, pc, at, sent, ticket>>
  BY DEF Tick, TypeOK, Minutes
<1>2. TypeOK'
  BY <1>1 DEF TypeOK
<1>3. Arrived' /\ LivesOn'
  BY <1>1 DEF Arrived, LivesOn, InFlight, Arrival, Minutes
<1>4. \A q \in Requests : HasTicket(q) => ticket[q].counter.window \in Nat
  BY TicketShape DEF Counters, Minutes
<1>5. SharedAhead'
  BY <1>1, <1>4 DEF SharedAhead, HasTicket
<1>6. LocalAhead'
  <2> SUFFICES ASSUME NEW q \in Requests, HasTicket(q), ticket[q].counter.home # Redis
               PROVE  /\ ticket[q].counter.life <= life[ticket[q].counter.home]
                      /\ \/ ticket[q].counter.life < life[ticket[q].counter.home]
                         \/ ticket[q].counter.window < minute'
    BY <1>1 DEF LocalAhead, HasTicket
  <2> QED
    BY <1>1, <1>4 DEF LocalAhead
<1>7. NumbersDiffer' /\ AdmittedWithin'
  BY <1>1, Uncounted
<1> QED
  BY <1>2, <1>3, <1>5, <1>6, <1>7

\* A counter expires when no request can be counted on it any more.
LEMMA ExpireStep ==
  ASSUME LInv, NEW k \in Keys, NEW w \in Minutes, Expire(k, w)
  PROVE  LInv'
<1> USE DEF LInv
<1>1. /\ shared[k][w].count > 0 /\ shared[k][w].until <= minute
      /\ shared' = [shared EXCEPT ![k][w].count = 0]
      /\ UNCHANGED <<minute, local, life, pc, at, sent, ticket>>
  BY DEF Expire
<1>2. shared \in [Keys -> [Minutes -> [count : Nat, until : Nat]]] /\ minute \in Nat /\ w \in Nat
  BY DEF TypeOK, Minutes
<1>3. shared' \in [Keys -> [Minutes -> [count : Nat, until : Nat]]]
  BY <1>1, <1>2
<1>4. \A j \in Keys, v \in Minutes :
        IF j = k /\ v = w THEN shared'[j][v].count = 0 ELSE shared'[j][v] = shared[j][v]
  BY <1>1, <1>2
<1>5. w + 2 <= minute
  <2>1. w + 2 <= shared[k][w].until
    BY <1>1 DEF LivesOn
  <2>2. shared[k][w].until \in Nat
    BY <1>2
  <2> QED
    BY <1>1, <1>2, <2>1, <2>2
<1>6. TypeOK'
  BY <1>1, <1>3 DEF TypeOK
<1>7. Arrived' /\ LocalAhead'
  BY <1>1 DEF Arrived, LocalAhead, InFlight, HasTicket
<1>8. LivesOn'
  BY <1>4 DEF LivesOn
<1>9. SharedAhead'
  <2> SUFFICES ASSUME NEW q \in Requests, HasTicket(q), ticket[q].counter.home = Redis
               PROVE  \/ ticket[q].counter.window + 2 <= minute
                      \/ ticket[q].number <= shared'[ticket[q].counter.key][ticket[q].counter.window].count
    BY <1>1 DEF SharedAhead, HasTicket
  <2> DEFINE c == ticket[q].counter
  <2>1. c.key \in Keys /\ c.window \in Minutes
    BY TicketShape DEF Counters
  <2>2. CASE c.key = k /\ c.window = w
    BY <1>5, <2>2
  <2>3. CASE ~(c.key = k /\ c.window = w)
    <3>1. shared'[c.key][c.window] = shared[c.key][c.window]
      BY <1>4, <2>1, <2>3
    <3> QED
      BY <3>1 DEF SharedAhead
  <2> QED
    BY <2>2, <2>3
<1>10. NumbersDiffer' /\ AdmittedWithin'
  BY <1>1, Uncounted
<1> QED
  BY <1>6, <1>7, <1>8, <1>9, <1>10

\* A restarted process gives its buckets new names: no old ticket is on them.
LEMMA RestartStep ==
  ASSUME LInv, NEW s \in Servers, Restart(s)
  PROVE  LInv'
<1> USE DEF LInv
<1>1. /\ life[s] < MaxRestarts
      /\ life' = [life EXCEPT ![s] = @ + 1]
      /\ local' = [local EXCEPT ![s] = [k \in Keys |-> NoBucket]]
      /\ pc' = [r \in Requests |-> IF InFlight(r) /\ at[r].server = s THEN "lost" ELSE pc[r]]
      /\ UNCHANGED <<minute, shared, at, sent, ticket>>
  BY DEF Restart
<1>2. life \in [Servers -> 0..MaxRestarts] /\ life' \in [Servers -> 0..MaxRestarts]
  BY <1>1 DEF TypeOK
<1>3. local' \in [Servers -> [Keys -> [window : Minutes, count : Nat]]]
  BY <1>1 DEF TypeOK, NoBucket, Minutes
<1>4. \A r \in Requests : pc'[r] = "lost" \/ pc'[r] = pc[r]
  BY <1>1
<1>5. pc' \in [Requests -> {"new", "redis", "fallback", "admitted", "refused", "lost"}]
  BY <1>1 DEF TypeOK
<1>6. TypeOK'
  BY <1>1, <1>2, <1>3, <1>5 DEF TypeOK
<1>7. Arrived'
  BY <1>1, <1>4 DEF Arrived, InFlight
<1>8. LivesOn' /\ SharedAhead'
  BY <1>1 DEF LivesOn, SharedAhead, HasTicket
<1>9. LocalAhead'
  <2> SUFFICES ASSUME NEW q \in Requests, HasTicket(q), ticket[q].counter.home # Redis
               PROVE  LET c == ticket[q].counter IN
                      /\ c.life <= life'[c.home]
                      /\ \/ c.life < life'[c.home]
                         \/ c.window < minute
                         \/ /\ c.window = minute
                            /\ local'[c.home][c.key].window = minute
                            /\ ticket[q].number <= local'[c.home][c.key].count
    BY <1>1 DEF LocalAhead, HasTicket
  <2> DEFINE c == ticket[q].counter
  <2>1. c.home \in Servers /\ c.life \in Nat
    BY TicketShape DEF Counters
  <2>2. /\ c.life <= life[c.home]
        /\ \/ c.life < life[c.home]
           \/ c.window < minute
           \/ /\ c.window = minute
              /\ local[c.home][c.key].window = minute
              /\ ticket[q].number <= local[c.home][c.key].count
    BY DEF LocalAhead
  <2>3. CASE c.home = s
    <3>1. life[s] \in Nat /\ life'[s] = life[s] + 1
      BY <1>1, <1>2
    <3>2. c.life < life'[c.home]
      BY <2>1, <2>2, <2>3, <3>1
    <3>3. life'[c.home] \in Nat
      BY <2>1, <1>2
    <3> HIDE DEF c
    <3> QED
      BY <2>1, <3>2, <3>3 DEF c
  <2>4. CASE c.home # s
    <3>1. life'[c.home] = life[c.home] /\ local'[c.home] = local[c.home]
      BY <1>1, <2>1, <2>4 DEF TypeOK
    <3> QED
      BY <2>2, <3>1
  <2> QED
    BY <2>3, <2>4
<1>10. NumbersDiffer' /\ AdmittedWithin'
  BY <1>1, <1>4, Uncounted
<1> QED
  BY <1>6, <1>7, <1>8, <1>9, <1>10

\* Cleaning spares the buckets of the present minute, and counting goes on from
\* what such a bucket holds.
LEMMA BucketsShape ==
  ASSUME TypeOK, NEW s \in Servers, NEW k \in Keys
  PROVE  LET buckets == Cleaned(local[s], minute)
             number  == NextCount(buckets[k], minute)
         IN  /\ buckets \in [Keys -> [window : Minutes, count : Nat]]
             /\ number \in Nat \ {0}
             /\ \A j \in Keys : local[s][j].window = minute => buckets[j] = local[s][j]
             /\ local[s][k].window = minute => number = local[s][k].count + 1
<1> DEFINE buckets == Cleaned(local[s], minute)
           number  == NextCount(buckets[k], minute)
<1>1. local[s] \in [Keys -> [window : Minutes, count : Nat]] /\ minute \in Nat
  BY DEF TypeOK, Minutes
<1>2. NoBucket \in [window : Minutes, count : Nat]
  BY DEF NoBucket, Minutes
<1>3. \A j \in Keys : buckets[j] = local[s][j]
                       \/ (buckets[j] = NoBucket /\ local[s][j].window < minute)
  BY DEF Cleaned
<1>4. buckets \in [Keys -> [window : Minutes, count : Nat]]
  <2>1. \A j \in Keys : buckets[j] \in [window : Minutes, count : Nat]
    BY <1>1, <1>2, <1>3
  <2>2. buckets = [j \in Keys |-> buckets[j]]
    BY DEF Cleaned
  <2> HIDE DEF buckets
  <2> QED
    BY <2>1, <2>2
<1>5. \A j \in Keys : local[s][j].window = minute => buckets[j] = local[s][j]
  BY <1>1, <1>3
<1> HIDE DEF buckets
<1>6. number \in Nat \ {0}
  <2>1. buckets[k].count \in Nat
    BY <1>4
  <2> QED
    BY <2>1 DEF NextCount
<1>7. local[s][k].window = minute => number = local[s][k].count + 1
  BY <1>5 DEF NextCount
<1> QED
  BY <1>4, <1>5, <1>6, <1>7 DEF buckets

\* A request is counted in memory, above the numbers its bucket gave.
LEMMA IncrementLocalStep ==
  ASSUME LInv, NEW r \in Requests, IncrementLocal(r)
  PROVE  LInv'
<1> DEFINE s == at[r].server
           k == at[r].key
           c == LocalCounter(s, k, minute)
           buckets == Cleaned(local[s], minute)
           n == NextCount(buckets[k], minute)
           b == [window |-> minute, count |-> n]
<1>1. /\ pc[r] = "fallback" /\ Counted(r, c, n)
      /\ local' = [local EXCEPT ![s] = [buckets EXCEPT ![k] = b]]
      /\ UNCHANGED <<minute, shared, life, at, sent>>
  BY DEF IncrementLocal
<1>2. s \in Servers /\ k \in Keys
  BY <1>1, PlaceShape DEF LInv, InFlight
<1>3. /\ buckets \in [Keys -> [window : Minutes, count : Nat]]
      /\ n \in Nat \ {0}
      /\ \A j \in Keys : local[s][j].window = minute => buckets[j] = local[s][j]
      /\ local[s][k].window = minute => n = local[s][k].count + 1
  BY <1>2, BucketsShape DEF LInv
<1>4. /\ minute \in Minutes /\ minute \in Nat
      /\ life \in [Servers -> 0..MaxRestarts]
      /\ local \in [Servers -> [Keys -> [window : Minutes, count : Nat]]]
  BY DEF LInv, TypeOK, Minutes
<1>5. c = [home |-> s, life |-> life[s], key |-> k, window |-> minute]
  BY DEF LocalCounter
<1> HIDE DEF s, k, c, buckets, n
<1>6. c \in Counters
  BY <1>2, <1>4, <1>5 DEF Counters
<1>7. /\ local'[s][k] = b
      /\ \A j \in Keys \ {k} : local'[s][j] = buckets[j]
      /\ \A v \in Servers \ {s} : local'[v] = local[v]
      /\ local' \in [Servers -> [Keys -> [window : Minutes, count : Nat]]]
  <2>1. b \in [window : Minutes, count : Nat]
    BY <1>3, <1>4
  <2> HIDE DEF b
  <2>2. [buckets EXCEPT ![k] = b] \in [Keys -> [window : Minutes, count : Nat]]
    BY <1>2, <1>3, <2>1
  <2> QED
    BY <1>1, <1>2, <1>3, <1>4, <2>1, <2>2
<1>8. /\ ticket' \in [Requests -> Ticket \cup {NoTicket}]
      /\ ticket'[r] = [counter |-> c, number |-> n] /\ HasTicket(r)'
      /\ pc' \in [Requests -> {"new", "redis", "fallback", "admitted", "refused", "lost"}]
      /\ pc'[r] \in {"admitted", "refused"}
      /\ \A q \in Requests \ {r} : ticket'[q] = ticket[q] /\ pc'[q] = pc[q]
      /\ \A q \in Requests \ {r} : HasTicket(q)' <=> HasTicket(q)
  BY <1>1, <1>3, <1>6, CountedShape DEF LInv
<1>9. ASSUME NEW q \in Requests, HasTicket(q), ticket[q].counter = c
      PROVE  ticket[q].number < n
  <2>1. /\ c.home = s /\ c.life = life[s] /\ c.key = k /\ c.window = minute /\ c.home # Redis
        /\ life[s] \in Nat
    BY <1>2, <1>4, <1>5
  <2>2. local[s][k].window = minute /\ ticket[q].number <= local[s][k].count
    <3>1. /\ c.life <= life[c.home]
          /\ \/ c.life < life[c.home]
             \/ c.window < minute
             \/ /\ local[c.home][c.key].window = minute
                /\ ticket[q].number <= local[c.home][c.key].count
      BY <1>9, <2>1 DEF LInv, LocalAhead
    <3> QED
      BY <1>4, <2>1, <3>1
  <2>3. ticket[q].number \in Nat /\ local[s][k].count \in Nat
    BY <1>2, <1>4, <1>9, TicketShape DEF LInv
  <2> QED
    BY <1>3, <2>2, <2>3
<1>10. NumbersDiffer' /\ AdmittedWithin'
  BY <1>1, <1>3, <1>6, <1>9, FreshNumber
<1>11. TypeOK'
  BY <1>1, <1>7, <1>8 DEF LInv, TypeOK
<1>12. Arrived'
  <2>1. \A q \in Requests : InFlight(q)' => at'[q] \in Arrival
    BY <1>1, <1>8 DEF LInv, Arrived, InFlight
  <2>2. \A q \in Requests : at'[q] \in Arrival => at'[q].window <= minute'
    BY <1>1 DEF LInv, Arrived
  <2>3. \A q \in Requests : /\ pc'[q] = "redis" => sent'[q] <= Resends
                            /\ pc'[q] = "new" => sent'[q] = 0
    BY <1>1, <1>8 DEF LInv, Arrived
  <2> QED
    BY <2>1, <2>2, <2>3 DEF Arrived
<1>13. LivesOn'
  BY <1>1 DEF LInv, LivesOn
<1>14. SharedAhead'
  <2>1. c.home # Redis
    BY <1>2, <1>5
  <2>2. \A q \in Requests : HasTicket(q)' /\ ticket'[q].counter.home = Redis =>
          q # r /\ HasTicket(q) /\ ticket'[q] = ticket[q]
    BY <1>8, <2>1
  <2> QED
    BY <1>1, <2>2 DEF LInv, SharedAhead
<1>15. LocalAhead'
  <2> SUFFICES ASSUME NEW q \in Requests, HasTicket(q)', ticket'[q].counter.home # Redis
               PROVE  LET d == ticket'[q].counter IN
                      /\ d.life <= life[d.home]
                      /\ \/ d.life < life[d.home]
                         \/ d.window < minute
                         \/ /\ d.window = minute
                            /\ local'[d.home][d.key].window = minute
                            /\ ticket'[q].number <= local'[d.home][d.key].count
    BY <1>1 DEF LocalAhead
  <2>1. CASE q = r
    <3>1. ticket'[q].counter = c /\ ticket'[q].number = n
      BY <1>8, <2>1
    <3>2. c.home = s /\ c.life = life[s] /\ c.key = k /\ c.window = minute /\ life[s] \in Nat
      BY <1>2, <1>4, <1>5
    <3>3. local'[s][k].window = minute /\ local'[s][k].count = n
      BY <1>7
    <3> QED
      BY <1>3, <3>1, <3>2, <3>3
  <2>2. CASE q # r
    <3> DEFINE d == ticket[q].counter
    <3>1. HasTicket(q) /\ ticket'[q] = ticket[q]
      BY <1>8, <2>2
    <3>2. d.home \in Servers /\ d.key \in Keys /\ ticket[q].number \in Nat
      BY <3>1, TicketShape DEF LInv, Counters
    <3>3. /\ d.life <= life[d.home]
          /\ \/ d.life < life[d.home]
             \/ d.window < minute
             \/ /\ d.window = minute
                /\ local[d.home][d.key].window = minute
                /\ ticket[q].number <= local[d.home][d.key].count
      BY <3>1 DEF LInv, LocalAhead
    <3>4. ASSUME d.window = minute, local[d.home][d.key].window = minute,
                 ticket[q].number <= local[d.home][d.key].count
          PROVE  /\ local'[d.home][d.key].window = minute
                 /\ ticket[q].number <= local'[d.home][d.key].count
      <4>1. CASE d.home # s
        BY <1>7, <3>2, <3>4, <4>1
      <4>2. CASE d.home = s /\ d.key # k
        <5>1. local'[s][d.key] = buckets[d.key] /\ buckets[d.key] = local[s][d.key]
          BY <1>3, <1>7, <3>2, <3>4, <4>2
        <5> QED
          BY <3>4, <4>2, <5>1
      <4>3. CASE d.home = s /\ d.key = k
        <5>1. n = local[s][k].count + 1
          BY <1>3, <3>4, <4>3
        <5>2. local'[s][k].window = minute /\ local'[s][k].count = n
          BY <1>7
        <5>3. local[s][k].count \in Nat
          BY <1>2, <1>4
        <5> QED
          BY <3>2, <3>4, <4>3, <5>1, <5>2, <5>3
      <4> QED
        BY <4>1, <4>2, <4>3
    <3> QED
      BY <3>1, <3>3, <3>4
  <2> QED
    BY <2>1, <2>2
<1> QED
  BY <1>10, <1>11, <1>12, <1>13, <1>14, <1>15 DEF LInv

\* Every step of the limiter and of its environment keeps the invariant.
LEMMA InvStep == LInv /\ [Next]_vars => LInv'
<1> SUFFICES ASSUME LInv, [Next]_vars PROVE LInv'
  OBVIOUS
<1>1. CASE \E r \in Requests : RequestStep(r)
  BY <1>1, ArriveStep, RedisAnswersStep, AnswerLostStep, RedisUnreachableStep, IncrementLocalStep
     DEF RequestStep
<1>2. CASE \E k \in Keys, w \in Minutes : Expire(k, w)
  BY <1>2, ExpireStep
<1>3. CASE \E s \in Servers : Restart(s)
  BY <1>3, RestartStep
<1>4. CASE Tick
  BY <1>4, TickStep
<1>5. CASE UNCHANGED vars
  <2>1. UNCHANGED <<minute, shared, local, life, pc, at, sent, ticket>>
    BY <1>5 DEF vars
  <2>2. TypeOK' /\ Arrived' /\ LivesOn'
    BY <2>1 DEF LInv, TypeOK, Arrived, LivesOn, InFlight
  <2>3. SharedAhead' /\ LocalAhead' /\ NumbersDiffer' /\ AdmittedWithin'
    BY <2>1 DEF LInv, SharedAhead, LocalAhead, NumbersDiffer, AdmittedWithin, HasTicket
  <2> QED
    BY <2>2, <2>3 DEF LInv
<1> QED
  BY <1>1, <1>2, <1>3, <1>4, <1>5 DEF Next

-----------------------------------------------------------------------------
(* The theorems.                                                           *)

\* The invariant holds of every behaviour.
THEOREM Counting == Spec => []LInv
BY InvInit, InvStep, PTL DEF Spec

\* The fields of Limiter and bucket and the locals of Middleware keep their
\* types, whatever the bounds.
THEOREM TypeCorrect == Spec => []TypeOK
<1>1. LInv => TypeOK
  BY DEF LInv
<1> QED
  BY Counting, <1>1, PTL

\* The numbers of the requests one counter let through differ and are at most
\* Limit: so many requests they are, and the set is finite.
LEMMA AdmittedFew ==
  ASSUME LInv, NEW c \in Counters
  PROVE  IsFiniteSet(AdmittedBy(c)) /\ Cardinality(AdmittedBy(c)) <= Limit
<1> DEFINE S == AdmittedBy(c)
           f == [r \in S |-> ticket[r].number]
<1>1. \A r \in S : HasTicket(r) /\ ticket[r].counter = c /\ ticket[r].number \in 1..Limit
  <2> SUFFICES ASSUME NEW r \in S
               PROVE  HasTicket(r) /\ ticket[r].counter = c /\ ticket[r].number \in 1..Limit
    OBVIOUS
  <2>1. r \in Requests /\ ticket[r].counter = c /\ HasTicket(r) /\ ticket[r].number <= Limit
    BY DEF AdmittedBy, LInv, AdmittedWithin
  <2>2. ticket[r].number \in Nat \ {0}
    BY <2>1, TicketShape DEF LInv
  <2> QED
    BY <2>1, <2>2
<1>2. \A q, r \in S : ticket[q].number = ticket[r].number => q = r
  BY <1>1 DEF AdmittedBy, LInv, NumbersDiffer
<1>3. f \in Injection(S, 1..Limit)
  <2>1. f \in [S -> 1..Limit]
    BY <1>1
  <2>2. \A q, r \in S : f[q] = f[r] => q = r
    BY <1>2
  <2> HIDE DEF f, S
  <2>3. IsInjective(f)
    BY <2>1, <2>2 DEF IsInjective
  <2> QED
    BY <2>1, <2>3 DEF Injection
<1>4. IsFiniteSet(1..Limit) /\ Cardinality(1..Limit) = Limit
  BY FS_Interval
<1> QED
  BY <1>3, <1>4, FS_Injection

\* The quota: no Redis counter and no bucket of a process lets more than Limit
\* requests through, whatever is lost, sent again, expired or restarted.
THEOREM Quotas == Spec => []QuotaPerCounter
<1>1. LInv => QuotaPerCounter
  BY AdmittedFew DEF QuotaPerCounter
<1> QED
  BY Counting, <1>1, PTL

\* The abstract specification's cardinality is the one of the library.
LEMMA SameCardinality == \A S : Abstract!Cardinality(S) = Cardinality(S)
BY DEF Abstract!Cardinality, Cardinality

\* Nowhere is no counter.
LEMMA NowhereIsNoCounter == \A c \in Counters : c # Nowhere
<1>1. \A c \in Counters : "home" \in DOMAIN c
  BY DEF Counters
<1>2. "home" \notin DOMAIN Nowhere
  BY DEF Nowhere
<1> QED
  BY <1>1, <1>2

\* A request that is counted is granted by the counter that counted it, if the
\* number is within the limit, and by none otherwise.
LEMMA CountedGrants ==
  ASSUME LInv, QuotaPerCounter', NEW r \in Requests, NEW c \in Counters, NEW n \in Nat \ {0},
         pc[r] # "admitted", Counted(r, c, n)
  PROVE  \/ Abstract!Grant(r, c)
         \/ UNCHANGED [q \in Requests |-> Granted(q)]
<1>1. /\ ticket'[r] = [counter |-> c, number |-> n]
      /\ \A q \in Requests \ {r} : ticket'[q] = ticket[q] /\ pc'[q] = pc[q]
  BY CountedShape DEF LInv
<1>2. CASE pc'[r] # "admitted"
  <2>1. \A q \in Requests : Granted(q)' = Granted(q)
    BY <1>1, <1>2 DEF Granted
  <2> QED
    BY <2>1
<1>3. CASE pc'[r] = "admitted"
  <2>1. \A q \in Requests : Granted(q)' = IF q = r THEN c ELSE Granted(q)
    BY <1>1, <1>3 DEF Granted
  <2>2. Granted(r) = Nowhere
    BY DEF Granted
  <2>3. Cardinality(AdmittedBy(c)) < Limit
    <3>1. IsFiniteSet(AdmittedBy(c)) /\ Cardinality(AdmittedBy(c)) \in Nat
      BY AdmittedFew, FS_CardinalityType
    <3>2. r \notin AdmittedBy(c) /\ AdmittedBy(c)' = AdmittedBy(c) \cup {r}
      BY <1>1, <1>3 DEF AdmittedBy
    <3>3. Cardinality(AdmittedBy(c) \cup {r}) = Cardinality(AdmittedBy(c)) + 1
      BY <3>1, <3>2, FS_AddElement
    <3>4. Cardinality(AdmittedBy(c)') <= Limit
      BY DEF QuotaPerCounter, Counters
    <3> QED
      BY <3>1, <3>2, <3>3, <3>4
  <2>4. {q \in Requests : Granted(q) = c} = AdmittedBy(c)
    BY NowhereIsNoCounter DEF Granted, AdmittedBy
  <2>5. [q \in Requests |-> Granted(q)]'
          = [[q \in Requests |-> Granted(q)] EXCEPT ![r] = c]
    BY <2>1
  <2>6. Abstract!GrantedBy(c) = AdmittedBy(c)
    BY <2>4 DEF Abstract!GrantedBy
  <2> QED
    BY <2>2, <2>3, <2>5, <2>6, SameCardinality DEF Abstract!Grant
<1> QED
  BY <1>2, <1>3

\* A transaction answered by Redis counts its request on the shared counter.
LEMMA RedisCounts ==
  ASSUME LInv, NEW r \in Requests, RedisAnswers(r)
  PROVE  /\ pc[r] = "redis"
         /\ \E c \in Counters, n \in Nat \ {0} : Counted(r, c, n)
<1>1. pc[r] = "redis" /\ InFlight(r)
  BY DEF RedisAnswers, Send, InFlight
<1>2. at[r].key \in Keys /\ at[r].window \in Minutes
  BY <1>1, PlaceShape DEF LInv
<1>3. SharedCounter(r) \in Counters
  BY <1>2 DEF SharedCounter, Counters
<1>4. shared[at[r].key][at[r].window].count + 1 \in Nat \ {0}
  <2>1. shared[at[r].key][at[r].window].count \in Nat
    BY <1>2 DEF LInv, TypeOK
  <2> QED
    BY <2>1
<1>5. Counted(r, SharedCounter(r), shared[at[r].key][at[r].window].count + 1)
  BY DEF RedisAnswers
<1> QED
  BY <1>1, <1>3, <1>4, <1>5

\* A request counted in memory is counted on a bucket of its process.
LEMMA MemoryCounts ==
  ASSUME LInv, NEW r \in Requests, IncrementLocal(r)
  PROVE  /\ pc[r] = "fallback"
         /\ \E c \in Counters, n \in Nat \ {0} : Counted(r, c, n)
<1> DEFINE s == at[r].server
           k == at[r].key
           n == NextCount(Cleaned(local[s], minute)[k], minute)
<1>1. pc[r] = "fallback" /\ Counted(r, LocalCounter(s, k, minute), n)
  BY DEF IncrementLocal
<1>2. s \in Servers /\ k \in Keys
  BY <1>1, PlaceShape DEF LInv, InFlight
<1>3. n \in Nat \ {0}
  BY <1>2, BucketsShape DEF LInv
<1>4. LocalCounter(s, k, minute) \in Counters
  BY <1>2 DEF LocalCounter, Counters, LInv, TypeOK
<1> QED
  BY <1>1, <1>3, <1>4

\* The limiter implements a set of quotas: a step that counts a request grants
\* it or changes no grant, and every other step changes none.
THEOREM Refinement == Spec => ImplementsQuota
<1>1. Init => Abstract!Init
  BY DEF Init, Abstract!Init, Granted
<1>2. LInv /\ QuotaPerCounter' /\ [Next]_vars => [Abstract!Next]_[q \in Requests |-> Granted(q)]
  <2> SUFFICES ASSUME LInv, QuotaPerCounter', [Next]_vars
               PROVE  Abstract!Next \/ UNCHANGED [q \in Requests |-> Granted(q)]
    OBVIOUS
  <2>1. ASSUME UNCHANGED ticket,
               \A q \in Requests : pc'[q] = "admitted" <=> pc[q] = "admitted"
        PROVE  UNCHANGED [q \in Requests |-> Granted(q)]
    <3>1. \A q \in Requests : Granted(q)' = Granted(q)
      BY <2>1 DEF Granted
    <3> QED
      BY <3>1
  <2>2. ASSUME NEW r \in Requests, RequestStep(r)
        PROVE  Abstract!Next \/ UNCHANGED [q \in Requests |-> Granted(q)]
    <3>1. CASE Arrive(r)
      BY <2>1, <3>1 DEF Arrive, Goto, LInv, TypeOK
    <3>2. CASE RedisUnreachable(r)
      BY <2>1, <3>2 DEF RedisUnreachable, Send, Unanswered, Goto, LInv, TypeOK
    <3>3. CASE AnswerLost(r)
      BY <2>1, <3>3 DEF AnswerLost, Send, Unanswered, Goto, LInv, TypeOK
    <3>4. CASE RedisAnswers(r)
      BY <3>4, RedisCounts, CountedGrants DEF Abstract!Next
    <3>5. CASE IncrementLocal(r)
      BY <3>5, MemoryCounts, CountedGrants DEF Abstract!Next
    <3> QED
      BY <2>2, <3>1, <3>2, <3>3, <3>4, <3>5 DEF RequestStep
  <2>3. CASE \E k \in Keys, w \in Minutes : Expire(k, w)
    BY <2>1, <2>3 DEF Expire
  <2>4. CASE \E s \in Servers : Restart(s)
    BY <2>1, <2>4 DEF Restart, InFlight
  <2>5. CASE Tick \/ UNCHANGED vars
    BY <2>1, <2>5 DEF Tick, vars
  <2> QED
    BY <2>2, <2>3, <2>4, <2>5 DEF Next
<1>3. LInv => QuotaPerCounter
  BY AdmittedFew DEF QuotaPerCounter
<1> QED
  BY <1>1, <1>2, <1>3, Counting, PTL DEF Spec, ImplementsQuota, Abstract!Spec

-----------------------------------------------------------------------------
(* The whole service.                                                      *)

\* There is one Redis counter for a key and minute: it has no lives.
OneRedis ==
  \A r \in Requests : HasTicket(r) /\ ticket[r].counter.home = Redis => ticket[r].counter.life = 0

\* A request that is counted keeps that so, and those that are not.
LEMMA OneRedisStep ==
  ASSUME LInv, OneRedis, [Next]_vars
  PROVE  OneRedis'
<1>1. CASE UNCHANGED ticket
  BY <1>1 DEF OneRedis, HasTicket
<1>2. ASSUME NEW r \in Requests, NEW c, NEW n, Counted(r, c, n), c.home = Redis => c.life = 0
      PROVE  OneRedis'
  <2>1. /\ ticket'[r] = [counter |-> c, number |-> n]
        /\ \A q \in Requests \ {r} : ticket'[q] = ticket[q]
    BY <1>2 DEF Counted, LInv, TypeOK
  <2> QED
    BY <1>2, <2>1 DEF OneRedis, HasTicket
<1>3. ASSUME NEW r \in Requests, RedisAnswers(r)
      PROVE  OneRedis'
  <2>1. SharedCounter(r).life = 0
    BY DEF SharedCounter
  <2> QED
    BY <1>2, <1>3, <2>1 DEF RedisAnswers
<1>4. ASSUME NEW r \in Requests, IncrementLocal(r)
      PROVE  OneRedis'
  <2>1. at[r].server \in Servers
    BY <1>4, PlaceShape DEF IncrementLocal, InFlight, LInv
  <2>2. LocalCounter(at[r].server, at[r].key, minute).home # Redis
    BY <2>1 DEF LocalCounter
  <2> QED
    BY <1>2, <1>4, <2>2 DEF IncrementLocal
<1> QED
  BY <1>1, <1>3, <1>4
     DEF Next, vars, RequestStep, Arrive, AnswerLost, RedisUnreachable, Expire, Restart, Tick

\* The lives of the processes so far.
Lives == {l \in Servers \X (0..MaxRestarts) : l[2] <= life[l[1]]}

\* They are finitely many, and Redis is not among them.
LEMMA LivesFinite ==
  ASSUME IsFiniteSet(Servers)
  PROVE  /\ IsFiniteSet(Lives \cup {<<Redis, 0>>})
         /\ Cardinality(Lives \cup {<<Redis, 0>>}) = 1 + Cardinality(Lives)
<1>1. IsFiniteSet(0..MaxRestarts)
  BY FS_Interval
<1>2. IsFiniteSet(Servers \X (0..MaxRestarts))
  BY <1>1, FS_Product
<1>3. IsFiniteSet(Lives) /\ Cardinality(Lives) \in Nat
  BY <1>2, FS_Subset, FS_CardinalityType DEF Lives
<1>4. <<Redis, 0>> \notin Lives
  BY DEF Lives
<1>5. /\ IsFiniteSet(Lives \cup {<<Redis, 0>>})
      /\ Cardinality(Lives \cup {<<Redis, 0>>}) = Cardinality(Lives) + 1
  BY <1>3, <1>4, FS_AddElement
<1>6. Cardinality(Lives) + 1 = 1 + Cardinality(Lives)
  BY <1>3
<1> QED
  BY <1>5, <1>6

\* Which process counted a request, in which of its lives, or Redis.
Origin(r) ==
  IF ticket[r].counter.home = Redis THEN <<Redis, 0>>
  ELSE <<ticket[r].counter.home, ticket[r].counter.life>>

\* Of one key and minute, an origin and a number are one request's at most.
LEMMA OriginsDiffer ==
  ASSUME LInv, OneRedis, NEW q \in Requests, NEW r \in Requests, HasTicket(q), HasTicket(r),
         ticket[q].counter.key = ticket[r].counter.key,
         ticket[q].counter.window = ticket[r].counter.window,
         Origin(q) = Origin(r), ticket[q].number = ticket[r].number
  PROVE  q = r
<1> DEFINE c == ticket[q].counter
           d == ticket[r].counter
<1>1. c \in Counters /\ d \in Counters
  BY TicketShape DEF LInv
<1>2. c.home = d.home /\ c.life = d.life
  BY DEF Origin, OneRedis
<1>3. c = d
  BY <1>1, <1>2 DEF Counters
<1> QED
  BY <1>3 DEF LInv, NumbersDiffer

\* Each origin has a counter for the key and the minute, with its own quota.
LEMMA MinuteQuota ==
  ASSUME LInv, OneRedis, IsFiniteSet(Servers)
  PROVE  QuotaPerMinute
<1> SUFFICES ASSUME NEW k \in Keys, NEW w \in Minutes
             PROVE  Cardinality({r \in Requests : /\ pc[r] = "admitted"
                                                  /\ ticket[r].counter.key = k
                                                  /\ ticket[r].counter.window = w})
                      <= Limit * (1 + Cardinality(Lives))
  BY DEF QuotaPerMinute, Lives
<1> DEFINE S == {r \in Requests : /\ pc[r] = "admitted"
                                  /\ ticket[r].counter.key = k /\ ticket[r].counter.window = w}
           Origins == Lives \cup {<<Redis, 0>>}
           T == Origins \X (1..Limit)
           f == [r \in S |-> <<Origin(r), ticket[r].number>>]
<1>1. ASSUME NEW r \in S
      PROVE  HasTicket(r) /\ Origin(r) \in Origins /\ ticket[r].number \in 1..Limit
  <2>1. HasTicket(r) /\ ticket[r].number <= Limit
    BY DEF LInv, AdmittedWithin
  <2>2. ticket[r].counter \in Counters /\ ticket[r].number \in Nat \ {0}
    BY <2>1, TicketShape DEF LInv
  <2>3. ASSUME ticket[r].counter.home # Redis
        PROVE  <<ticket[r].counter.home, ticket[r].counter.life>> \in Lives
    <3>1. ticket[r].counter.home \in Servers /\ ticket[r].counter.life \in 0..MaxRestarts
      BY <2>2, <2>3 DEF Counters
    <3>2. ticket[r].counter.life <= life[ticket[r].counter.home]
      BY <2>1, <2>3 DEF LInv, LocalAhead
    <3> QED
      BY <3>1, <3>2 DEF Lives
  <2> QED
    BY <2>1, <2>2, <2>3 DEF Origin
<1>2. ASSUME NEW q \in S, NEW r \in S, f[q] = f[r]
      PROVE  q = r
  <2>1. Origin(q) = Origin(r) /\ ticket[q].number = ticket[r].number
    BY <1>2
  <2> QED
    BY <1>1, <2>1, OriginsDiffer
<1>3. f \in [S -> T]
  BY <1>1
<1> HIDE DEF S, T, f
<1>4. f \in Injection(S, T)
  BY <1>2, <1>3 DEF Injection, IsInjective
<1>5. IsFiniteSet(1..Limit) /\ Cardinality(1..Limit) = Limit
  BY FS_Interval
<1>6. IsFiniteSet(Origins) /\ Cardinality(Origins) = 1 + Cardinality(Lives)
  BY LivesFinite
<1>7. IsFiniteSet(T) /\ Cardinality(T) = Cardinality(Origins) * Limit
  BY <1>5, <1>6, FS_Product DEF T
<1>8. Cardinality(S) <= Cardinality(T)
  BY <1>4, <1>7, FS_Injection
<1>9. Cardinality(Lives) \in Nat
  <2>1. Lives \subseteq Origins
    OBVIOUS
  <2> QED
    BY <1>6, <2>1, FS_Subset, FS_CardinalityType
<1>10. (1 + Cardinality(Lives)) * Limit = Limit * (1 + Cardinality(Lives))
  BY <1>9
<1> QED
  BY <1>6, <1>7, <1>8, <1>10 DEF S

\* What is left of a distributed limit: with any number of processes, each adds
\* its own quota for each time it was started.
THEOREM MinuteQuotas == IsFiniteSet(Servers) => (Spec => []QuotaPerMinute)
<1> SUFFICES ASSUME IsFiniteSet(Servers) PROVE Spec => []QuotaPerMinute
  OBVIOUS
<1>1. Init => OneRedis
  BY DEF Init, OneRedis, HasTicket, NoTicket
<1>2. LInv /\ OneRedis /\ [Next]_vars => OneRedis'
  BY OneRedisStep
<1>3. LInv /\ OneRedis => QuotaPerMinute
  BY MinuteQuota
<1> QED
  BY <1>1, <1>2, <1>3, Counting, PTL DEF Spec

-----------------------------------------------------------------------------
(* The buckets of a process.                                               *)

\* No bucket is of a later minute, and a process has finitely many.
BucketsInv ==
  /\ \A s \in Servers : IsFiniteSet(Tracked(local[s]))
  /\ \A s \in Servers, k \in Keys : local[s][k].window <= minute
  /\ TrackedBounded

\* A map that is cleaned keeps this minute's buckets, so one more is of the same
\* minute; a map that is not has room for one more.
LEMMA BucketAdded ==
  ASSUME LInv, BucketsInv, NEW r \in Requests, IncrementLocal(r)
  PROVE  LET s == at[r].server IN
         /\ IsFiniteSet(Tracked(local'[s]))
         /\ \A k \in Keys : local'[s][k].window <= minute
         /\ \/ Cardinality(Tracked(local'[s])) <= CleanupAt
            \/ \A k \in Tracked(local'[s]) : local'[s][k].window = minute
<1> DEFINE s == at[r].server
           k0 == at[r].key
           old == local[s]
           buckets == Cleaned(old, minute)
           n == NextCount(buckets[k0], minute)
<1>1. /\ pc[r] = "fallback"
      /\ local' = [local EXCEPT ![s] = [buckets EXCEPT ![k0] = [window |-> minute, count |-> n]]]
  BY DEF IncrementLocal
<1>2. s \in Servers /\ k0 \in Keys
  BY <1>1, PlaceShape DEF LInv, InFlight
<1>3. minute \in Nat /\ old \in [Keys -> [window : Minutes, count : Nat]]
  BY <1>2 DEF LInv, TypeOK, Minutes
<1>4. \A k \in Keys : old[k].window \in Nat /\ old[k].window <= minute
  BY <1>2, <1>3 DEF BucketsInv, Minutes
<1>5. IsFiniteSet(Tracked(old)) /\ Cardinality(Tracked(old)) \in Nat
  BY <1>2, FS_CardinalityType DEF BucketsInv
<1>6. /\ local'[s] = [buckets EXCEPT ![k0] = [window |-> minute, count |-> n]]
  BY <1>1, <1>2 DEF LInv, TypeOK
<1> HIDE DEF s, k0, old, n
<1>7. \A k \in Keys :
        buckets[k] = IF Cardinality(Tracked(old)) >= CleanupAt /\ old[k].window < minute
                     THEN NoBucket ELSE old[k]
  BY DEF Cleaned
<1>8. DOMAIN buckets = Keys
  BY DEF Cleaned
<1> HIDE DEF buckets
<1>9. /\ local'[s][k0].window = minute
      /\ \A k \in Keys \ {k0} : local'[s][k] = buckets[k]
  BY <1>2, <1>6, <1>8
<1>10. \A k \in Keys : local'[s][k].window <= minute
  BY <1>3, <1>4, <1>7, <1>9 DEF NoBucket
<1>11. Tracked(local'[s]) \subseteq Tracked(old) \cup {k0}
  <2> SUFFICES ASSUME NEW k \in Keys, local'[s][k].count > 0, k # k0
               PROVE  old[k].count > 0
    BY DEF Tracked
  <2>1. buckets[k].count > 0
    BY <1>9
  <2>2. CASE buckets[k] = NoBucket
    BY <2>1, <2>2 DEF NoBucket
  <2>3. CASE buckets[k] = old[k]
    BY <2>1, <2>3
  <2> QED
    BY <1>7, <2>2, <2>3
<1>12. /\ IsFiniteSet(Tracked(old) \cup {k0})
       /\ Cardinality(Tracked(old) \cup {k0}) <= Cardinality(Tracked(old)) + 1
       /\ Cardinality(Tracked(old) \cup {k0}) \in Nat
  <2>1. /\ IsFiniteSet(Tracked(old) \cup {k0})
        /\ Cardinality(Tracked(old) \cup {k0})
             = IF k0 \in Tracked(old) THEN Cardinality(Tracked(old))
               ELSE Cardinality(Tracked(old)) + 1
    BY <1>5, FS_AddElement
  <2> QED
    BY <1>5, <2>1
<1>13. /\ IsFiniteSet(Tracked(local'[s])) /\ Cardinality(Tracked(local'[s])) \in Nat
       /\ Cardinality(Tracked(local'[s])) <= Cardinality(Tracked(old) \cup {k0})
  BY <1>11, <1>12, FS_Subset, FS_CardinalityType
<1>14. CASE Cardinality(Tracked(old)) >= CleanupAt
  <2>1. ASSUME NEW k \in Tracked(local'[s])
        PROVE  local'[s][k].window = minute
    <3>1. k \in Keys /\ local'[s][k].count > 0
      BY DEF Tracked
    <3>2. CASE k = k0
      BY <1>9, <3>2
    <3>3. CASE k # k0
      <4>1. local'[s][k] = buckets[k] /\ buckets[k] # NoBucket
        BY <1>9, <3>1, <3>3 DEF NoBucket
      <4>2. ~ (old[k].window < minute) /\ buckets[k] = old[k]
        BY <1>7, <1>14, <3>1, <4>1
      <4>3. old[k].window = minute
        BY <1>3, <1>4, <3>1, <4>2
      <4> QED
        BY <4>1, <4>2, <4>3
    <3> QED
      BY <3>2, <3>3
  <2> QED
    BY <1>10, <1>13, <2>1 DEF s
<1>15. CASE ~ (Cardinality(Tracked(old)) >= CleanupAt)
  <2>1. Cardinality(Tracked(local'[s])) <= CleanupAt
    BY <1>5, <1>12, <1>13, <1>15
  <2> QED
    BY <1>10, <1>13, <2>1 DEF s
<1> QED
  BY <1>14, <1>15

\* Every step keeps the buckets few.
LEMMA BucketsStep ==
  ASSUME LInv, BucketsInv, [Next]_vars
  PROVE  BucketsInv'
<1>1. minute \in Nat /\ minute' \in Nat /\ minute <= minute'
  <2>1. minute \in Nat
    BY DEF LInv, TypeOK, Minutes
  <2>2. minute' = minute \/ minute' = minute + 1
    BY DEF Next, vars, RequestStep, Arrive, RedisAnswers, AnswerLost,
           RedisUnreachable, IncrementLocal, Expire, Restart, Tick
  <2> QED
    BY <2>1, <2>2
<1>2. local \in [Servers -> [Keys -> [window : Minutes, count : Nat]]]
  BY DEF LInv, TypeOK
<1>3. \A s \in Servers, k \in Keys : local[s][k].window \in Nat
  BY <1>2 DEF Minutes
<1>4. CASE UNCHANGED local
  BY <1>1, <1>3, <1>4 DEF BucketsInv, TrackedBounded, Tracked
<1>5. ASSUME NEW s \in Servers, Restart(s)
      PROVE  BucketsInv'
  <2>1. local' = [local EXCEPT ![s] = [k \in Keys |-> NoBucket]] /\ minute' = minute
    BY <1>5 DEF Restart
  <2>2. Tracked(local'[s]) = {} /\ \A k \in Keys : local'[s][k].window = 0
    BY <1>2, <2>1 DEF Tracked, NoBucket
  <2>3. \A v \in Servers \ {s} : local'[v] = local[v]
    BY <1>2, <2>1
  <2>4. IsFiniteSet({})
    BY FS_EmptySet
  <2>5. \A v \in Servers, k \in Keys : local'[v][k].window <= minute'
    BY <1>1, <1>3, <2>1, <2>2, <2>3 DEF BucketsInv
  <2>6. \A v \in Servers : IsFiniteSet(Tracked(local'[v]))
    BY <2>2, <2>3, <2>4 DEF BucketsInv
  <2>7. TrackedBounded'
    BY <2>2, <2>3 DEF BucketsInv, TrackedBounded
  <2> QED
    BY <2>5, <2>6, <2>7 DEF BucketsInv, Tracked
<1>6. ASSUME NEW r \in Requests, IncrementLocal(r)
      PROVE  BucketsInv'
  <2> DEFINE s == at[r].server
  <2>1. minute' = minute /\ \A v \in Servers \ {s} : local'[v] = local[v]
    BY <1>2, <1>6 DEF IncrementLocal
  <2>2. /\ IsFiniteSet(Tracked(local'[s]))
        /\ \A k \in Keys : local'[s][k].window <= minute
        /\ \/ Cardinality(Tracked(local'[s])) <= CleanupAt
           \/ \A k \in Tracked(local'[s]) : local'[s][k].window = minute
    BY <1>6, BucketAdded
  <2>3. \A v \in Servers, k \in Keys : local'[v][k].window <= minute'
    BY <2>1, <2>2 DEF BucketsInv
  <2>4. \A v \in Servers : IsFiniteSet(Tracked(local'[v]))
    BY <2>1, <2>2 DEF BucketsInv
  <2>5. TrackedBounded'
    BY <2>1, <2>2 DEF BucketsInv, TrackedBounded
  <2> QED
    BY <2>3, <2>4, <2>5 DEF BucketsInv, Tracked
<1> QED
  BY <1>4, <1>5, <1>6
     DEF Next, vars, RequestStep, Arrive, RedisAnswers, AnswerLost, RedisUnreachable, Expire, Tick

\* The memory of a process stays bounded: beyond CleanupAt it holds the keys of
\* one minute only, for any number of keys, requests and restarts.
THEOREM Bounded == Spec => []TrackedBounded
<1>1. Init => BucketsInv
  <2> SUFFICES ASSUME Init PROVE BucketsInv
    OBVIOUS
  <2>1. \A s \in Servers : Tracked(local[s]) = {}
    BY DEF Init, Tracked, NoBucket
  <2>2. \A s \in Servers, k \in Keys : local[s][k].window <= minute
    BY DEF Init, NoBucket
  <2> QED
    BY <2>1, <2>2, FS_EmptySet DEF BucketsInv, TrackedBounded
<1>2. LInv /\ BucketsInv /\ [Next]_vars => BucketsInv'
  BY BucketsStep
<1>3. BucketsInv => TrackedBounded
  BY DEF BucketsInv
<1> QED
  BY <1>1, <1>2, <1>3, Counting, PTL DEF Spec

-----------------------------------------------------------------------------
(* Nobody is refused for nothing.                                          *)

Begun == {q \in Requests : pc[q] # "new"}

\* A request is counted once, on its way out.
CountedOnce == \A r \in Requests : HasTicket(r) => pc[r] \in {"admitted", "refused"}

FewBegun == IsFiniteSet(Begun) /\ CountedOnce

\* No counter and no number is above what stands behind it.
SharedBacked ==
  \A k \in Keys, w \in Minutes : shared[k][w].count <= Cardinality(Sends(k, w))

LocalBacked ==
  \A s \in Servers, k \in Keys :
    local[s][k].count <= Cardinality(CountedOn(LocalCounter(s, k, local[s][k].window)))

NumbersBacked ==
  \A r \in Requests :
    HasTicket(r) => ticket[r].number <= Cardinality(Behind(ticket[r].counter))

RefusedOver ==
  \A r \in Requests : pc[r] = "refused" => HasTicket(r) /\ Limit < ticket[r].number

CauseInv ==
  /\ FewBegun
  /\ SharedBacked /\ LocalBacked /\ NumbersBacked /\ RefusedOver

\* What a step keeps of the requests that have begun.
Keeps ==
  \A q \in Requests :
    /\ pc[q] # "new" => pc'[q] # "new" /\ at'[q] = at[q] /\ sent[q] <= sent'[q]
    /\ HasTicket(q) => HasTicket(q)' /\ ticket'[q] = ticket[q]

\* What stands behind a counter is finite.
FewBehind ==
  /\ \A c : IsFiniteSet(CountedOn(c)) /\ Cardinality(CountedOn(c)) \in Nat
  /\ \A k, w : IsFiniteSet(Sends(k, w)) /\ Cardinality(Sends(k, w)) \in Nat

LEMMA BehindIsFinite == FewBegun => FewBehind
<1> SUFFICES ASSUME FewBegun PROVE FewBehind
  OBVIOUS
<1> USE DEF FewBegun
<1>1. ASSUME NEW c
      PROVE  IsFiniteSet(CountedOn(c)) /\ Cardinality(CountedOn(c)) \in Nat
  <2>1. CountedOn(c) \subseteq Begun
    BY DEF CountedOn, Begun, CountedOnce
  <2> QED
    BY <2>1, FS_Subset, FS_CardinalityType
<1>2. ASSUME NEW k, NEW w
      PROVE  IsFiniteSet(Sends(k, w)) /\ Cardinality(Sends(k, w)) \in Nat
  <2>1. Sends(k, w) \subseteq Begun \X (1..(Resends + 1))
    BY DEF Sends, Begun
  <2>2. IsFiniteSet(1..(Resends + 1))
    BY FS_Interval
  <2>3. IsFiniteSet(Begun \X (1..(Resends + 1)))
    BY <2>2, FS_Product
  <2> QED
    BY <2>1, <2>3, FS_Subset, FS_CardinalityType
<1> QED
  BY <1>1, <1>2 DEF FewBehind

\* A number once backed stays so.
LEMMA MoreBehind ==
  ASSUME TypeOK, TypeOK', Keeps, FewBegun'
  PROVE  /\ \A c : /\ CountedOn(c) \subseteq CountedOn(c)'
                   /\ Cardinality(CountedOn(c)) <= Cardinality(CountedOn(c)')
         /\ \A k, w : /\ Sends(k, w) \subseteq Sends(k, w)'
                      /\ Cardinality(Sends(k, w)) <= Cardinality(Sends(k, w)')
         /\ \A c : Cardinality(Behind(c)) <= Cardinality(Behind(c)')
<1>1. FewBehind'
  BY BehindIsFinite, PTL
<1>2. \A c : CountedOn(c) \subseteq CountedOn(c)'
  BY DEF CountedOn, Keeps
<1>3. ASSUME NEW k, NEW w
      PROVE  Sends(k, w) \subseteq Sends(k, w)'
  <2> SUFFICES ASSUME NEW t \in Sends(k, w) PROVE t \in Sends(k, w)'
    OBVIOUS
  <2>1. /\ t \in Requests \X (1..(Resends + 1)) /\ t[1] \in Requests /\ t[2] \in Nat
        /\ pc[t[1]] # "new" /\ at[t[1]].key = k /\ at[t[1]].window = w /\ t[2] <= sent[t[1]]
    BY DEF Sends
  <2>2. pc'[t[1]] # "new" /\ at'[t[1]] = at[t[1]] /\ sent[t[1]] <= sent'[t[1]]
    BY <2>1 DEF Keeps
  <2>3. sent[t[1]] \in Nat /\ sent'[t[1]] \in Nat
    BY <2>1 DEF TypeOK
  <2>4. t[2] <= sent'[t[1]]
    BY <2>1, <2>2, <2>3
  <2>5. pc'[t[1]] # "new" /\ at'[t[1]].key = k /\ at'[t[1]].window = w
    BY <2>1, <2>2
  <2> QED
    BY <2>1, <2>4, <2>5 DEF Sends
<1>4. \A c : Cardinality(CountedOn(c)) <= Cardinality(CountedOn(c)')
  BY <1>1, <1>2, FS_Subset DEF FewBehind
<1>5. \A k, w : Cardinality(Sends(k, w)) <= Cardinality(Sends(k, w)')
  BY <1>1, <1>3, FS_Subset DEF FewBehind
<1>6. \A c : Cardinality(Behind(c)) <= Cardinality(Behind(c)')
  BY <1>4, <1>5 DEF Behind
<1> QED
  BY <1>2, <1>3, <1>4, <1>5, <1>6

\* Requests are only ever added to those that have begun and those that are
\* counted; none is counted twice.
LEMMA NextKeeps ==
  ASSUME LInv, CauseInv, [Next]_vars
  PROVE  Keeps /\ FewBegun'
<1> USE DEF LInv, CauseInv
<1>0. /\ pc \in [Requests -> {"new", "redis", "fallback", "admitted", "refused", "lost"}]
      /\ at \in [Requests -> Arrival \cup {Nowhere}]
      /\ sent \in [Requests -> 0..(Resends + 1)]
      /\ ticket \in [Requests -> Ticket \cup {NoTicket}]
      /\ \A q \in Requests : sent[q] \in Nat
  BY DEF TypeOK
<1>1. CASE UNCHANGED <<pc, at, sent, ticket>>
  BY <1>0, <1>1 DEF Keeps, FewBegun, Begun, CountedOnce, HasTicket
<1>2. ASSUME NEW s \in Servers, Restart(s)
      PROVE  Keeps /\ FewBegun'
  <2>1. /\ pc' = [r \in Requests |-> IF InFlight(r) /\ at[r].server = s THEN "lost" ELSE pc[r]]
        /\ UNCHANGED <<at, sent, ticket>>
    BY <1>2 DEF Restart
  <2>2. \A q \in Requests : /\ pc'[q] = "new" <=> pc[q] = "new"
                            /\ pc[q] \in {"admitted", "refused"} => pc'[q] = pc[q]
    BY <2>1 DEF InFlight
  <2>3. Begun' = Begun
    BY <2>2 DEF Begun
  <2> QED
    BY <1>0, <2>1, <2>2, <2>3 DEF Keeps, FewBegun, CountedOnce, HasTicket
<1>3. ASSUME NEW r \in Requests, ~HasTicket(r),
             pc'[r] # "new",
             \A q \in Requests \ {r} : /\ pc'[q] = pc[q] /\ at'[q] = at[q]
                                       /\ sent'[q] = sent[q] /\ ticket'[q] = ticket[q],
             pc[r] # "new" => at'[r] = at[r] /\ sent[r] <= sent'[r],
             HasTicket(r)' => pc'[r] \in {"admitted", "refused"}
      PROVE  Keeps /\ FewBegun'
  <2>1. Keeps
    BY <1>0, <1>3 DEF Keeps, HasTicket
  <2>2. Begun' \subseteq Begun \cup {r}
    BY <1>3 DEF Begun
  <2>3. IsFiniteSet(Begun \cup {r})
    BY FS_AddElement DEF FewBegun
  <2>4. IsFiniteSet(Begun')
    BY <2>2, <2>3, FS_Subset
  <2>5. CountedOnce'
    BY <1>3 DEF FewBegun, CountedOnce, HasTicket
  <2> QED
    BY <2>1, <2>4, <2>5 DEF FewBegun
<1>4. ASSUME NEW r \in Requests, Arrive(r)
      PROVE  Keeps /\ FewBegun'
  <2>1. PICK s \in Servers, k \in Keys :
          at' = [at EXCEPT ![r] = [server |-> s, key |-> k, window |-> minute]]
    BY <1>4 DEF Arrive
  <2>2. /\ pc[r] = "new" /\ UNCHANGED <<sent, ticket>>
        /\ pc' = [pc EXCEPT ![r] = IF RedisEnabled THEN "redis" ELSE "fallback"]
    BY <1>4 DEF Arrive, Goto
  <2>3. ~HasTicket(r) /\ ~HasTicket(r)'
    BY <2>2 DEF FewBegun, CountedOnce, HasTicket
  <2> QED
    BY <1>0, <1>3, <2>1, <2>2, <2>3
<1>5. ASSUME NEW r \in Requests, AnswerLost(r) \/ RedisUnreachable(r)
      PROVE  Keeps /\ FewBegun'
  <2>1. /\ pc[r] = "redis" /\ UNCHANGED <<at, ticket>>
        /\ sent' = [sent EXCEPT ![r] = @ + 1]
        /\ pc' = pc \/ pc' = [pc EXCEPT ![r] = "fallback"]
    BY <1>5 DEF AnswerLost, RedisUnreachable, Send, Unanswered, Goto
  <2>2. ~HasTicket(r) /\ ~HasTicket(r)'
    BY <2>1 DEF FewBegun, CountedOnce, HasTicket
  <2>3. sent'[r] = sent[r] + 1 /\ sent[r] <= sent'[r]
    BY <1>0, <2>1
  <2> QED
    BY <1>0, <1>3, <2>1, <2>2, <2>3
<1>6. ASSUME NEW r \in Requests, RedisAnswers(r) \/ IncrementLocal(r)
      PROVE  Keeps /\ FewBegun'
  <2>1. /\ InFlight(r) /\ at' = at
        /\ sent' = sent \/ sent' = [sent EXCEPT ![r] = @ + 1]
        /\ \E c, n : Counted(r, c, n)
    BY <1>6 DEF RedisAnswers, IncrementLocal, Send, InFlight
  <2>2. PICK c, n : Counted(r, c, n)
    BY <2>1
  <2>3. /\ pc'[r] \in {"admitted", "refused"}
        /\ \A q \in Requests \ {r} : pc'[q] = pc[q] /\ ticket'[q] = ticket[q]
    BY <1>0, <2>2 DEF Counted, Goto
  <2>4. ~HasTicket(r)
    BY <2>1 DEF FewBegun, CountedOnce, InFlight
  <2>5. sent[r] <= sent'[r] /\ \A q \in Requests \ {r} : sent'[q] = sent[q]
    BY <1>0, <2>1
  <2> QED
    BY <1>0, <1>3, <2>1, <2>3, <2>4, <2>5
<1> QED
  BY <1>1, <1>2, <1>4, <1>5, <1>6
     DEF Next, vars, RequestStep, Expire, Tick

\* Sending a request once more puts one more time behind its Redis counter.
LEMMA SentAgain ==
  ASSUME LInv, LInv', CauseInv, Keeps, FewBegun',
         NEW r \in Requests, NEW k, NEW w, Send(r), at[r].key = k, at[r].window = w
  PROVE  Cardinality(Sends(k, w)) + 1 <= Cardinality(Sends(k, w)')
<1> DEFINE t == <<r, sent[r] + 1>>
<1>1. /\ pc[r] = "redis" /\ sent[r] \in Nat /\ sent[r] <= Resends /\ sent'[r] = sent[r] + 1
      /\ pc'[r] # "new" /\ at'[r] = at[r]
  BY DEF Send, LInv, TypeOK, Arrived, Keeps
<1>2. t \in Sends(k, w)' /\ t \notin Sends(k, w)
  BY <1>1 DEF Sends
<1>3. /\ FewBehind /\ FewBehind' /\ Sends(k, w) \subseteq Sends(k, w)'
  <2>1. (FewBegun => FewBehind)'
    BY BehindIsFinite, PTL
  <2> QED
    BY <2>1, BehindIsFinite, MoreBehind DEF CauseInv, LInv
<1> HIDE DEF t
<1>4. /\ IsFiniteSet(Sends(k, w) \cup {t})
      /\ Cardinality(Sends(k, w) \cup {t}) = Cardinality(Sends(k, w)) + 1
  BY <1>2, <1>3, FS_AddElement DEF FewBehind
<1>5. Sends(k, w) \cup {t} \subseteq Sends(k, w)'
  BY <1>2, <1>3
<1> QED
  BY <1>3, <1>4, <1>5, FS_Subset DEF FewBehind

\* Counting one more request in memory puts it behind its bucket's counter.
LEMMA CountedAgain ==
  ASSUME LInv, LInv', CauseInv, Keeps, FewBegun', NEW r \in Requests,
         NEW c, NEW n \in Nat \ {0}, InFlight(r), Counted(r, c, n)
  PROVE  Cardinality(CountedOn(c)) + 1 <= Cardinality(CountedOn(c)')
<1>1. r \notin CountedOn(c)
  BY DEF CauseInv, FewBegun, CountedOnce, CountedOn, InFlight
<1>2. ticket'[r] = [counter |-> c, number |-> n]
  BY DEF Counted, LInv, TypeOK
<1>3. r \in CountedOn(c)'
  BY <1>2 DEF CountedOn, HasTicket
<1>4. /\ FewBehind /\ FewBehind' /\ CountedOn(c) \subseteq CountedOn(c)'
  <2>1. (FewBegun => FewBehind)'
    BY BehindIsFinite, PTL
  <2> QED
    BY <2>1, BehindIsFinite, MoreBehind DEF CauseInv, LInv
<1>5. /\ IsFiniteSet(CountedOn(c) \cup {r})
      /\ Cardinality(CountedOn(c) \cup {r}) = Cardinality(CountedOn(c)) + 1
  BY <1>1, <1>4, FS_AddElement DEF FewBehind
<1>6. CountedOn(c) \cup {r} \subseteq CountedOn(c)'
  BY <1>3, <1>4
<1> QED
  BY <1>4, <1>5, <1>6, FS_Subset DEF FewBehind

\* No counter and no number gets ahead of what stands behind it.
LEMMA CauseStep ==
  ASSUME LInv, LInv', CauseInv, [Next]_vars
  PROVE  CauseInv'
<1>1. Keeps /\ FewBegun'
  BY NextKeeps
<1>2. /\ \A c : /\ CountedOn(c) \subseteq CountedOn(c)'
                /\ Cardinality(CountedOn(c)) <= Cardinality(CountedOn(c)')
      /\ \A k, w : Cardinality(Sends(k, w)) <= Cardinality(Sends(k, w)')
      /\ \A c : Cardinality(Behind(c)) <= Cardinality(Behind(c)')
  BY <1>1, MoreBehind DEF LInv
<1>3. FewBehind /\ FewBehind'
  <2>1. (FewBegun => FewBehind)'
    BY BehindIsFinite, PTL
  <2> QED
    BY <1>1, <2>1, BehindIsFinite DEF CauseInv
<1>4. /\ \A c : Cardinality(Behind(c)) \in Nat /\ Cardinality(Behind(c)') \in Nat
      /\ \A c : Cardinality(CountedOn(c)) \in Nat /\ Cardinality(CountedOn(c)') \in Nat
      /\ \A k, w : Cardinality(Sends(k, w)) \in Nat /\ Cardinality(Sends(k, w)') \in Nat
  BY <1>3 DEF FewBehind, Behind
<1>5. /\ shared \in [Keys -> [Minutes -> [count : Nat, until : Nat]]]
      /\ shared' \in [Keys -> [Minutes -> [count : Nat, until : Nat]]]
      /\ \A k \in Keys, w \in Minutes : shared[k][w].count \in Nat /\ shared'[k][w].count \in Nat
      /\ \A q \in Requests : HasTicket(q) => ticket[q].number \in Nat
  BY TicketShape DEF LInv, TypeOK
<1>6. ASSUME NEW r \in Requests, Send(r), Increment(r), InFlight(r)
      PROVE  SharedBacked'
  <2>1. PICK k0 \in Keys : k0 = at[r].key
    BY <1>6, PlaceShape DEF LInv
  <2>2. PICK w0 \in Minutes : w0 = at[r].window
    BY <1>6, PlaceShape DEF LInv
  <2>3. shared'[k0][w0].count = shared[k0][w0].count + 1
    BY <1>6, <2>1, <2>2, IncrementShape
  <2>4. Cardinality(Sends(k0, w0)) + 1 <= Cardinality(Sends(k0, w0)')
    BY <1>1, <1>6, <2>1, <2>2, SentAgain
  <2>5. \A k \in Keys, w \in Minutes :
          ~(k = k0 /\ w = w0) => shared'[k][w] = shared[k][w]
    BY <1>5, <1>6, <2>1, <2>2 DEF Increment
  <2> SUFFICES ASSUME NEW k \in Keys, NEW w \in Minutes
               PROVE  shared'[k][w].count <= Cardinality(Sends(k, w)')
    BY DEF SharedBacked
  <2>6. shared[k][w].count <= Cardinality(Sends(k, w))
    BY DEF CauseInv, SharedBacked
  <2>7. CASE k = k0 /\ w = w0
    <3>1. shared'[k][w].count = shared[k][w].count + 1
      BY <2>3, <2>7
    <3>2. Cardinality(Sends(k, w)) + 1 <= Cardinality(Sends(k, w)')
      BY <2>4, <2>7
    <3>3. /\ shared[k][w].count \in Nat /\ shared'[k][w].count \in Nat
          /\ Cardinality(Sends(k, w)) \in Nat /\ Cardinality(Sends(k, w)') \in Nat
      BY <1>4, <1>5
    <3> QED
      BY <2>6, <3>1, <3>2, <3>3
  <2>8. CASE ~(k = k0 /\ w = w0)
    <3>1. shared'[k][w] = shared[k][w] /\ shared[k][w].count \in Nat
      BY <1>5, <2>5, <2>8
    <3>2. /\ Cardinality(Sends(k, w)) <= Cardinality(Sends(k, w)')
          /\ Cardinality(Sends(k, w)) \in Nat /\ Cardinality(Sends(k, w)') \in Nat
      BY <1>2, <1>4
    <3> QED
      BY <2>6, <3>1, <3>2
  <2> QED
    BY <2>7, <2>8
<1>7. SharedBacked'
  <2>1. CASE \A k \in Keys, w \in Minutes : shared'[k][w].count <= shared[k][w].count
    BY <1>2, <1>4, <1>5, <2>1 DEF CauseInv, SharedBacked
  <2>2. CASE \E r \in Requests : RedisAnswers(r) \/ AnswerLost(r)
    BY <1>6, <2>2 DEF RedisAnswers, AnswerLost, Send, InFlight
  <2>3. ASSUME NEW k0 \in Keys, NEW w0 \in Minutes, Expire(k0, w0)
        PROVE  \A k \in Keys, w \in Minutes : shared'[k][w].count <= shared[k][w].count
    BY <1>5, <2>3 DEF Expire
  <2>4. UNCHANGED shared \/ (\E r \in Requests : RedisAnswers(r) \/ AnswerLost(r))
          \/ (\E k0 \in Keys, w0 \in Minutes : Expire(k0, w0))
    BY DEF Next, vars, RequestStep, Arrive, RedisUnreachable, IncrementLocal, Restart, Tick
  <2> QED
    BY <1>5, <2>1, <2>2, <2>3, <2>4
<1>8. ASSUME NEW r \in Requests, IncrementLocal(r)
      PROVE  /\ LocalBacked'
             /\ HasTicket(r)' /\ ticket'[r].number <= Cardinality(Behind(ticket[r].counter)')
  <2>1. PICK s \in Servers : s = at[r].server
    BY <1>8, PlaceShape DEF LInv, IncrementLocal, InFlight
  <2>2. PICK k0 \in Keys : k0 = at[r].key
    BY <1>8, PlaceShape DEF LInv, IncrementLocal, InFlight
  <2>3. PICK c : c = LocalCounter(s, k0, minute)
    OBVIOUS
  <2>4. PICK buckets : buckets = Cleaned(local[s], minute)
    OBVIOUS
  <2>5. PICK n : n = NextCount(buckets[k0], minute)
    OBVIOUS
  <2>6. /\ InFlight(r) /\ Counted(r, c, n) /\ UNCHANGED <<minute, life>>
        /\ local' = [local EXCEPT ![s] = [buckets EXCEPT ![k0] = [window |-> minute, count |-> n]]]
    BY <1>8, <2>1, <2>2, <2>3, <2>4, <2>5 DEF IncrementLocal, InFlight
  <2>7. /\ buckets \in [Keys -> [window : Minutes, count : Nat]] /\ n \in Nat \ {0}
        /\ local \in [Servers -> [Keys -> [window : Minutes, count : Nat]]]
    BY <2>4, <2>5, BucketsShape DEF LInv, TypeOK
  <2>8. /\ local'[s][k0] = [window |-> minute, count |-> n]
        /\ \A k \in Keys \ {k0} : local'[s][k] = buckets[k]
        /\ \A v \in Servers \ {s}, k \in Keys : local'[v][k] = local[v][k]
    BY <2>6, <2>7
  <2>9. \A k \in Keys : buckets[k] = local[s][k] \/ buckets[k].count = 0
    BY <2>4 DEF Cleaned, NoBucket
  <2>10. \A v, k, w : LocalCounter(v, k, w)' = LocalCounter(v, k, w)
    BY <2>6 DEF LocalCounter
  <2>11. n <= Cardinality(CountedOn(c)')
    <3>1. Cardinality(CountedOn(c)) + 1 <= Cardinality(CountedOn(c)')
      BY <1>1, <2>6, <2>7, CountedAgain
    <3>2. n = 1 \/ (local[s][k0].window = minute /\ n = local[s][k0].count + 1)
      BY <2>5, <2>7, <2>9 DEF NextCount
    <3>3. local[s][k0].window = minute => local[s][k0].count <= Cardinality(CountedOn(c))
      BY <2>3 DEF CauseInv, LocalBacked
    <3>4. /\ Cardinality(CountedOn(c)) \in Nat /\ Cardinality(CountedOn(c)') \in Nat
          /\ local[s][k0].count \in Nat
      BY <1>4, <2>7
    <3> QED
      BY <3>1, <3>2, <3>3, <3>4
  <2>12. ASSUME NEW v \in Servers, NEW k \in Keys
         PROVE  local'[v][k].count
                  <= Cardinality(CountedOn(LocalCounter(v, k, local[v][k].window))')
    <3>1. PICK d : d = LocalCounter(v, k, local'[v][k].window)
      OBVIOUS
    <3>2. d = LocalCounter(v, k, local[v][k].window)'
      BY <2>10, <3>1
    <3> SUFFICES local'[v][k].count <= Cardinality(CountedOn(d)')
      BY <3>2
    <3>3. CASE v = s /\ k = k0
      <4>1. local'[v][k].count = n /\ d = c
        BY <2>3, <2>8, <3>1, <3>3
      <4> QED
        BY <2>11, <4>1
    <3>4. CASE local'[v][k].count = 0
      BY <1>4, <3>4
    <3>5. CASE local'[v][k] = local[v][k]
      <4>1. local[v][k].count <= Cardinality(CountedOn(d)) /\ local[v][k].count \in Nat
        BY <2>7, <3>1, <3>5 DEF CauseInv, LocalBacked
      <4>2. /\ Cardinality(CountedOn(d)) <= Cardinality(CountedOn(d)')
            /\ Cardinality(CountedOn(d)) \in Nat /\ Cardinality(CountedOn(d)') \in Nat
        BY <1>2, <1>4
      <4> QED
        BY <3>5, <4>1, <4>2
    <3>6. \/ v = s /\ k = k0
          \/ local'[v][k].count = 0
          \/ local'[v][k] = local[v][k]
      BY <2>8, <2>9
    <3> QED
      BY <3>3, <3>4, <3>5, <3>6
  <2>13. ticket'[r] = [counter |-> c, number |-> n] /\ HasTicket(r)'
    BY <2>6, <2>7 DEF Counted, LInv, TypeOK, HasTicket
  <2>14. c.home # Redis
    BY <2>3 DEF LocalCounter
  <2>15. ticket'[r].number <= Cardinality(Behind(c)')
    BY <2>11, <2>13, <2>14 DEF Behind
  <2>16. LocalBacked'
    BY <2>12 DEF LocalBacked
  <2>17. c = (ticket[r].counter)'
    BY <2>13
  <2> QED
    BY <2>13, <2>15, <2>16, <2>17
<1>9. LocalBacked'
  <2>1. CASE UNCHANGED <<local, life>>
    <3>1. \A v, k, w : LocalCounter(v, k, w)' = LocalCounter(v, k, w)
      BY <2>1 DEF LocalCounter
    <3> SUFFICES ASSUME NEW v \in Servers, NEW k \in Keys
                 PROVE  local'[v][k].count
                          <= Cardinality(CountedOn(LocalCounter(v, k, local[v][k].window))')
      BY DEF LocalBacked
    <3>2. PICK d : d = LocalCounter(v, k, local[v][k].window)
      OBVIOUS
    <3>3. d = LocalCounter(v, k, local[v][k].window)'
      BY <2>1, <3>1, <3>2
    <3>4. local[v][k].count <= Cardinality(CountedOn(d)) /\ local[v][k].count \in Nat
      BY <3>2 DEF CauseInv, LocalBacked, LInv, TypeOK
    <3>5. /\ Cardinality(CountedOn(d)) <= Cardinality(CountedOn(d)')
          /\ Cardinality(CountedOn(d)) \in Nat /\ Cardinality(CountedOn(d)') \in Nat
      BY <1>2, <1>4
    <3>6. local'[v][k].count <= Cardinality(CountedOn(d)')
      BY <2>1, <3>4, <3>5
    <3> QED
      BY <3>3, <3>6
  <2>2. ASSUME NEW s \in Servers, Restart(s)
        PROVE  LocalBacked'
    <3>1. /\ life' = [life EXCEPT ![s] = @ + 1]
          /\ local' = [local EXCEPT ![s] = [k \in Keys |-> NoBucket]]
      BY <2>2 DEF Restart
    <3>2. life \in [Servers -> 0..MaxRestarts]
          /\ local \in [Servers -> [Keys -> [window : Minutes, count : Nat]]]
      BY DEF LInv, TypeOK
    <3> SUFFICES ASSUME NEW v \in Servers, NEW k \in Keys
                 PROVE  local'[v][k].count
                          <= Cardinality(CountedOn(LocalCounter(v, k, local[v][k].window))')
      BY DEF LocalBacked
    <3>3. PICK d : d = LocalCounter(v, k, local[v][k].window)'
      OBVIOUS
    <3>4. CASE v = s
      <4>1. local'[v][k].count = 0
        BY <3>1, <3>2, <3>4 DEF NoBucket
      <4>2. local'[v][k].count <= Cardinality(CountedOn(d)')
        BY <1>4, <4>1
      <4> QED
        BY <3>3, <4>2
    <3>5. CASE v # s
      <4>1. local'[v] = local[v] /\ life'[v] = life[v]
        BY <3>1, <3>2, <3>5
      <4>2. d = LocalCounter(v, k, local[v][k].window)
        BY <3>3, <4>1 DEF LocalCounter
      <4>3. local[v][k].count <= Cardinality(CountedOn(d)) /\ local[v][k].count \in Nat
        BY <3>2, <4>2 DEF CauseInv, LocalBacked
      <4>4. /\ Cardinality(CountedOn(d)) <= Cardinality(CountedOn(d)')
            /\ Cardinality(CountedOn(d)) \in Nat /\ Cardinality(CountedOn(d)') \in Nat
        BY <1>2, <1>4
      <4>5. local'[v][k].count <= Cardinality(CountedOn(d)')
        BY <4>1, <4>3, <4>4
      <4> QED
        BY <3>3, <4>5
    <3> QED
      BY <3>4, <3>5
  <2>3. \/ UNCHANGED <<local, life>>
        \/ \E s \in Servers : Restart(s)
        \/ \E r \in Requests : IncrementLocal(r)
    BY DEF Next, vars, RequestStep, Arrive, RedisAnswers, AnswerLost, RedisUnreachable,
           Expire, Tick
  <2> QED
    BY <1>8, <2>1, <2>2, <2>3
<1>10. ASSUME NEW r \in Requests, RedisAnswers(r)
       PROVE  HasTicket(r)' /\ ticket'[r].number <= Cardinality(Behind(ticket[r].counter)')
  <2>1. PICK k0 \in Keys : k0 = at[r].key
    BY <1>10, PlaceShape DEF LInv, RedisAnswers, Send, InFlight
  <2>2. PICK w0 \in Minutes : w0 = at[r].window
    BY <1>10, PlaceShape DEF LInv, RedisAnswers, Send, InFlight
  <2>3. PICK c : c = SharedCounter(r)
    OBVIOUS
  <2>4. PICK n : n = shared[k0][w0].count + 1
    OBVIOUS
  <2>5. Counted(r, c, n) /\ Increment(r) /\ InFlight(r)
    BY <1>10, <2>1, <2>2, <2>3, <2>4 DEF RedisAnswers, Send, InFlight
  <2>6. n = shared'[k0][w0].count /\ n \in Nat \ {0}
    <3>1. shared'[k0][w0].count = shared[k0][w0].count + 1
      BY <2>1, <2>2, <2>5, IncrementShape
    <3>2. shared[k0][w0].count \in Nat
      BY <1>5
    <3> QED
      BY <2>4, <3>1, <3>2
  <2>7. n <= Cardinality(Sends(k0, w0)')
    BY <1>7, <2>6 DEF SharedBacked
  <2>8. ticket'[r] = [counter |-> c, number |-> n] /\ HasTicket(r)'
    BY <2>5, <2>6 DEF Counted, LInv, TypeOK, HasTicket
  <2>9. c.home = Redis /\ c.key = k0 /\ c.window = w0
    BY <2>1, <2>2, <2>3 DEF SharedCounter
  <2>10. ticket'[r].number <= Cardinality(Behind(c)')
    BY <2>7, <2>8, <2>9 DEF Behind
  <2>11. c = (ticket[r].counter)'
    BY <2>8
  <2> QED
    BY <2>8, <2>10, <2>11
<1>11. NumbersBacked'
  <2> SUFFICES ASSUME NEW q \in Requests, HasTicket(q)'
               PROVE  ticket'[q].number <= Cardinality(Behind(ticket[q].counter)')
    BY DEF NumbersBacked
  <2>1. CASE HasTicket(q)
    <3>1. PICK c : c = ticket[q].counter
      OBVIOUS
    <3>2. ticket[q].number <= Cardinality(Behind(c)) /\ ticket[q].number \in Nat
      BY <1>5, <2>1, <3>1 DEF CauseInv, NumbersBacked
    <3>3. /\ Cardinality(Behind(c)) <= Cardinality(Behind(c)')
          /\ Cardinality(Behind(c)) \in Nat /\ Cardinality(Behind(c)') \in Nat
      BY <1>2, <1>4
    <3>4. ticket'[q] = ticket[q]
      BY <1>1, <2>1 DEF Keeps
    <3>5. c = (ticket[q].counter)' /\ ticket'[q].number <= Cardinality(Behind(c)')
      BY <3>1, <3>2, <3>3, <3>4
    <3> QED
      BY <3>5
  <2>2. CASE ~HasTicket(q)
    <3>1. ticket'[q] # ticket[q]
      BY <2>2 DEF HasTicket
    <3>2. RedisAnswers(q) \/ IncrementLocal(q)
      BY <3>1 DEF LInv, TypeOK, Next, vars, RequestStep, Arrive, RedisAnswers, AnswerLost,
                  RedisUnreachable, IncrementLocal, Counted, Expire, Restart, Tick
    <3> QED
      BY <1>8, <1>10, <3>2
  <2> QED
    BY <2>1, <2>2
<1>12. RefusedOver'
  <2> SUFFICES ASSUME NEW q \in Requests, pc'[q] = "refused"
               PROVE  HasTicket(q)' /\ Limit < ticket'[q].number
    BY DEF RefusedOver
  <2>1. CASE pc[q] = "refused"
    BY <1>1, <2>1 DEF Keeps, CauseInv, RefusedOver
  <2>2. CASE pc[q] # "refused"
    <3>1. ASSUME NEW r \in Requests, Arrive(r) \/ AnswerLost(r) \/ RedisUnreachable(r)
          PROVE  FALSE
      <4>1. \E phase \in {"redis", "fallback"} : pc' = pc \/ pc' = [pc EXCEPT ![r] = phase]
        BY <3>1 DEF Arrive, AnswerLost, RedisUnreachable, Unanswered, Goto
      <4> QED
        BY <2>2, <4>1 DEF LInv, TypeOK
    <3>2. ASSUME NEW s \in Servers, Restart(s)
          PROVE  FALSE
      BY <2>2, <3>2 DEF Restart
    <3>3. pc' # pc
      BY <2>2
    <3>4. PICK r \in Requests : RedisAnswers(r) \/ IncrementLocal(r)
      BY <3>1, <3>2, <3>3 DEF Next, vars, RequestStep, Expire, Tick
    <3>5. q = r
      BY <2>2, <3>4 DEF RedisAnswers, IncrementLocal, Counted, Goto, LInv, TypeOK
    <3>6. RedisAnswers(q) \/ IncrementLocal(q)
      BY <3>4, <3>5
    <3>7. HasTicket(q)'
      BY <1>8, <1>10, <3>6
    <3>8. PICK c, n : Counted(q, c, n)
      BY <3>6 DEF RedisAnswers, IncrementLocal
    <3>9. ticket'[q].number = n /\ OverLimit(n)
      BY <3>8 DEF Counted, Goto, LInv, TypeOK
    <3> QED
      BY <3>7, <3>9 DEF OverLimit
  <2> QED
    BY <2>1, <2>2
<1> QED
  BY <1>1, <1>7, <1>9, <1>11, <1>12 DEF CauseInv

\* A request is refused only when more than Limit counts of its key and minute
\* stand behind it, for any number of processes, keys, requests, minutes,
\* restarts and resends, and whatever is lost on the way to Redis and back.
THEOREM RefusedForCause == Spec => []RefusalHasCause
<1>1. Init => CauseInv
  <2> SUFFICES ASSUME Init PROVE CauseInv
    OBVIOUS
  <2>1. FewBegun
    <3>1. Begun = {}
      BY DEF Init, Begun
    <3> QED
      BY <3>1, FS_EmptySet DEF Init, FewBegun, CountedOnce, HasTicket, NoTicket
  <2>2. /\ \A c : Cardinality(CountedOn(c)) \in Nat
        /\ \A k, w : Cardinality(Sends(k, w)) \in Nat
    BY <2>1, BehindIsFinite DEF FewBehind
  <2>3. SharedBacked
    BY <2>2 DEF Init, SharedBacked
  <2>4. LocalBacked
    BY <2>2 DEF Init, LocalBacked, NoBucket
  <2>5. NumbersBacked /\ RefusedOver
    BY DEF Init, NumbersBacked, RefusedOver, HasTicket, NoTicket
  <2> QED
    BY <2>1, <2>3, <2>4, <2>5 DEF CauseInv
<1>2. LInv /\ LInv' /\ CauseInv /\ [Next]_vars => CauseInv'
  BY CauseStep
<1>3. LInv /\ CauseInv => RefusalHasCause
  <2> SUFFICES ASSUME LInv, CauseInv, NEW r \in Requests, pc[r] = "refused"
               PROVE  Limit < Cardinality(Behind(ticket[r].counter))
    BY DEF RefusalHasCause
  <2>1. HasTicket(r) /\ Limit < ticket[r].number /\ ticket[r].number \in Nat
    BY TicketShape DEF CauseInv, RefusedOver, LInv
  <2>2. ticket[r].number <= Cardinality(Behind(ticket[r].counter))
    BY <2>1 DEF CauseInv, NumbersBacked
  <2>3. Cardinality(Behind(ticket[r].counter)) \in Nat
    <3>1. FewBehind
      BY BehindIsFinite DEF CauseInv
    <3> QED
      BY <3>1 DEF FewBehind, Behind
  <2> QED
    BY <2>1, <2>2, <2>3
<1> QED
  BY <1>1, <1>2, <1>3, Counting, PTL DEF Spec
=============================================================================
