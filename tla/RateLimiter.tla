---------------------------- MODULE RateLimiter -----------------------------
(***************************************************************************)
(* backend/internal/middleware/ratelimit.go: the limiter in front of every *)
(* /api endpoint but the login.  A request is counted in Redis, under its  *)
(* key and the minute; when Redis cannot say, in a map of its process.     *)
(*                                                                         *)
(* A minute is one value of `minute'.  The code reads the clock again      *)
(* before it counts in memory, so a request that came in in one minute may *)
(* be counted in the next.                                                 *)
(***************************************************************************)
EXTENDS Naturals, FiniteSets

CONSTANTS
  Servers,      \* backend processes that share one Redis
  Keys,         \* c.ClientIP() + ":" + c.FullPath()
  Requests,     \* the requests made; a repeated call is another one
  Redis,        \* the home of the shared counters, not a server
  RedisEnabled, \* REDIS_ADDR is set
  Limit,        \* REQUEST_LIMIT
  CleanupAt,    \* the number of buckets from which old ones are dropped (512)
  Resends,      \* how often the Redis client sends a failed transaction again
  MaxMinute,    \* bound on the clock
  MaxRestarts   \* bound on the restarts of one server

ASSUME RateLimiterAssumption ==
  /\ Redis \notin Servers /\ RedisEnabled \in BOOLEAN
  /\ Limit \in Nat \ {0} /\ CleanupAt \in Nat /\ Resends \in Nat
  /\ MaxMinute \in Nat /\ MaxRestarts \in Nat

Minutes  == 0..MaxMinute
Counters == [home : Servers \cup {Redis}, life : 0..MaxRestarts,
             key : Keys, window : Minutes]

Arrival == [server : Servers, key : Keys, window : Minutes]
Ticket  == [counter : Counters, number : Nat \ {0}]

VARIABLES
  minute,  \* time.Now().UTC().Truncate(time.Minute)
  shared,  \* shared[k][w]: the Redis counter "rate:w:k" and when it expires
  local,   \* local[s][k]: the bucket of key k in process s; count 0 is no entry
  life,    \* life[s]: how often s was restarted
  pc,      \* pc[r]: where request r is in Middleware
  at,      \* at[r]: where it arrived, and the minute in its Redis key
  sent,    \* sent[r]: how often its transaction was sent
  ticket   \* ticket[r]: the counter that counted it, and the count it got

vars == <<minute, shared, local, life, pc, at, sent, ticket>>

NoBucket == [window |-> 0, count |-> 0]
Nowhere  == [server |-> Redis]
NoTicket == [number |-> 0]

Init ==
  /\ minute = 0
  /\ shared = [k \in Keys |-> [w \in Minutes |-> [count |-> 0, until |-> 0]]]
  /\ local = [s \in Servers |-> [k \in Keys |-> NoBucket]]
  /\ life = [s \in Servers |-> 0]
  /\ pc = [r \in Requests |-> "new"]
  /\ at = [r \in Requests |-> Nowhere]
  /\ sent = [r \in Requests |-> 0]
  /\ ticket = [r \in Requests |-> NoTicket]

Goto(r, phase) == pc' = [pc EXCEPT ![r] = phase]

\* Mutant: the limit itself is passed by one.
OverLimitByTwo(number) == number > Limit + 1

OverLimit(number) == number > Limit

\* The request got its count from counter c: it goes on, or is answered 429.
Counted(r, c, number) ==
  /\ ticket' = [ticket EXCEPT ![r] = [counter |-> c, number |-> number]]
  /\ Goto(r, IF OverLimit(number) THEN "refused" ELSE "admitted")

(***************************************************************************)
(* increment: one MULTI with INCR and EXPIRE, under a key that names the   *)
(* minute the request came in.                                             *)
(***************************************************************************)
Arrive(r) ==
  /\ pc[r] = "new"
  /\ \E s \in Servers, k \in Keys :
       at' = [at EXCEPT ![r] = [server |-> s, key |-> k, window |-> minute]]
  /\ Goto(r, IF RedisEnabled THEN "redis" ELSE "fallback")
  /\ UNCHANGED <<minute, shared, local, life, sent, ticket>>

SharedCounter(r) ==
  [home |-> Redis, life |-> 0, key |-> at[r].key, window |-> at[r].window]

\* Mutant: the counter expires with its minute.
ShortExpiry == 1

\* EXPIRE redisKey 2m, in minutes begun.
Expiry == 2

Increment(r) ==
  shared' = [shared EXCEPT ![at[r].key][at[r].window] =
               [count |-> @.count + 1, until |-> minute + Expiry]]

\* Mutant: an error of Exec is not handled, the request neither counted nor answered.
UnansweredDropped(r) == IF sent[r] < Resends THEN UNCHANGED pc ELSE Goto(r, "dropped")

\* Exec gave no answer: the client sends the transaction again, and in the end
\* reports an error, upon which Middleware counts in memory.
Unanswered(r) == IF sent[r] < Resends THEN UNCHANGED pc ELSE Goto(r, "fallback")

Send(r) == pc[r] = "redis" /\ sent' = [sent EXCEPT ![r] = @ + 1]

\* Redis executes the transaction.  The timeouts of the client end an attempt
\* well within a minute of the one its key names.
RedisAnswers(r) ==
  /\ Send(r)
  /\ minute <= at[r].window + 1
  /\ Increment(r)
  /\ Counted(r, SharedCounter(r), shared[at[r].key][at[r].window].count + 1)
  /\ UNCHANGED <<minute, local, life, at>>

\* It executes the transaction, and its answer is lost.
AnswerLost(r) ==
  /\ Send(r)
  /\ minute <= at[r].window + 1
  /\ Increment(r)
  /\ Unanswered(r)
  /\ UNCHANGED <<minute, local, life, at, ticket>>

\* The transaction does not reach it.
RedisUnreachable(r) ==
  /\ Send(r)
  /\ Unanswered(r)
  /\ UNCHANGED <<minute, shared, local, life, at, ticket>>

(***************************************************************************)
(* incrementLocal, under the limiter's mutex, which it holds when it reads *)
(* the clock.                                                              *)
(***************************************************************************)
Tracked(buckets) == {k \in Keys : buckets[k].count > 0}

\* Mutants: no cleaning; every bucket cleaned.
NeverCleaned(buckets, now) == buckets
CleanedWhole(buckets, now) ==
  [k \in Keys |-> IF Cardinality(Tracked(buckets)) >= CleanupAt THEN NoBucket ELSE buckets[k]]

\* cleanupLocal: at CleanupAt buckets or more, those of earlier minutes go.
Cleaned(buckets, now) ==
  [k \in Keys |-> IF Cardinality(Tracked(buckets)) >= CleanupAt /\ buckets[k].window < now
                  THEN NoBucket ELSE buckets[k]]

\* Mutant: a bucket of an earlier minute is counted on.
NextCountKept(bucket, now) == bucket.count + 1

NextCount(bucket, now) == IF bucket.window = now THEN bucket.count + 1 ELSE 1

LocalCounter(s, k, w) == [home |-> s, life |-> life[s], key |-> k, window |-> w]

IncrementLocal(r) ==
  LET s == at[r].server
      k == at[r].key
      buckets == Cleaned(local[s], minute)
      number  == NextCount(buckets[k], minute)
  IN
  /\ pc[r] = "fallback"
  /\ local' = [local EXCEPT ![s] =
                 [buckets EXCEPT ![k] = [window |-> minute, count |-> number]]]
  /\ Counted(r, LocalCounter(s, k, minute), number)
  /\ UNCHANGED <<minute, shared, life, at, sent>>

RequestStep(r) ==
  \/ Arrive(r)
  \/ RedisAnswers(r) \/ AnswerLost(r) \/ RedisUnreachable(r)
  \/ IncrementLocal(r)

(***************************************************************************)
(* The environment.                                                        *)
(***************************************************************************)
Tick ==
  /\ minute < MaxMinute
  /\ minute' = minute + 1
  /\ UNCHANGED <<shared, local, life, pc, at, sent, ticket>>

\* Redis drops a counter once its time to live has run out.
Expire(k, w) ==
  /\ shared[k][w].count > 0 /\ shared[k][w].until <= minute
  /\ shared' = [shared EXCEPT ![k][w].count = 0]
  /\ UNCHANGED <<minute, local, life, pc, at, sent, ticket>>

InFlight(r) == pc[r] \in {"redis", "fallback"}

\* A process dies and is started again: its map is lost, and its requests.
Restart(s) ==
  /\ life[s] < MaxRestarts
  /\ life' = [life EXCEPT ![s] = @ + 1]
  /\ local' = [local EXCEPT ![s] = [k \in Keys |-> NoBucket]]
  /\ pc' = [r \in Requests |-> IF InFlight(r) /\ at[r].server = s THEN "lost" ELSE pc[r]]
  /\ UNCHANGED <<minute, shared, at, sent, ticket>>

Next ==
  \/ \E r \in Requests : RequestStep(r)
  \/ \E k \in Keys, w \in Minutes : Expire(k, w)
  \/ \E s \in Servers : Restart(s)
  \/ Tick

Spec == Init /\ [][Next]_vars

-----------------------------------------------------------------------------
HasTicket(r) == ticket[r].number > 0

AdmittedBy(c) == {r \in Requests : pc[r] = "admitted" /\ ticket[r].counter = c}

\* Every variable has its type (the fields of Limiter and bucket, the locals of
\* Middleware).
TypeOK ==
  /\ minute \in Minutes
  /\ shared \in [Keys -> [Minutes -> [count : Nat, until : Nat]]]
  /\ local \in [Servers -> [Keys -> [window : Minutes, count : Nat]]]
  /\ life \in [Servers -> 0..MaxRestarts]
  /\ pc \in [Requests -> {"new", "redis", "fallback", "admitted", "refused", "lost"}]
  /\ at \in [Requests -> Arrival \cup {Nowhere}]
  /\ sent \in [Requests -> 0..(Resends + 1)]
  /\ ticket \in [Requests -> Ticket \cup {NoTicket}]

\* The quota of a counter: whatever Redis, the network and the restarts do, no
\* more than Limit requests get through on one Redis counter, nor on one bucket
\* of one process.  A counter that forgets while requests can still be counted
\* on it would let more through.
QuotaPerCounter == \A c \in Counters : Cardinality(AdmittedBy(c)) <= Limit

\* What is left of the limit for the whole service: per key and minute, the
\* limit once for Redis and once for each life of each process.
QuotaPerMinute ==
  \A k \in Keys, w \in Minutes :
    Cardinality({r \in Requests : /\ pc[r] = "admitted"
                                  /\ ticket[r].counter.key = k /\ ticket[r].counter.window = w})
      <= Limit * (1 + Cardinality({l \in Servers \X (0..MaxRestarts) : l[2] <= life[l[1]]}))

\* The requests that counter c counted, and the times a request was sent to be
\* counted in Redis under a key and minute.
CountedOn(c) == {q \in Requests : HasTicket(q) /\ ticket[q].counter = c}

Sends(k, w) ==
  {t \in Requests \X (1..(Resends + 1)) :
     /\ pc[t[1]] # "new" /\ at[t[1]].key = k /\ at[t[1]].window = w
     /\ t[2] <= sent[t[1]]}

\* What the numbers of counter c count.
Behind(c) == IF c.home = Redis THEN Sends(c.key, c.window) ELSE CountedOn(c)

\* Nobody is refused for nothing: behind a refusal are more than Limit counts of
\* the same key and minute.  In memory each is another request; in Redis each is
\* another time that one was sent, so that lost answers do use up the quota.
RefusalHasCause ==
  \A r \in Requests :
    pc[r] = "refused" => Limit < Cardinality(Behind(ticket[r].counter))

\* The map of a process outgrows CleanupAt only with buckets of one minute: what
\* earlier minutes left does not add up.
TrackedBounded ==
  \A s \in Servers :
    \/ Cardinality(Tracked(local[s])) <= CleanupAt
    \/ \A j, k \in Tracked(local[s]) : local[s][j].window = local[s][k].window

\* Forgetting how requests are counted, the limiter is a set of quotas.
Granted(r) == IF pc[r] = "admitted" THEN ticket[r].counter ELSE Nowhere

Abstract == INSTANCE Quota
              WITH None <- Nowhere, granted <- [q \in Requests |-> Granted(q)]
ImplementsQuota == Abstract!Spec

\* README: the limit is distributed, one for all processes.
DistributedLimit ==
  \A k \in Keys, w \in Minutes :
    Cardinality({r \in Requests : /\ pc[r] = "admitted"
                                  /\ ticket[r].counter.key = k /\ ticket[r].counter.window = w})
      <= Limit
=============================================================================
