---------------------------- MODULE StartupProofs ---------------------------
(***************************************************************************)
(* The seed is whole, sown once and there before a process serves, for     *)
(* every number of processes and tables, and every environment.            *)
(*                                                                         *)
(* The argument: the tables a starting process is past exist, or are       *)
(* seeded; no step of any process undoes that; and live records of another *)
(* origin exist only in seeded tables, so that a table Seed skips is one.  *)
(***************************************************************************)
EXTENDS Startup, TLAPS

-----------------------------------------------------------------------------
(* The inductive invariant.                                                *)

\* What process s has seen to, where it is in its start.
Prepared(s) ==
  /\ phase[s] \notin {"load", "exited", "stopped"} => Valid(Settings(environ[s]))
  /\ phase[s] \in {"migrate", "create"} =>
       \A i \in 1..(step[s] - 1) : Tables[i] \in schema
  /\ phase[s] \in {"seed", "insert"} =>
       schema = TableNames /\ \A i \in 1..(step[s] - 1) : Seeded(Tables[i])
  /\ phase[s] \in {"redis"} \cup Running =>
       schema = TableNames /\ \A t \in TableNames : Seeded(t)

\* Requests add records only to seeded tables.
OwnAfterSeed == \A t \in own : Seeded(t)

SInv == TypeOK /\ SeedIsWhole /\ OwnAfterSeed /\ \A s \in Instances : Prepared(s)

-----------------------------------------------------------------------------
(* Lemmas on the operators of a step.                                      *)

USE StartupAssumption

\* The tables are named by the numbers up to their count.
LEMMA TablesShape ==
  /\ Len(Tables) \in Nat \ {0} /\ DOMAIN Tables = 1..Len(Tables)
  /\ \A i \in 1..Len(Tables) : Tables[i] \in TableNames
  /\ \A t \in TableNames : \E i \in 1..Len(Tables) : t = Tables[i]
BY DEF TableNames

\* The initial state satisfies the invariant.
LEMMA InvInit == Init => SInv
<1> SUFFICES ASSUME Init PROVE SInv
  OBVIOUS
<1>1. TypeOK
  BY DEF Init, TypeOK, Starting
<1>2. SeedIsWhole /\ OwnAfterSeed
  BY DEF Init, SeedIsWhole, OwnAfterSeed
<1>3. ASSUME NEW s \in Instances PROVE Prepared(s)
  BY DEF Init, Prepared, Running
<1> QED
  BY <1>1, <1>2, <1>3 DEF SInv

\* A process that did not move stays prepared while the database only gains.
LEMMA StaysPrepared ==
  ASSUME SInv, NEW q \in Instances,
         schema \subseteq schema', schema' \subseteq TableNames,
         \A t \in TableNames : Seeded(t) => Seeded(t)',
         environ' = environ, phase'[q] = phase[q], step'[q] = step[q]
  PROVE  Prepared(q)'
<1>1. Prepared(q) /\ TypeOK
  BY DEF SInv
<1>2. phase[q] \in {"migrate", "create", "seed", "insert"} =>
        step[q] \in 1..Len(Tables) /\ \A i \in 1..(step[q] - 1) : Tables[i] \in TableNames
  BY <1>1, TablesShape DEF TypeOK
<1> QED
  BY <1>1, <1>2 DEF Prepared

\* Going on moves one process, to a phase and a step of the type.
LEMMA GoShape ==
  ASSUME TypeOK, NEW s \in Instances, NEW next, NEW n \in Nat, Go(s, next, n),
         next \in Starting \cup Running \cup {"exited", "stopped"},
         next = "connect" => n \in 1..MaxAttempts,
         next \in {"migrate", "create", "seed", "insert"} => n \in DOMAIN Tables
  PROVE  /\ phase'[s] = next /\ step'[s] = n
         /\ \A q \in Instances \ {s} : phase'[q] = phase[q] /\ step'[q] = step[q]
         /\ phase' \in [Instances -> Starting \cup Running \cup {"exited", "stopped"}]
         /\ step' \in [Instances -> Nat]
         /\ \A q \in Instances :
              /\ phase'[q] = "connect" => step'[q] \in 1..MaxAttempts
              /\ phase'[q] \in {"migrate", "create", "seed", "insert"} => step'[q] \in DOMAIN Tables
<1>1. phase' = [phase EXCEPT ![s] = next] /\ step' = [step EXCEPT ![s] = n]
  BY DEF Go
<1>2. /\ phase'[s] = next /\ step'[s] = n
      /\ \A q \in Instances \ {s} : phase'[q] = phase[q] /\ step'[q] = step[q]
      /\ phase' \in [Instances -> Starting \cup Running \cup {"exited", "stopped"}]
      /\ step' \in [Instances -> Nat]
  BY <1>1 DEF TypeOK
<1> QED
  BY <1>2 DEF TypeOK

\* What a step does to the rest of the state when it only adds to what processes
\* have seen to.
Keeping ==
  /\ environ' = environ
  /\ busy' \in [Instances -> BOOLEAN]
  /\ schema \subseteq schema' /\ schema' \subseteq TableNames /\ own' \subseteq TableNames
  /\ rows' \in [TableNames -> [SeedRows -> {"absent", "live", "deleted"}]]
  /\ \A t \in TableNames : Seeded(t) => Seeded(t)'
  /\ SeedIsWhole' /\ OwnAfterSeed'
  /\ up' \subseteq {"db", "redis"} /\ deaths' \in 0..MaxDeaths /\ stops' \in 0..MaxStops

\* Leaving the database alone is such a step.
LEMMA KeepingQuietly ==
  ASSUME SInv, UNCHANGED <<schema, rows, own, environ>>,
         busy' \in [Instances -> BOOLEAN],
         up' \subseteq {"db", "redis"}, deaths' \in 0..MaxDeaths, stops' \in 0..MaxStops
  PROVE  Keeping
BY DEF SInv, Keeping, TypeOK, SeedIsWhole, OwnAfterSeed, Seeded

\* So is leaving everything alone but the phases.
LEMMA KeepingAll ==
  ASSUME SInv, UNCHANGED <<busy, schema, rows, own, environ, up, deaths, stops>>
  PROVE  Keeping
BY KeepingQuietly DEF SInv, TypeOK

\* A step that moves one process keeps the invariant if that process is prepared
\* for its next phase.
LEMMA MoveOn ==
  ASSUME SInv, Keeping, NEW s \in Instances, NEW next, NEW n \in Nat, Go(s, next, n),
         next \in Starting \cup Running \cup {"exited", "stopped"},
         next = "connect" => n \in 1..MaxAttempts,
         next \in {"migrate", "create", "seed", "insert"} => n \in DOMAIN Tables,
         Prepared(s)'
  PROVE  SInv'
<1>1. TypeOK
  BY DEF SInv
<1>2. TypeOK'
  BY <1>1, GoShape DEF TypeOK, Keeping
<1>3. SeedIsWhole' /\ OwnAfterSeed'
  BY DEF Keeping
<1>4. ASSUME NEW q \in Instances \ {s} PROVE Prepared(q)'
  <2>1. phase'[q] = phase[q] /\ step'[q] = step[q]
    BY <1>1, GoShape
  <2> QED
    BY <2>1, StaysPrepared DEF Keeping
<1> QED
  BY <1>2, <1>3, <1>4 DEF SInv

\* A step that moves no process keeps the invariant.
LEMMA StayPut ==
  ASSUME SInv, Keeping, UNCHANGED <<phase, step>>
  PROVE  SInv'
<1>1. TypeOK'
  BY DEF SInv, TypeOK, Keeping
<1>2. ASSUME NEW q \in Instances PROVE Prepared(q)'
  BY StaysPrepared DEF Keeping
<1> QED
  BY <1>1, <1>2 DEF SInv, Keeping

\* A process that ends, or starts over, needs nothing.
LEMMA Resting ==
  ASSUME SInv, Keeping, NEW s \in Instances, NEW next \in {"load", "exited", "stopped"},
         Go(s, next, 0)
  PROVE  SInv'
<1>1. phase'[s] = next
  BY GoShape DEF SInv, Starting
<1>2. Prepared(s)'
  BY <1>1 DEF Prepared, Running
<1> QED
  BY <1>2, MoveOn DEF Starting

\* The process is done with a table: it is prepared for the next one, or for the
\* phase after the last.
LEMMA TableDone ==
  ASSUME SInv, Keeping, NEW s \in Instances, phase[s] \in {"migrate", "create", "seed", "insert"},
         \/ /\ NextTable(s, "migrate", "seed")
            /\ \A i \in 1..step[s] : Tables[i] \in schema'
         \/ /\ NextTable(s, "seed", "redis")
            /\ schema' = TableNames /\ \A i \in 1..step[s] : Seeded(Tables[i])'
  PROVE  SInv'
<1>1. /\ step[s] \in 1..Len(Tables) /\ step[s] + 1 \in Nat /\ Len(Tables) \in Nat \ {0}
      /\ DOMAIN Tables = 1..Len(Tables)
  BY TablesShape DEF SInv, TypeOK
<1>2. Valid(Settings(environ[s])) /\ environ' = environ
  BY DEF SInv, Prepared, Keeping
<1>3. CASE step[s] < Len(Tables)
  <2>1. step[s] + 1 \in DOMAIN Tables /\ 1..((step[s] + 1) - 1) = 1..step[s]
    BY <1>1, <1>3
  <2>2. CASE NextTable(s, "migrate", "seed") /\ \A i \in 1..step[s] : Tables[i] \in schema'
    <3>1. Go(s, "migrate", step[s] + 1)
      BY <1>3, <2>2 DEF NextTable
    <3>2. phase'[s] = "migrate" /\ step'[s] = step[s] + 1
      BY <1>1, <2>1, <3>1, GoShape DEF SInv, Starting
    <3>3. Prepared(s)'
      BY <1>2, <2>1, <2>2, <3>2 DEF Prepared, Running
    <3> QED
      BY <1>1, <2>1, <3>1, <3>3, MoveOn DEF Starting
  <2>3. CASE /\ NextTable(s, "seed", "redis")
             /\ schema' = TableNames /\ \A i \in 1..step[s] : Seeded(Tables[i])'
    <3>1. Go(s, "seed", step[s] + 1)
      BY <1>3, <2>3 DEF NextTable
    <3>2. phase'[s] = "seed" /\ step'[s] = step[s] + 1
      BY <1>1, <2>1, <3>1, GoShape DEF SInv, Starting
    <3>3. Prepared(s)'
      BY <1>2, <2>1, <2>3, <3>2 DEF Prepared, Running
    <3> QED
      BY <1>1, <2>1, <3>1, <3>3, MoveOn DEF Starting
  <2> QED
    BY <2>2, <2>3
<1>4. CASE ~(step[s] < Len(Tables))
  <2>1. step[s] = Len(Tables) /\ 1 \in DOMAIN Tables
    BY <1>1, <1>4
  <2>2. CASE NextTable(s, "migrate", "seed") /\ \A i \in 1..step[s] : Tables[i] \in schema'
    <3>1. Go(s, "seed", 1)
      BY <1>4, <2>2 DEF NextTable
    <3>2. phase'[s] = "seed" /\ step'[s] = 1
      BY <2>1, <3>1, GoShape DEF SInv, Starting
    <3>3. schema' = TableNames
      <4>1. schema' \subseteq TableNames
        BY DEF Keeping
      <4>2. \A t \in TableNames : t \in schema'
        BY <2>1, <2>2, TablesShape
      <4> QED
        BY <4>1, <4>2
    <3>4. Prepared(s)'
      BY <1>2, <3>2, <3>3 DEF Prepared, Running
    <3> QED
      BY <2>1, <3>1, <3>4, MoveOn DEF Starting
  <2>3. CASE /\ NextTable(s, "seed", "redis")
             /\ schema' = TableNames /\ \A i \in 1..step[s] : Seeded(Tables[i])'
    <3>1. Go(s, "redis", 1)
      BY <1>4, <2>3 DEF NextTable
    <3>2. phase'[s] = "redis"
      BY <3>1, GoShape DEF SInv, Starting
    <3>3. \A t \in TableNames : Seeded(t)'
      BY <2>1, <2>3, TablesShape
    <3>4. Prepared(s)'
      BY <1>2, <2>3, <3>2, <3>3 DEF Prepared, Running
    <3> QED
      BY <3>1, <3>4, MoveOn DEF Starting
  <2> QED
    BY <2>2, <2>3
<1> QED
  BY <1>3, <1>4

-----------------------------------------------------------------------------
(* One lemma per action.                                                   *)

\* A process loads its configuration, and goes on only with a valid one.
LEMMA LoadConfigStep ==
  ASSUME SInv, NEW s \in Instances, LoadConfig(s)
  PROVE  SInv'
<1>1. Keeping
  BY KeepingAll DEF LoadConfig, database, outside
<1>2. CASE Valid(Settings(environ[s]))
  <2>1. Go(s, "connect", 1)
    BY <1>2 DEF LoadConfig
  <2>2. phase'[s] = "connect"
    BY <2>1, GoShape DEF SInv, Starting
  <2>3. Prepared(s)'
    BY <1>1, <1>2, <2>2 DEF Prepared, Keeping, Running
  <2> QED
    BY <1>1, <2>1, <2>3, MoveOn DEF Starting
<1>3. CASE ~Valid(Settings(environ[s]))
  BY <1>1, <1>3, Resting DEF LoadConfig, Exit
<1> QED
  BY <1>2, <1>3

\* A process connects, tries again or gives up.
LEMMA ConnectStep ==
  ASSUME SInv, NEW s \in Instances, Connect(s)
  PROVE  SInv'
<1>1. Keeping
  BY KeepingAll DEF Connect, database, outside
<1>2. Valid(Settings(environ[s])) /\ environ' = environ /\ step[s] \in 1..MaxAttempts
  BY <1>1 DEF Connect, SInv, Prepared, TypeOK, Keeping
<1>3. CASE Go(s, "migrate", 1)
  <2>1. 1 \in DOMAIN Tables
    BY TablesShape
  <2>2. phase'[s] = "migrate" /\ step'[s] = 1
    BY <1>3, <2>1, GoShape DEF SInv, Starting
  <2>3. Prepared(s)'
    BY <1>2, <2>2 DEF Prepared, Running
  <2> QED
    BY <1>1, <1>3, <2>1, <2>3, MoveOn DEF Starting
<1>4. CASE step[s] < MaxAttempts /\ Go(s, "connect", step[s] + 1)
  <2>1. step[s] + 1 \in 1..MaxAttempts
    BY <1>2, <1>4
  <2>2. phase'[s] = "connect"
    BY <1>4, <2>1, GoShape DEF SInv, Starting
  <2>3. Prepared(s)'
    BY <1>2, <2>2 DEF Prepared, Running
  <2> QED
    BY <1>1, <1>4, <2>1, <2>3, MoveOn DEF Starting
<1>5. CASE Exit(s)
  BY <1>1, <1>5, Resting DEF Exit
<1> QED
  BY <1>3, <1>4, <1>5 DEF Connect

\* A process finds a table, or is to create it.
LEMMA MigrateStep ==
  ASSUME SInv, NEW s \in Instances, Migrate(s)
  PROVE  SInv'
<1>1. Keeping /\ schema' = schema
  BY KeepingAll DEF Migrate, database, outside
<1>2. /\ phase[s] = "migrate" /\ step[s] \in DOMAIN Tables /\ step[s] \in 1..Len(Tables)
      /\ Valid(Settings(environ[s])) /\ environ' = environ
      /\ \A i \in 1..(step[s] - 1) : Tables[i] \in schema
  BY <1>1, TablesShape DEF Migrate, SInv, Prepared, TypeOK, Keeping
<1>3. CASE Exit(s)
  BY <1>1, <1>3, Resting DEF Exit
<1>4. CASE Table(s) \in schema /\ NextTable(s, "migrate", "seed")
  <2>1. \A i \in 1..step[s] : Tables[i] \in schema'
    BY <1>1, <1>2, <1>4 DEF Table
  <2> QED
    BY <1>1, <1>2, <1>4, <2>1, TableDone
<1>5. CASE Go(s, "create", step[s])
  <2>1. phase'[s] = "create" /\ step'[s] = step[s]
    BY <1>2, <1>5, GoShape DEF SInv, Starting
  <2>2. Prepared(s)'
    BY <1>1, <1>2, <2>1 DEF Prepared, Running
  <2> QED
    BY <1>1, <1>2, <1>5, <2>2, MoveOn DEF Starting
<1> QED
  BY <1>3, <1>4, <1>5 DEF Migrate

\* A process creates a table, unless another one has.
LEMMA CreateTableStep ==
  ASSUME SInv, NEW s \in Instances, CreateTable(s)
  PROVE  SInv'
<1>1. /\ phase[s] = "create" /\ step[s] \in DOMAIN Tables /\ step[s] \in 1..Len(Tables)
      /\ \A i \in 1..(step[s] - 1) : Tables[i] \in schema
  BY TablesShape DEF CreateTable, SInv, Prepared, TypeOK
<1>2. CASE schema' = schema \cup {Table(s)} /\ NextTable(s, "migrate", "seed")
  <2>1. Table(s) \in TableNames
    BY <1>1, TablesShape DEF Table
  <2>2. UNCHANGED <<rows, own, busy, environ, up, deaths, stops>>
    BY DEF CreateTable, outside
  <2>3. Keeping
    BY <1>2, <2>1, <2>2 DEF Keeping, SInv, TypeOK, SeedIsWhole, OwnAfterSeed, Seeded
  <2>4. \A i \in 1..step[s] : Tables[i] \in schema'
    BY <1>1, <1>2 DEF Table
  <2> QED
    BY <1>1, <1>2, <2>3, <2>4, TableDone
<1>3. CASE UNCHANGED schema /\ Exit(s)
  <2>1. Keeping
    BY <1>3, KeepingAll DEF CreateTable, outside
  <2> QED
    BY <1>3, <2>1, Resting DEF Exit
<1> QED
  BY <1>2, <1>3 DEF CreateTable

\* A table with live records is seeded.
LEMMA LiveIsSeeded ==
  ASSUME SInv, NEW t \in TableNames, Live(t)
  PROVE  Seeded(t)
BY DEF SInv, SeedIsWhole, OwnAfterSeed, Live, Seeded

\* A process skips a table with live records, or is to fill it.
LEMMA CountStep ==
  ASSUME SInv, NEW s \in Instances, Count(s)
  PROVE  SInv'
<1>1. Keeping /\ schema' = schema /\ rows' = rows
  BY KeepingAll DEF Count, database, outside
<1>2. /\ phase[s] = "seed" /\ step[s] \in DOMAIN Tables /\ step[s] \in 1..Len(Tables)
      /\ Valid(Settings(environ[s])) /\ environ' = environ
      /\ schema = TableNames /\ \A i \in 1..(step[s] - 1) : Seeded(Tables[i])
      /\ Table(s) \in TableNames
  BY <1>1, TablesShape DEF Count, SInv, Prepared, TypeOK, Keeping, Table
<1>3. CASE Exit(s)
  BY <1>1, <1>3, Resting DEF Exit
<1>4. CASE Live(Table(s)) /\ NextTable(s, "seed", "redis")
  <2>1. Seeded(Table(s))
    BY <1>2, <1>4, LiveIsSeeded
  <2>2. \A i \in 1..step[s] : Seeded(Tables[i])
    BY <1>2, <2>1 DEF Table
  <2>3. \A i \in 1..step[s] : Seeded(Tables[i])'
    BY <1>1, <2>2 DEF Seeded
  <2> QED
    BY <1>1, <1>2, <1>4, <2>3, TableDone
<1>5. CASE Go(s, "insert", step[s])
  <2>1. phase'[s] = "insert" /\ step'[s] = step[s]
    BY <1>2, <1>5, GoShape DEF SInv, Starting
  <2>2. Prepared(s)'
    BY <1>1, <1>2, <2>1 DEF Prepared, Running, Seeded
  <2> QED
    BY <1>1, <1>2, <1>5, <2>2, MoveOn DEF Starting
<1> QED
  BY <1>3, <1>4, <1>5 DEF Count

\* A process fills a table, unless a row of the seed is in the way.
LEMMA InsertStep ==
  ASSUME SInv, NEW s \in Instances, Insert(s)
  PROVE  SInv'
<1>1. /\ phase[s] = "insert" /\ step[s] \in DOMAIN Tables /\ step[s] \in 1..Len(Tables)
      /\ schema = TableNames /\ \A i \in 1..(step[s] - 1) : Seeded(Tables[i])
      /\ Table(s) \in TableNames /\ \A i \in 1..step[s] : Tables[i] \in TableNames
      /\ UNCHANGED <<busy, schema, own, environ, up, deaths, stops>>
  BY TablesShape DEF Insert, SInv, Prepared, TypeOK, Table, outside
<1>2. CASE /\ rows' = [rows EXCEPT ![Table(s)] = [i \in SeedRows |-> "live"]]
           /\ NextTable(s, "seed", "redis")
  <2>1. PICK T \in TableNames : T = Tables[step[s]]
    BY <1>1
  <2>2. /\ \A i \in SeedRows : rows'[T][i] = "live"
        /\ \A t \in TableNames \ {T} : rows'[t] = rows[t]
        /\ rows' \in [TableNames -> [SeedRows -> {"absent", "live", "deleted"}]]
    BY <1>2, <2>1 DEF SInv, TypeOK, Table
  <2>3. Seeded(T)'
    BY <2>2 DEF Seeded
  <2>4. \A t \in TableNames : Seeded(t) => Seeded(t)'
    BY <2>2 DEF Seeded
  <2>5. SeedIsWhole'
    BY <2>2, <2>3 DEF SInv, SeedIsWhole, Seeded
  <2>6. OwnAfterSeed'
    BY <1>1, <2>4 DEF SInv, TypeOK, OwnAfterSeed
  <2>7. Keeping
    BY <1>1, <2>2, <2>4, <2>5, <2>6 DEF Keeping, SInv, TypeOK
  <2>8. ASSUME NEW i \in 1..step[s] PROVE Seeded(Tables[i])'
    <3>1. CASE i = step[s]
      BY <2>1, <2>3, <3>1 DEF Seeded
    <3>2. CASE i # step[s]
      <4>1. i \in 1..(step[s] - 1)
        BY <1>1, <3>2
      <4> QED
        BY <1>1, <2>4, <4>1
    <3> QED
      BY <3>1, <3>2
  <2> QED
    BY <1>1, <1>2, <2>7, <2>8, TableDone
<1>3. CASE UNCHANGED rows /\ Exit(s)
  BY <1>1, <1>3, KeepingAll, Resting DEF Exit
<1> QED
  BY <1>2, <1>3 DEF Insert

\* A process with its dependencies there begins to listen.
LEMMA PingRedisStep ==
  ASSUME SInv, NEW s \in Instances, PingRedis(s)
  PROVE  SInv'
<1>1. Keeping /\ schema' = schema /\ rows' = rows
  BY KeepingAll DEF PingRedis, database, outside
<1>2. /\ Valid(Settings(environ[s])) /\ environ' = environ
      /\ schema = TableNames /\ \A t \in TableNames : Seeded(t)
  BY <1>1 DEF PingRedis, SInv, Prepared, Keeping
<1>3. CASE Go(s, "listening", 0)
  <2>1. phase'[s] = "listening"
    BY <1>3, GoShape DEF SInv, Running
  <2>2. Prepared(s)'
    BY <1>1, <1>2, <2>1 DEF Prepared, Running, Seeded
  <2> QED
    BY <1>1, <1>3, <2>2, MoveOn DEF Running
<1>4. CASE Exit(s)
  BY <1>1, <1>4, Resting DEF Exit
<1> QED
  BY <1>3, <1>4 DEF PingRedis

\* A process that serves, or is asked to stop, is as prepared as it was.
LEMMA NotifyStep ==
  ASSUME SInv, NEW s \in Instances,
         \/ Notify(s)
         \/ /\ phase[s] = "serving" /\ Go(s, "draining", 0) /\ UNCHANGED <<busy, database, environ>>
            /\ up' \subseteq {"db", "redis"} /\ deaths' \in 0..MaxDeaths /\ stops' \in 0..MaxStops
  PROVE  SInv'
<1>1. UNCHANGED <<schema, rows, own, environ, busy>>
  BY DEF Notify, database, outside
<1>2. Keeping
  BY <1>1, KeepingQuietly DEF Notify, outside, SInv, TypeOK
<1>3. phase[s] \in Running
  BY DEF Notify, Running
<1>4. /\ Valid(Settings(environ[s]))
      /\ schema = TableNames /\ \A t \in TableNames : Seeded(t)
  BY <1>3 DEF SInv, Prepared, Running
<1>5. PICK next \in {"serving", "draining"} : Go(s, next, 0)
  BY DEF Notify
<1>6. phase'[s] = next
  BY <1>5, GoShape DEF SInv, Running
<1>7. Prepared(s)'
  BY <1>1, <1>4, <1>6 DEF Prepared, Running, Seeded
<1> QED
  BY <1>2, <1>5, <1>7, MoveOn DEF Running

\* A request changes rows of the seed to deleted at most, and adds records to
\* tables that are all seeded.
LEMMA AnswerStep ==
  ASSUME SInv, NEW s \in Instances, Answer(s)
  PROVE  SInv'
<1>1. /\ UNCHANGED <<phase, step, schema, environ, up, deaths, stops>>
      /\ busy' \in [Instances -> BOOLEAN]
      /\ \A t \in TableNames : Seeded(t)
  BY DEF Answer, outside, SInv, TypeOK, Prepared
<1>2. rows' \in [TableNames -> [SeedRows -> {"absent", "live", "deleted"}]] /\ own' \subseteq TableNames
      /\ \A t \in TableNames : Seeded(t)'
  <2>1. CASE UNCHANGED <<rows, own>>
    BY <1>1, <2>1 DEF SInv, TypeOK, Seeded
  <2>2. ASSUME NEW t \in TableNames, AddOwn(t) \/ RemoveOwn(t)
        PROVE  /\ rows' \in [TableNames -> [SeedRows -> {"absent", "live", "deleted"}]]
               /\ own' \subseteq TableNames /\ \A u \in TableNames : Seeded(u)'
    BY <1>1, <2>2 DEF SInv, TypeOK, Seeded, AddOwn, RemoveOwn
  <2>3. ASSUME NEW t \in TableNames, NEW i \in SeedRows, RemoveSeeded(t, i)
        PROVE  /\ rows' \in [TableNames -> [SeedRows -> {"absent", "live", "deleted"}]]
               /\ own' \subseteq TableNames /\ \A u \in TableNames : Seeded(u)'
    BY <1>1, <2>3 DEF SInv, TypeOK, Seeded, RemoveSeeded
  <2> QED
    BY <2>1, <2>2, <2>3 DEF Answer
<1>3. SeedIsWhole' /\ OwnAfterSeed'
  BY <1>2 DEF SeedIsWhole, OwnAfterSeed
<1>4. Keeping
  BY <1>1, <1>2, <1>3 DEF Keeping, SInv, TypeOK
<1> QED
  BY <1>1, <1>4, StayPut

\* A request in flight, and the dependencies, leave the processes where they are.
LEMMA QuietStep ==
  ASSUME SInv,
         \/ Dependency
         \/ \E s \in Instances : Accept(s)
  PROVE  SInv'
<1>1. UNCHANGED <<phase, step, schema, rows, own, environ>>
  BY DEF Dependency, Accept, database, outside
<1>2. /\ busy' \in [Instances -> BOOLEAN] /\ up' \subseteq {"db", "redis"}
      /\ deaths' \in 0..MaxDeaths /\ stops' \in 0..MaxStops
  BY DEF Dependency, Accept, database, outside, SInv, TypeOK
<1> QED
  BY <1>1, <1>2, KeepingQuietly, StayPut

\* A counter below its bound stays within it.
LEMMA CountsUp ==
  ASSUME NEW bound \in Nat, NEW n \in 0..bound, n < bound
  PROVE  n + 1 \in 0..bound
OBVIOUS

\* A process that ends, in whichever way, or starts over leaves the database as
\* it is.
LEMMA EndStep ==
  ASSUME SInv, NEW s \in Instances,
         \/ Shutdown(s) \/ Die(s) \/ Restart(s) \/ BringUp(s)
         \/ Terminate(s) /\ phase[s] # "serving"
  PROVE  SInv'
<1>1. UNCHANGED <<schema, rows, own, environ>>
  BY DEF Shutdown, Die, Restart, BringUp, Terminate, database, outside
<1>2. busy' \in [Instances -> BOOLEAN]
  BY DEF Shutdown, Die, Restart, BringUp, Terminate, End, SInv, TypeOK
<1>3. up' = up /\ deaths' \in 0..MaxDeaths /\ stops' \in 0..MaxStops
  <2>1. CASE Die(s)
    BY <2>1, CountsUp DEF Die, SInv, TypeOK
  <2>2. CASE Terminate(s)
    BY <2>2, CountsUp DEF Terminate, SInv, TypeOK
  <2>3. CASE Shutdown(s) \/ Restart(s) \/ BringUp(s)
    BY <2>3 DEF Shutdown, Restart, BringUp, outside, SInv, TypeOK
  <2> QED
    BY <2>1, <2>2, <2>3
<1>4. PICK next \in {"load", "exited", "stopped"} : Go(s, next, 0)
  BY DEF Shutdown, Die, Restart, BringUp, Terminate, End
<1> QED
  <2>1. Keeping
    BY <1>1, <1>2, <1>3, KeepingQuietly DEF SInv, TypeOK
  <2> QED
    BY <1>4, <2>1, Resting

\* A process asked to stop while it serves drains; any other ends at once.
LEMMA TerminateStep ==
  ASSUME SInv, NEW s \in Instances, Terminate(s)
  PROVE  SInv'
<1>1. CASE phase[s] # "serving"
  BY <1>1, EndStep
<1>2. CASE phase[s] = "serving"
  <2>1. Go(s, "draining", 0) /\ UNCHANGED <<busy, database, environ>>
    BY <1>2 DEF Terminate
  <2>2. up' \subseteq {"db", "redis"} /\ deaths' \in 0..MaxDeaths /\ stops' \in 0..MaxStops
    BY CountsUp DEF Terminate, SInv, TypeOK
  <2> QED
    BY <1>2, <2>1, <2>2, NotifyStep
<1> QED
  BY <1>1, <1>2

\* Every step keeps the invariant.
LEMMA InvStep == SInv /\ [Next]_vars => SInv'
<1> SUFFICES ASSUME SInv, [Next]_vars PROVE SInv'
  OBVIOUS
<1>1. CASE UNCHANGED vars
  BY <1>1 DEF vars, SInv, TypeOK, SeedIsWhole, OwnAfterSeed, Seeded, Prepared
<1>2. ASSUME NEW s \in Instances, StartStep(s) PROVE SInv'
  BY <1>2, LoadConfigStep, ConnectStep, MigrateStep, CreateTableStep, CountStep,
     InsertStep, PingRedisStep, NotifyStep DEF StartStep
<1>3. ASSUME NEW s \in Instances,
             \/ Shutdown(s) \/ Die(s) \/ Restart(s) \/ BringUp(s)
      PROVE  SInv'
  BY <1>3, EndStep
<1>4. ASSUME NEW s \in Instances, Terminate(s) PROVE SInv'
  BY <1>4, TerminateStep
<1>5. ASSUME NEW s \in Instances, Answer(s) PROVE SInv'
  BY <1>5, AnswerStep
<1>6. ASSUME Dependency \/ \E s \in Instances : Accept(s) PROVE SInv'
  BY <1>6, QuietStep
<1> QED
  BY <1>1, <1>2, <1>3, <1>4, <1>5, <1>6 DEF Next

-----------------------------------------------------------------------------
(* The theorems.                                                           *)

\* What a starting process has seen to stays so until it serves.
THEOREM Preparing == Spec => []SInv
<1>1. Init => SInv
  BY InvInit
<1>2. SInv /\ [Next]_vars => SInv'
  BY InvStep
<1> QED
  BY <1>1, <1>2, PTL DEF Spec

\* The state keeps its types.
THEOREM TypeCorrect == Spec => []TypeOK
<1>1. SInv => TypeOK
  BY DEF SInv
<1> QED
  BY <1>1, Preparing, PTL

\* The seed of a table is there as a whole or not at all, wherever the processes
\* that write it die.
THEOREM WholeSeed == Spec => []SeedIsWhole
<1>1. SInv => SeedIsWhole
  BY DEF SInv
<1> QED
  BY <1>1, Preparing, PTL

\* A process that serves has a valid configuration, and every table seeded.
THEOREM Ready == Spec => []ServesReady
<1>1. ASSUME NEW s \in Instances, SInv, phase[s] \in Running
      PROVE  Valid(Settings(environ[s])) /\ schema = TableNames /\ \A t \in TableNames : Seeded(t)
  BY <1>1 DEF SInv, Prepared, Running
<1>2. ASSUME NEW cfg, Valid(cfg) PROVE cfg.limit >= 10 /\ cfg.limit <= 100000
  BY <1>2 DEF Valid
<1>3. SInv => ServesReady
  BY <1>1, <1>2 DEF ServesReady
<1> QED
  BY <1>3, Preparing, PTL

\* No start brings back what was deleted, or loses what was there.
THEOREM SownOnce == Spec => SeedsOnce
<1> DEFINE Kept == \A t \in TableNames, i \in SeedRows :
             rows'[t][i] # rows[t][i] =>
               <<rows[t][i], rows'[t][i]>> \in {<<"absent", "live">>, <<"live", "deleted">>}
<1>1. SInv /\ [Next]_vars => [Kept]_vars
  <2> SUFFICES ASSUME SInv, Next PROVE Kept
    OBVIOUS
  <2>1. CASE UNCHANGED rows
    BY <2>1
  <2>2. ASSUME NEW s \in Instances, Insert(s),
               rows' = [rows EXCEPT ![Table(s)] = [i \in SeedRows |-> "live"]],
               \A i \in SeedRows : rows[Table(s)][i] = "absent"
        PROVE  Kept
    BY <2>2 DEF SInv, TypeOK
  <2>3. ASSUME NEW t \in TableNames, NEW i \in SeedRows, RemoveSeeded(t, i)
        PROVE  Kept
    BY <2>3 DEF SInv, TypeOK, RemoveSeeded
  <2>4. ASSUME NEW s \in Instances, Insert(s) PROVE Kept
    BY <2>1, <2>2, <2>4 DEF Insert
  <2>5. ASSUME NEW s \in Instances, Answer(s) PROVE Kept
    BY <2>1, <2>3, <2>5 DEF Answer, AddOwn, RemoveOwn
  <2>6. ASSUME NEW s \in Instances, ~Insert(s), ~Answer(s),
               \/ StartStep(s) \/ Accept(s) \/ Answer(s)
               \/ Terminate(s) \/ Shutdown(s) \/ Die(s) \/ Restart(s) \/ BringUp(s)
        PROVE  UNCHANGED rows
    BY <2>6 DEF StartStep, LoadConfig, Connect, Migrate, CreateTable, Count, PingRedis,
       Notify, Accept, Terminate, Shutdown, Die, Restart, BringUp, database, outside
  <2>7. Dependency => UNCHANGED rows
    BY DEF Dependency, database
  <2> QED
    BY <2>1, <2>4, <2>5, <2>6, <2>7 DEF Next
<1> QED
  BY <1>1, Preparing, PTL DEF Spec, SeedsOnce
=============================================================================
