------------------------------- MODULE Startup ------------------------------
(***************************************************************************)
(* From the start of a server process to its end: cmd/server/main.go over  *)
(* config.Load, database.Open with migrate and Seed, and the supervisor of *)
(* docker-compose.yml that starts it again.  Several processes may start   *)
(* on one database, and each may die between any two of its steps; an      *)
(* action is one database round trip.                                      *)
(*                                                                         *)
(* A table and its indexes are one object: AutoMigrate adds to an existing *)
(* table what it lacks.                                                    *)
(***************************************************************************)
EXTENDS Config, Sequences, FiniteSets

CONSTANTS
  Instances,    \* the server processes on one database
  Environs,     \* the environments a process may be given
  Tables,       \* the tables in the order of migrate and Seed, users first
  Keeps,        \* the tables of which the API never deletes every row
  MaxAttempts,  \* how often Open tries to connect (20)
  MaxDeaths,    \* bound on the deaths of processes
  MaxStops      \* bound on the signals that end them

TableNames == {Tables[i] : i \in DOMAIN Tables}

\* The rows of one Seed transaction; in a table of Keeps the first stands for
\* those no request may delete.
SeedRows == {1, 2}

ASSUME StartupAssumption ==
  /\ Tables \in Seq(STRING) /\ Tables # <<>>
  /\ \A i, j \in DOMAIN Tables : Tables[i] = Tables[j] => i = j
  /\ Keeps \subseteq TableNames
  /\ Environs \subseteq Environment /\ Environs # {}
  /\ MaxAttempts \in Nat \ {0} /\ MaxDeaths \in Nat /\ MaxStops \in Nat

Starting == {"load", "connect", "migrate", "create", "seed", "insert", "redis"}
Running  == {"listening", "serving", "draining"}

VARIABLES
  environ,  \* environ[s]: the environment of process s
  phase,    \* phase[s]: what it does next
  step,     \* step[s]: the attempt to connect, or the table at hand
  busy,     \* busy[s]: it has a request in flight
  schema,   \* the tables that exist
  rows,     \* rows[t][i]: a row of the seed
  own,      \* the tables with live records that are not of the seed
  up,       \* which of the database and Redis answer
  deaths, stops

vars == <<environ, phase, step, busy, schema, rows, own, up, deaths, stops>>

database == <<schema, rows, own>>
outside  == <<environ, up, deaths, stops>>

Init ==
  /\ environ \in [Instances -> Environs]
  /\ phase = [s \in Instances |-> "load"]
  /\ step = [s \in Instances |-> 0]
  /\ busy = [s \in Instances |-> FALSE]
  /\ schema = {}
  /\ rows = [t \in TableNames |-> [i \in SeedRows |-> "absent"]]
  /\ own = {}
  /\ up = {}
  /\ deaths = 0 /\ stops = 0

\* The process goes on with its next phase, at the given step of it; it ends
\* with status 1, to be started again; or it ends for good.
Go(s, next, n) ==
  /\ phase' = [phase EXCEPT ![s] = next]
  /\ step' = [step EXCEPT ![s] = n]

End(s, how) ==
  /\ Go(s, how, 0)
  /\ busy' = [busy EXCEPT ![s] = FALSE]

Exit(s) == Go(s, "exited", 0)

\* Mutant: one table too many.
NextTablePast(s, this, after) ==
  IF step[s] <= Len(Tables) THEN Go(s, this, step[s] + 1) ELSE Go(s, after, 1)

\* The table at hand is done with: the next one, or the phase after the last.
NextTable(s, this, after) ==
  IF step[s] < Len(Tables) THEN Go(s, this, step[s] + 1) ELSE Go(s, after, 1)

Table(s) == Tables[step[s]]

Live(t) == t \in own \/ \E i \in SeedRows : rows[t][i] = "live"

(***************************************************************************)
(* main, up to the server.                                                 *)
(***************************************************************************)
LoadConfig(s) ==
  /\ phase[s] = "load"
  /\ IF Valid(Settings(environ[s])) THEN Go(s, "connect", 1) ELSE Exit(s)
  /\ UNCHANGED <<busy, database, outside>>

\* Open pings twice when the first ping fails, and keeps the second result: a
\* database that comes up in between still costs an attempt, but the last one
\* may end well.
Connect(s) ==
  /\ phase[s] = "connect"
  /\ \/ "db" \in up /\ Go(s, "migrate", 1)
     \/ step[s] < MaxAttempts /\ Go(s, "connect", step[s] + 1)
     \/ "db" \notin up /\ step[s] = MaxAttempts /\ Exit(s)
  /\ UNCHANGED <<busy, database, outside>>

Migrate(s) ==
  /\ phase[s] = "migrate"
  /\ IF "db" \notin up THEN Exit(s)
     ELSE IF Table(s) \in schema THEN NextTable(s, "migrate", "seed")
     ELSE Go(s, "create", step[s])
  /\ UNCHANGED <<busy, database, outside>>

\* CREATE TABLE fails on a table another process created since.
CreateTable(s) ==
  /\ phase[s] = "create"
  /\ IF "db" \in up /\ Table(s) \notin schema
     THEN schema' = schema \cup {Table(s)} /\ NextTable(s, "migrate", "seed")
     ELSE UNCHANGED schema /\ Exit(s)
  /\ UNCHANGED <<busy, rows, own, outside>>

\* Mutant: a database with users is taken for a seeded one.
CountFirstOnly(s) ==
  /\ phase[s] = "seed"
  /\ IF "db" \notin up THEN Exit(s)
     ELSE IF Live(Tables[1]) /\ step[s] = 1 THEN Go(s, "redis", 1)
     ELSE Go(s, "insert", step[s])
  /\ UNCHANGED <<busy, database, outside>>

\* Mutant: Seed does not count.
CountNothing(s) ==
  /\ phase[s] = "seed"
  /\ IF "db" \notin up THEN Exit(s) ELSE Go(s, "insert", step[s])
  /\ UNCHANGED <<busy, database, outside>>

\* Seed counts the live rows of a table, and skips it when there are any.
Count(s) ==
  /\ phase[s] = "seed"
  /\ IF "db" \notin up THEN Exit(s)
     ELSE IF Live(Table(s)) THEN NextTable(s, "seed", "redis")
     ELSE Go(s, "insert", step[s])
  /\ UNCHANGED <<busy, database, outside>>

\* Mutants: a statement per row; rows in the way are written over.
InsertRowByRow(s) ==
  /\ phase[s] = "insert"
  /\ IF "db" \in up /\ \E i \in SeedRows : rows[Table(s)][i] = "absent"
     THEN \E i \in SeedRows :
            /\ rows[Table(s)][i] = "absent"
            /\ rows' = [rows EXCEPT ![Table(s)][i] = "live"]
            /\ IF \A j \in SeedRows \ {i} : rows[Table(s)][j] # "absent"
               THEN NextTable(s, "seed", "redis") ELSE Go(s, "insert", step[s])
     ELSE UNCHANGED rows /\ Exit(s)
  /\ UNCHANGED <<busy, schema, own, outside>>
InsertOverwriting(s) ==
  /\ phase[s] = "insert"
  /\ IF "db" \in up
     THEN /\ rows' = [rows EXCEPT ![Table(s)] = [i \in SeedRows |-> "live"]]
          /\ NextTable(s, "seed", "redis")
     ELSE UNCHANGED rows /\ Exit(s)
  /\ UNCHANGED <<busy, schema, own, outside>>

\* One INSERT of all rows of the table's seed.  The unique indexes cover the
\* soft-deleted rows too: with a row of the seed in the way it fails as a whole.
Insert(s) ==
  /\ phase[s] = "insert"
  /\ IF "db" \in up /\ \A i \in SeedRows : rows[Table(s)][i] = "absent"
     THEN /\ rows' = [rows EXCEPT ![Table(s)] = [i \in SeedRows |-> "live"]]
          /\ NextTable(s, "seed", "redis")
     ELSE UNCHANGED rows /\ Exit(s)
  /\ UNCHANGED <<busy, schema, own, outside>>

PingRedis(s) ==
  /\ phase[s] = "redis"
  /\ IF environ[s].redis => "redis" \in up THEN Go(s, "listening", 0) ELSE Exit(s)
  /\ UNCHANGED <<busy, database, outside>>

(***************************************************************************)
(* The server.  It listens before main asks to be notified of signals.     *)
(***************************************************************************)
Notify(s) ==
  /\ phase[s] = "listening"
  /\ Go(s, "serving", 0)
  /\ UNCHANGED <<busy, database, outside>>

Accept(s) ==
  /\ phase[s] \in {"listening", "serving"} /\ ~busy[s]
  /\ busy' = [busy EXCEPT ![s] = TRUE]
  /\ UNCHANGED <<phase, step, database, outside>>

\* What a request may do to the contents of a table; none writes users.
RemoveSeeded(t, i) ==
  /\ rows[t][i] = "live" /\ (t \in Keeps => i # 1)
  /\ rows' = [rows EXCEPT ![t][i] = "deleted"]
  /\ UNCHANGED own
AddOwn(t) == own' = own \cup {t} /\ UNCHANGED rows
RemoveOwn(t) == own' = own \ {t} /\ UNCHANGED rows

Answer(s) ==
  /\ phase[s] \in Running /\ busy[s]
  /\ busy' = [busy EXCEPT ![s] = FALSE]
  /\ \/ UNCHANGED <<rows, own>>
     \/ "db" \in up /\ \E t \in TableNames \ {Tables[1]} :
          AddOwn(t) \/ RemoveOwn(t) \/ \E i \in SeedRows : RemoveSeeded(t, i)
  /\ UNCHANGED <<phase, step, schema, outside>>

\* SIGTERM: the default action ends a process that did not ask to be notified.
Terminate(s) ==
  /\ phase[s] \notin {"draining", "exited", "stopped"} /\ stops < MaxStops
  /\ stops' = stops + 1
  /\ IF phase[s] = "serving" THEN Go(s, "draining", 0) /\ UNCHANGED busy ELSE End(s, "stopped")
  /\ UNCHANGED <<database, environ, up, deaths>>

\* Mutant: Shutdown waits without a deadline.
ShutdownPatiently(s) ==
  /\ phase[s] = "draining" /\ ~busy[s]
  /\ End(s, "stopped")
  /\ UNCHANGED <<database, outside>>

\* Shutdown returns when the requests in flight are answered, or at its
\* deadline: main returns in either case.
Shutdown(s) ==
  /\ phase[s] = "draining"
  /\ End(s, "stopped")
  /\ UNCHANGED <<database, outside>>

(***************************************************************************)
(* The environment.                                                        *)
(***************************************************************************)
\* The process is killed, cannot listen, or its startup context expires.
Die(s) ==
  /\ phase[s] \notin {"exited", "stopped"} /\ deaths < MaxDeaths
  /\ deaths' = deaths + 1
  /\ End(s, "exited")
  /\ UNCHANGED <<database, environ, up, stops>>

\* restart: unless-stopped; and a stopped one may be brought up again.
Restart(s) ==
  /\ phase[s] = "exited"
  /\ Go(s, "load", 0)
  /\ UNCHANGED <<busy, database, outside>>

BringUp(s) ==
  /\ phase[s] = "stopped"
  /\ Go(s, "load", 0)
  /\ UNCHANGED <<busy, database, outside>>

Dependency ==
  /\ \E d \in {"db", "redis"} : up' = IF d \in up THEN up \ {d} ELSE up \cup {d}
  /\ UNCHANGED <<environ, phase, step, busy, database, deaths, stops>>

StartStep(s) ==
  \/ LoadConfig(s) \/ Connect(s)
  \/ Migrate(s) \/ CreateTable(s)
  \/ Count(s) \/ Insert(s)
  \/ PingRedis(s) \/ Notify(s)

Next ==
  \/ \E s \in Instances :
       \/ StartStep(s)
       \/ Accept(s) \/ Answer(s)
       \/ Terminate(s) \/ Shutdown(s)
       \/ Die(s) \/ Restart(s) \/ BringUp(s)
  \/ Dependency

Spec == Init /\ [][Next]_vars

-----------------------------------------------------------------------------
\* Every variable has its type.
TypeOK ==
  /\ environ \in [Instances -> Environs]
  /\ phase \in [Instances -> Starting \cup Running \cup {"exited", "stopped"}]
  /\ step \in [Instances -> Nat]
  /\ \A s \in Instances :
       /\ phase[s] = "connect" => step[s] \in 1..MaxAttempts
       /\ phase[s] \in {"migrate", "create", "seed", "insert"} => step[s] \in DOMAIN Tables
  /\ busy \in [Instances -> BOOLEAN]
  /\ schema \subseteq TableNames /\ own \subseteq TableNames
  /\ rows \in [TableNames -> [SeedRows -> {"absent", "live", "deleted"}]]
  /\ up \subseteq {"db", "redis"}
  /\ deaths \in 0..MaxDeaths /\ stops \in 0..MaxStops

Seeded(t) == \A i \in SeedRows : rows[t][i] # "absent"

\* However many processes start at once, and wherever they die, the seed of a
\* table is there as a whole or not at all.
SeedIsWhole ==
  \A t \in TableNames : Seeded(t) \/ \A i \in SeedRows : rows[t][i] = "absent"

\* A process that serves has a valid configuration and finds every table there
\* and seeded, although another process, or an earlier one that died halfway,
\* may have done part of it.
ServesReady ==
  \A s \in Instances : phase[s] \in Running =>
    /\ LET limit == Settings(environ[s]).limit IN limit >= 10 /\ limit <= 100000
    /\ schema = TableNames
    /\ \A t \in TableNames : Seeded(t)

\* No start brings back what was deleted, or loses what was there.
SeedsOnce ==
  [][\A t \in TableNames, i \in SeedRows :
       rows'[t][i] # rows[t][i] =>
         <<rows[t][i], rows'[t][i]>> \in {<<"absent", "live">>, <<"live", "deleted">>}]_vars

\* A table whose seed was deleted and which has nothing else.
Emptied(t) == Seeded(t) /\ ~Live(t)

(***************************************************************************)
(* Liveness.  A process runs, Shutdown has a deadline and the supervisor   *)
(* starts again what exited; nothing is assumed of requests, of the        *)
(* dependencies or of who brings up a stopped process.                     *)
(***************************************************************************)
FairSpec ==
  /\ Spec
  /\ \A s \in Instances :
       /\ WF_vars(StartStep(s))
       /\ WF_vars(Shutdown(s))
       /\ WF_vars(Restart(s))

AllUp == up = {"db", "redis"}
Fit(s) == Valid(Settings(environ[s]))

\* Once the dependencies stay up, and no table stays emptied, every process with
\* a valid environment comes to serve, or was stopped: neither a start that
\* another one got in the way of nor a death halfway leaves something that
\* stands in the way of the next.
Recovers ==
  (<>[]AllUp /\ <>[](\A t \in TableNames : ~Emptied(t)))
    => \A s \in Instances :
         Fit(s) => []<>(phase[s] \in Running \cup {"stopped"})

\* A process asked to stop does, whatever its requests do.
StopsInTheEnd == \A s \in Instances : phase[s] = "draining" ~> phase[s] \in {"stopped", "exited"}

\* Bringing the service up makes it serve, as long as its dependencies are there.
ComesUp ==
  <>[]AllUp => \A s \in Instances :
                 Fit(s) => []<>(phase[s] \in Running \cup {"stopped"})
=============================================================================
