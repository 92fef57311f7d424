# Hazardous-waste transfer compliance platform: TLA+ verification project

This directory holds TLA+ models of the backend (`backend/`, Go, Gin, GORM) and
of the parts of the front end (`frontend/src`, Angular) that keep state, the TLC
configurations that check them on small instances, and the theorems that TLAPS
proves about them for every instance. Paths below are relative to
`backend/internal/` unless they start with `backend/` or `frontend/`.

## 1. The system

A Go server, of which several instances may run, over one SQL database
(PostgreSQL, MySQL or SQLite), with Redis for rate limiting, and an Angular front
end. It keeps four kinds of record, each in a table of its own, each with a
human-facing code, a status, a version for optimistic locking and a soft-delete
mark; every write of a record also writes an audit entry in the same transaction.

| component | state it keeps | operations | how it interacts |
|---|---|---|---|
| status graphs (`constants/status.go`) | none | `CanTransition` | read by every service's `Transition`; copied in `frontend/src/types/status.ts` |
| repository (`repository/base.go`) | four tables, `audit_logs` | `Get`, `FindByCode`, `CreateAudited`, `UpdateAudited`, `DeleteAudited`, `List`, `CountByStatus` | one database round trip or transaction per call, two for `List` |
| waste generators, carriers (`service/waste_generator.go`, `carrier_profile.go`) | their rows | create, update, transition, delete | permit and license read by manifests |
| manifests (`service/transfer_manifest.go`) | their rows | create, update, transition, delete | looks up its generator and carrier by code; read by checks |
| checks (`service/compliance_check.go`) | their rows | create, update, transition, delete | looks up its manifest by code |
| authentication, roles (`middleware/auth.go`) | the token, held by the client | `Authenticate`, `RequireRoles`, `RequireMinimumRole` | guards every endpoint |
| rate limiter (`middleware/ratelimit.go`) | Redis counters; a map under a mutex in each process | `increment`, `incrementLocal`, `cleanupLocal` | in front of every `/api` endpoint but the login |
| security service (`service/security.go`, `repository/security.go`) | reads `users` and `audit_logs` | login, audit list, summary and history, `newAuditLog` | `newAuditLog` is part of every write |
| configuration (`config/config.go`) | none | `Load`, `Validate` | first step of a start |
| start-up (`database/database.go`), process (`backend/cmd/server/main.go`) | all tables | `Open`, `migrate`, `Seed`; serve, shut down | runs before the server listens; the supervisor starts it again |
| front-end session (`frontend/src/hooks/use-auth.ts`, `api/client.ts`) | `localStorage`, a signal in each tab | restore, login, logout, late 401 | its token goes with every request |
| front-end stores and pages (`frontend/src/stores/factory.ts`, `components/entity-page.component.ts`) | the list shown, the open dialog | load, create, transition | sends the version of the row it shows |

**What is hard here.** A service call is not a transaction. It is a sequence of
database round trips: `Get` the row, look up linked rows, then one transaction
that writes the row and its audit entry. Any other request can run between two
of them, from any number of goroutines or instances. Three mechanisms are meant
to keep this right: the version in the `WHERE` clause of the `UPDATE`
(`repository/base.go:96`), the unique index on `code`, and the soft-delete filter
GORM adds to every query. Nothing protects the rows a request only read. The same
holds elsewhere: a list is two queries and a summary five; the limiter falls back
from one counter to another in the middle of a request; a start is a sequence of
transactions that another start, or a death, may cut into; and everything the
front end awaits is overtaken by the user, another tab or a later answer.

**What makes each component correct.**

* Repository: an update never overwrites a row other than the one its service
  judged; a row and its audit entry commit together; a deleted row stays as it
  is and its code is not used again; pages miss no row that stayed as it was.
* Every kind: stored status changes follow the kind's graph.
* Manifests: parties exist when named, are qualified when the manifest is
  submitted and dispatched; content is frozen once submitted; a submitted
  manifest is not deleted.
* Checks: a pass needs a passable manifest; the basis belongs to the decision in
  force; a decided check is not edited and not deleted.
* Rate limiter: no counter lets through more than the limit; nobody is refused
  without cause; old buckets do not add up.
* Audit queries: the history is in the order of the writes; the figures of a
  summary agree.
* Start-up: seeds are whole, sown once and there before a process serves; a
  process comes to serve once what it needs is there; asked to stop it stops.
* Session: what is shown as logged in is the user of the token; a logout is not
  undone; no tab waits for ever.
* Entity page: a confirmed transition changes the row, in the version, that the
  dialog showed.

`PROJECT.json` lists the hazards of this code, each at its line, with the
properties that cover it, or the reason that none does.

## 2. Modules

| module | models | builds on |
|---|---|---|
| `StatusGraph` | `constants/status.go`, initial statuses, role ranks | |
| `Records` | the records and the columns a rule reads, audit entries, seeds; the constants, `RecordsAssumption` and `SeedAssumption` | `StatusGraph` |
| `Store` | the tables, one request in flight per client, the repository calls, failure, the clock | `Records` |
| `WasteGenerator`, `CarrierProfile`, `TransferManifest`, `ComplianceCheck` | handler and service of one kind each | `Store` |
| `Platform` | all requests interleaved; the properties | the four |
| `Registry` | abstract specification: an atomic, audited registry | `Records` |
| `PlatformHistory` | `Platform`, what each request could have seen, and which audit entries were overtaken | `Platform` |
| `Listing` | the lists, page after page, while they are written | |
| `AuditSummary` | the five queries of the audit summary | |
| `RateLimiter` | the limiter: Redis, buckets, windows, failover, restarts | |
| `Quota` | abstract specification: counters that grant up to a limit | |
| `Config` | what `Load` and `Validate` make of an environment | |
| `Startup` | processes from start to end over one database | `Config` |
| `Session` | login, `Authenticate` and the tabs of one browser | |
| `Workbench` | the entity page and its store; both status tables | `StatusGraph` |
| `PlatformProofs` | theorems, and that `Platform` implements `Registry` | `Platform` |
| `RateLimiterProofs`, `AuditSummaryProofs`, `ListingProofs`, `StartupProofs`, `SessionProofs`, `WorkbenchProofs` | theorems | the module they are named after |
| `HistoryProofs` | theorems about `PlatformHistory` | `PlatformHistory`, `PlatformProofs` |
| `MC...` | values for TLC | |

`Platform` composes the repository, the guards and the services, which share
tables. The other components meet it through a promise only, so each is a module
of its own over an abstraction of the rest: `Listing` and `AuditSummary` need of
the platform only that rows are written and entries appended; `Workbench` has a
backend that keeps `Registry`'s promise (a write matches its version or nothing);
`Startup` has requests that may add and remove rows; `RateLimiter` decides before
any handler runs.

### `Store` and `Platform`

| variable | in the code |
|---|---|
| `rows[r]` | the table row with code `r`: `life` is absent, live or deleted (`DeletedAt` set), then `status`, `version` and the fields a rule reads |
| `audits[r]` | the `audit_logs` of that entity in insertion order: action, before, after, actor |
| `pc[c]` | the next database call of client `c`'s request: `load` is `Get`; `generator`, `carrier`, `manifest` are `FindByCode`; `commit` is the transaction; `idle` is no request |
| `req[c]` | the decoded request: operation, record, `expectedVersion`, target status, fields |
| `cur[c]` | the service's local copy `current` |
| `now` | what `time.Now` returns, in coarse units |

One action is one database round trip together with the Go code up to the next
one. The code between two calls touches only local variables, so it can run
atomically with the call before it. Clock reads belong to the step whose code
makes them.

* `*Request`: middleware and handler up to the first database call. `Allowed` is
  the role guard of the endpoint. In `Create` of generators and carriers the
  expiry check comes before any database call, so it is in this step.
* `Get` and `FindByCode` find a live row that the code after the call accepts
  (argument `accepts`), and go on, or answer with an error.
* `CreateAudited`, `UpdateAudited`, `DeleteAudited` are the transactions; each
  then answers.
* `Fail` ends a request before its next call takes effect: a database error, a
  cancelled context, a panic, a unique violation on `permit_number` or
  `license_number` (not modelled), or the death of the process, which is `Fail`
  for each of its requests. A transaction that commits but whose answer is lost
  is the transaction: the model has no answers, and the row read again after the
  commit to be answered changes nothing.
* The role is the one in the token, which stays as it is until the token expires.

The four kinds live in one function `rows` because they share the repository;
their codes are disjoint sets. Codes stand for ids too, since code is immutable
and unique. Upper-casing and trimming of codes are left out: a record is its
normalised code. Of the data only what a rule reads remains: expiry, links, and
the author of a decision's basis.

*The clients' versions.* `expectedVersion` is chosen by the client. The front end
sends the version of the row it shows, which the table held at some time:
`ExpectedVersions` with `Ahead = 0` is every version up to the current one. The
API accepts any number, though, and compares it with the stored version only,
never with the version of the row the service judged. `Ahead = 1` lets a client
number its write one further, as one that pipelines two writes does. The
theorems that need `Ahead = 0` say so; links, bases, and what a request judged
while it was in flight do not depend on it.

### The other modules

* `RateLimiter`. An action is one exchange with Redis or one section under the
  mutex. `shared[k][w]` is the counter `rate:w:k` with its expiry, `local[s][k]`
  the bucket of a process, `ticket[r]` the counter that counted a request and the
  number it got. `RedisAnswers`, `AnswerLost` and `RedisUnreachable` are what
  becomes of a `MULTI`; the client library sends it again `Resends` times and
  `Middleware` then counts in memory. The time-outs of the client end an attempt
  within a minute of the one its key names; that is the library's, hence external.
* `Startup`. An action is a database round trip of `Open`, `migrate` or `Seed`, a
  step of `main`, or one of the world: a dependency going up or down, a death, a
  signal, the supervisor. `rows[t][i]` are the rows of a table's seed, `own` the
  tables with live records of other origin. `Connect` keeps the quirk of
  `database.go:42-48`: a first ping that fails is followed by a second, whose
  result is looked at on the last attempt only.
* `Config` says which settings are passed over in silence and which refused. The
  checks of durations, `APP_NAME` and `PORT` in `Validate` never fire, because the
  defaults are in place before it.
* `Listing`. `listed` is the list's order, latest first. `Count` and `Select` are
  the two queries of a page. A reader goes on until a page is not full, or until
  the pages the total announced are read.
* `AuditSummary`. One action per query. Entries may be stamped up to `Lag` before
  they commit.
* `PlatformHistory`. Of an entry's stamp it keeps whether another entry of the same
  record was committed since (`overtaken`), which is all its order depends on.
* `Session`. An action is what runs between two awaits. `storage` is
  `localStorage`, shared by the tabs and the source of each request's token;
  `session[t]` is the signal that guards, navigation and buttons look at.
* `Workbench`. An action is what runs between two awaits. `items` is the list as
  shown, `pending` the dialog, `calls` the calls in flight.

### Abstract specifications

`Registry` has no requests, reads or copies: a record is created, edited, advanced
or removed in one atomic step that sees the row as it is. `Platform` implements it
under the identity mapping of `rows` and `audits`, forgetting the rest. Two things
a reader would expect are deliberately absent, because the code does not keep
them: `Remove` does not require the record to be undecided and may log an earlier
status, and `Advance` does not look at linked records. What is left of those two
promises is stated by `PlatformHistory`.

`Quota` knows requests and counters only: a counter grants a request that has no
grant, as long as it granted fewer than `Limit`. `RateLimiter` implements it with
`granted[r]` the counter that let `r` through. Windows, Redis, buckets, cleaning,
failover and restarts are thereby reduced to which counters there are.

## 3. Properties

Each is explained where it is stated; one type invariant per module comes on top.

| property | says |
|---|---|
| `ReplacesWhatItRead` | whenever an `UPDATE` would match, the row it overwrites is the one its service judged |
| `WritersHoldJudgedRows` | what a request holds from its first read on: a judged row, no newer than the table's, equal to it while the versions agree |
| `AuditTrail` | the audit entries of a row account for its version, its chain of statuses and its deletion |
| `BasisIsTheDeciders` | the basis of a decided check was written by the author of the last transition |
| `LinksResolve` | no link names a code nothing was ever created under |
| `StatusFollowsGraph` | stored status changes are edges of the graph |
| `FrozenOnceDecided` | no edit lands after submission or decision |
| `DeletedIsFinal` | deleted rows and their codes are never written again |
| `ImplementsRegistry` | requests refine the atomic registry |
| `PartiesQualifiedDuringRequest`, `PassableDuringRequest`, `UndecidedDuringDelete` | what unlocked reads still guarantee: the condition held at some instant of the request |
| `HistoryInOrder` | entries ordered by their stamps are ordered by their commits, deletes excepted |
| `WalkSeesAll` | a walk that ends at a page that is not full misses no row that stayed listed and unwritten |
| `SummaryAddsUp` | the five figures of a summary fit together |
| `QuotaPerCounter`, `QuotaPerMinute` | no more than the limit per counter; per key and minute, the limit once for Redis and once for each life of each process |
| `RefusalHasCause` | behind a refusal are more than `Limit` counts of the same key and minute |
| `TrackedBounded` | a map larger than `CleanupAt` holds buckets of one minute only |
| `ImplementsQuota` | the limiter refines a set of quotas |
| `SeedIsWhole`, `SeedsOnce`, `ServesReady` | the seed of a table is there as a whole or not at all, is sown once and is there before a process serves |
| `Recovers`, `StopsInTheEnd` | liveness: see section 5 |
| `SessionsAreWhole` | a session shows the user its token was issued to |
| `StaysLoggedOut` | only a login or a reload gives a session to a tab without one |
| `LoadingEnds` | liveness: see section 5 |
| `ConfirmsWhatItShows` | a transition changes exactly the row its dialog showed |

## 4. Runs and bounds

| run | module | instance | time |
|---|---|---|---|
| `permits` | `MCPlatform` | a generator and a carrier, none created yet; every endpoint of both; a clock that lets permits expire; at most three writes | |
| `manifests` | `MCPlatform` | one manifest, one generator, two carriers of which one is created meanwhile; every endpoint of a manifest; at most four writes | 1 min |
| `checks` | `MCPlatform` | one check, two submitted manifests; every endpoint of a check | 1 min |
| `races` | `MCHistory` | a draft, its parties and its check, all seeded; `RaceRoutes`: what can get in each other's way across the kinds; expiry; at most three writes | 1 min |
| `limiter` | `MCRateLimiter` | one process that may restart once, three keys, three requests, three minutes, limit 1, cleaning from 2 buckets on | 1 min |
| `startup` | `MCStartup` | two processes, three environments, users and one other table, one death, one signal, two attempts to connect | 2 min |
| `paging` | `MCListing` | five rows, pages of one and two, five writes | |
| `summary` | `MCAuditSummary` | three entries, two actors, two kinds, three hours, windows of one and two | |
| `session` | `Session` | two tabs, two users, two logins, two reloads | 2-3 min |
| `workbench` | `MCWorkbench` | one generator (the graph with a way back), two calls in flight, three versions | |
| `delete_race`, `startup_emptied` | `MCPlatform`, `MCStartup` | expected violations: section 7 | |

*Platform runs.* Two clients, an administrator and an operator or reviewer, so
every pair of steps of two requests is interleaved. Two are enough for the hazards
listed: a race here is between one request's reads and its commit, and any number
of writes in that gap can be made by one other client, one after the other.
`MaxVersion = 3` allows two writes after the creation or the seed: enough for a
row to change between a read and a commit, and for the writer in that gap to
change it again. `MaxTime = 1` is one expiry. `Ahead` is 0 in every run;
section 7 says what `Ahead = 1` shows. `Routes` selects the endpoints of a
run; the records of a run are those it is about, and a database has more that its
requests do not touch. The constraints `ThreeWrites` and `FourWrites` end
behaviours after so many committed writes, of whichever records: three are a
creation and two changes, or a decision, the withdrawal of what it relied on and
one more; four are that for a manifest and the creation of the party it may name. The view `WithoutAudits` of `races` leaves out the audit
trail, of which actions and properties of that run ask only whether a step adds to it.

*Other bounds.* `limiter`: three requests and limit 1 exceed a quota with one to
spare; three keys exceed `CleanupAt = 2`; a third minute expires a Redis counter;
`Resends = 0` because a resend is one more of the same outcomes (the theorems hold
for every number). `startup`: a third process or table repeats what two do to each
other; `MaxDeaths` and `MaxStops` bound how often, not where. `paging`: five rows
are three pages of two, five writes move every row. `summary`: an entry that ages
out, one that does not, and one that comes between two queries. `session`: a
second login is that of another user in another tab. `workbench`: two calls
overtake each other; three versions let a row come back to the status it had.

Times are minutes on two cores, where a run takes more than half of one. Deadlock
is checked everywhere but in `limiter`, which ends when every request is
answered and every bound reached.

## 5. Fairness and liveness

`Platform`, `RateLimiter`, `Listing`, `AuditSummary` and `Workbench` assume none:
their properties are about safety, a request may stop at any point, and what they
promise must hold nevertheless. That every request of `Platform` is answered would
follow from `Fail` alone, which is always possible, and says nothing about the code.

`Startup`: weak fairness of each process's next step (a process runs), of
`Shutdown` (it has a deadline, `backend/cmd/server/main.go:50`) and of the
supervisor's `Restart` (`restart: unless-stopped`). Nothing is assumed of
requests, of the database and Redis, of signals or of who brings up a stopped
process. `Recovers`: once the dependencies stay up and no table stays emptied,
every process with a valid environment comes to serve again and again, or was
stopped. Neither a start another one got in the way of, nor a death halfway,
stands in the way of the next. `StopsInTheEnd`: a draining process ends, whatever
its requests do.

`Session`: weak fairness of the steps that answer a restore or a login and go on
with the answer: a fetch ends, with an error at least. Nothing is assumed of
users or pages. `LoadingEnds`: no tab stays with nothing but a message on screen.

## 6. Theorems

For every value of the constants: records, clients, routes, roles, seeds,
processes, tables, keys, limits, tabs, users and bounds.

| module | theorem | statement | needs |
|---|---|---|---|
| `PlatformProofs` | `Typing` | `Spec => []TypeOK` | |
| | `NoLostUpdate` | `Spec => []ReplacesWhatItRead` | `Ahead = 0` |
| | `JudgedRows` | `Spec => []WritersHoldJudgedRows` | `Ahead = 0` |
| | `StatusesFollowGraphs` | `Spec => StatusFollowsGraph` | `Ahead = 0` |
| | `DecisionsFreeze` | `Spec => FrozenOnceDecided` | `Ahead = 0` |
| | `DeletionIsFinal` | `Spec => DeletedIsFinal` | |
| | `Refinement` | `Spec => ImplementsRegistry` | `Ahead = 0` |
| | `Links` | `Spec => []LinksResolve` | |
| | `Trail` | `Spec => []AuditTrail` | `Ahead = 0` |
| | `Bases` | `Spec => []BasisIsTheDeciders` | |
| `HistoryProofs` | `PartiesQualified` | `HistorySpec => PartiesQualifiedDuringRequest` | |
| | `PassableWhenPassed` | `HistorySpec => PassableDuringRequest` | |
| | `UndecidedWhenDeleted` | `HistorySpec => UndecidedDuringDelete` | |
| | `InOrderOfStamps` | `HistorySpec => HistoryInOrder` | `Ahead = 0` |
| `RateLimiterProofs` | `TypeCorrect` | `Spec => []TypeOK` | |
| | `Quotas` | `Spec => []QuotaPerCounter` | |
| | `MinuteQuotas` | `Spec => []QuotaPerMinute` | finitely many servers |
| | `RefusedForCause` | `Spec => []RefusalHasCause` | |
| | `Bounded` | `Spec => []TrackedBounded` | |
| | `Refinement` | `Spec => ImplementsQuota` | |
| `StartupProofs` | `TypeCorrect` | `Spec => []TypeOK` | |
| | `WholeSeed` | `Spec => []SeedIsWhole` | |
| | `Ready` | `Spec => []ServesReady` | |
| | `SownOnce` | `Spec => SeedsOnce` | |
| `SessionProofs` | `TypeCorrect` | `Spec => []TypeOK` | |
| | `WholeSessions` | `Spec => []SessionsAreWhole` | |
| | `LogoutLasts` | `Spec => StaysLoggedOut` | |
| `ListingProofs` | `TypeCorrect` | `Spec => []TypeOK` | |
| | `SeesAll` | `Spec => []WalkSeesAll` | |
| `AuditSummaryProofs` | `FiguresFit` | `Spec => []SummaryAddsUp` | |
| `WorkbenchProofs` | `Confirmed` | `Spec => ConfirmsWhatItShows` | |

The assumptions are those named in the modules that declare the constants:
`RecordsAssumption` (the kinds are disjoint, seeded rows are typed and live),
`SeedAssumption` (a seeded row has a status, and the rows it names are seeded),
`StoreAssumption` (roles are roles), `RateLimiterAssumption` (Redis is no process,
the limit is positive), `StartupAssumption` (tables are distinct),
`SessionAssumption` (nobody is no user), `WorkbenchAssumption` (the rows found are
records; no row and a deleted row are not rows), `ListingAssumption` (finitely many rows,
page sizes are in order), `AuditSummaryAssumption` (finitely many kinds, the
default window within the longest). TLC evaluates each in a passing run.

*Platform.* The four services have sixteen operations. `NextShape` reduces every
step to one of a handful of shapes: a request received, a row loaded and judged, a
linked row found, an insert, an edit, a decision, a removal, an answer. Later
lemmas are about shapes, so a fifth kind of record would add one lemma.
A step on a row is of three kinds (`OneWriter`): one request inserts, replaces or
removes it, and the others wait. `JInv` holds whatever versions the clients send:
the types, a request in flight names a record, the row it goes by was judged, and
a row that is absent was never written.
`ReplacesWhatItRead` speaks of a request at its commit only and is not inductive.
`IInv` adds `WritersHoldJudgedRows`, where the version earns its place: a write by
another request raises the table's version strictly, so an old copy can never
agree with it again (`RowsEvolve`). At the commit the `WHERE` clause forces the
table's version to equal the client's, the copy's is squeezed between them, and
the row is the copy. That starts from "the client's version is at most the
row's", which is `Ahead = 0`. `RowsChange` then describes each step on each row as
an atomic, rule-abiding change, and the action properties follow.

*Links.* `LInv` adds to `JInv`, again whatever versions the clients send, that what
a request has found by now exists (`LookedUp`): a deleted row keeps its code, so
what was found stays found (`CodesStay`). An update writes the copy it judged with
the client's data, so the copies have to be sound as well as the rows: a status,
and links to existing rows. `LinksResolve` is then read off the rows.

*Registry.* A committed request is a step of the registry if what the registry
asks of the step holds at the commit, although the request checked it earlier.
For its own row `IInv` gives that, for the rows it names `LInv`; `RInv` is both.

*Audit trail.* Whatever versions the clients send, a row has an entry for each of
its writes, and the last of them left its status (`Counted`); `BasisIsTheDeciders` is
a reading of that. That every entry starts at the status where the one before it
ended (`Chained`) takes `Ahead = 0`: the entry's `before` is read from the copy.
`AuditTrail` is both together.

*History.* `VInv` adds to `LInv` that what a request has judged by now is in `seen`
(`SawInOrder`): the step that judges adds it, and `seen` only grows while the request
is in flight. The parties judged are those of its copy, and the commit writes the
copy's links, so they are the parties of the row written, even when the row
replaced was a newer one. For the order of the stamps `HInv` adds `Late` to `RInv`:
the row of an overtaken request is already a newer one, deleted or, for a create,
there; its `WHERE` clause cannot match, its insert meets the unique index. A delete
has neither guard, which is the exception `HistoryInOrder` makes.

*Rate limiter.* That at most `Limit` requests pass one counter is a statement
about a set's size, and a step that raises a counter says nothing of the set.
`LInv` instead says that the requests counted by one counter got different numbers
(`NumbersDiffer`); the admitted ones got numbers up to `Limit`, and an injection
into `1..Limit` bounds their count. Numbers differ because a counter is never
behind a number it gave (`SharedAhead`, `LocalAhead`) unless no request can be
counted on it any more: a Redis counter lives two minutes (`LivesOn`) and requests
keep the minute of their key and one more; a bucket forgets when its minute is over
or its process gone, and is then another counter. `QuotaPerMinute` adds the counters up:
a request counted for a key and minute is known by its counter's origin, Redis or one
life of one process, and its number up to `Limit`. `RefusalHasCause` is the converse,
a number is never above what was counted. `CauseInv` says so of the Redis counters,
the buckets and the numbers given (`SharedBacked`, `LocalBacked`, `NumbersBacked`).
What stands behind a counter only grows (`Keeps`), while the counter falls when it
forgets, and each step that raises one adds a request, or another sending of it, to what
stands behind it. `TrackedBounded` holds because
cleaning leaves buckets of this minute only, no bucket being of a later one
(`BucketsInv`), and the next bucket is of this minute too.

*Start-up.* `ServesReady` is about processes that serve; what they did before must
be remembered. `SInv` has, for each process, what it has seen to by where it is
(`Prepared`: the tables before the one at hand exist, or are seeded), and
`OwnAfterSeed`: records of other origin are in seeded tables only, so that a table
`Seed` skips because it has live rows is a seeded one. `Prepared` survives every
step of every other process because tables and seeds are never taken away.

*Session.* A restore joins the cached session with the user its response names, so
`SessionsAreWhole` depends on what was read before the await. `WInv` has that
(`Restoring`): the cached session was one session when it was read, the request
carries its token, and tokens are never issued anew, so the user named now is the
one cached. `LoggingIn` says the same of a login's answer. `StaysLoggedOut` follows
because a tab under restore shows a session and no logout button.

*Entity page.* Answers arrive in any order, so nothing relates the list, the dialog
and the table now. But each was read from the table (`WInv`): what the page holds of a row the row
once was, in that version, and every write raises the version. So when the
versions agree the row is what the dialog shows.

*Lists.* `PInv` adds to `WalkSeesAll` that of the rows that stayed as they were those
in front of the page to be read have been seen (`Behind`). Every write keeps it
because it moves such a row only away from the front (`WriteStep`; `Inserted` and `Removed` say what
the two operations on sequences do to positions). A page that is not full is the
last, because a list holds no row twice (`ShortIsLast`).

*Audit summary.* `SInv` says of each figure read so far that it counts a part of what
the window holds now, all of it when it was read: entries are committed and none is
taken away, and the window does not move, because its start is fixed when the request
begins. Set sizes then give the inequalities. That the sum by kind, and that by
action, is the number of entries speaks of a fold. A fold over sets chooses an element and
recurs, so nothing is known of it but its recursion. `OneSum` shows that only one
function satisfies it, by a smallest set on which two would differ, which
well-foundedness provides where induction is out of reach; the number of entries
of some kinds satisfies it too, hence is the sum (`SumOfParts`).

*Only model-checked:* liveness (`Recovers`, `StopsInTheEnd`, `LoadingEnds`), which
is beyond the prover.

## 7. Where the code departs from what it says

Two are runs that TLC refutes; `PROJECT.json` quotes the sentences.

* `delete_race`: a manifest submitted between the `Get` and the `DELETE` of a
  delete request is deleted although submitted, and the audit entry says it was a
  draft. `DeleteAudited` compares no version. The run has the two endpoints of the
  manifest only, so that the trace is this one; checks have the same gap.
* `startup_emptied`: an administrator deletes every record of a table; the next
  start counts no live row, inserts the seed again, violates the unique index, which
  covers soft-deleted rows, and exits, and so does every later one.

The following have a property but no run of their own; each is refuted by naming
it in the configuration given, in place of what that one checks.

| property | in | the code |
|---|---|---|
| `PassesOnlyPassable` | `races.cfg` | a check passes although its manifest was rejected after the lookup: the commit is guarded by the check's version, not the manifest's |
| `EntersOnlyQualified` | `races.cfg` | a manifest is submitted although its carrier lost its verification, or its generator was deleted, after the lookup |
| `OnlyPendingEdited` | `races.cfg` | an operator edits a verified carrier's license, which stays verified; the permission matrix gives operators data awaiting processing |
| `StatusFollowsGraph` | `checks.cfg` with `Ahead = 1` | an edit judged on a pending check and numbered one version ahead replaces the decision made meanwhile: the check is pending again, while the repository's `README.md:43` says that a decision cannot be taken back (核验决定不可回退). In `races.cfg` with `Ahead = 1` a transition is applied along an edge that does not exist |
| `DistributedLimit` | `limiter.cfg` | when Redis fails in the middle of a minute the count starts again in memory |
| `PagesAddUp` | `paging.cfg` | the total is counted before the page is read: a row may be created in between, and a reader who trusts the total misses the last page |
| `GuardsAgree` | `session.cfg` | a 401 clears the stored session while the page goes on as logged in; a wrong password does so for every tab |
| `OffersOnlyEdges` | `workbench.cfg` with `Kind = "complianceCheck"`, `Ids = {r1, r2}`, `Found = {r1}` | the buttons offer pending to escalated, and for carriers pending to expired, which the backend refuses |
| `ListsWhatWasAsked` | `workbench.cfg` with `Kind = "transferManifest"`, `Ids = {r1, r2}`, `Found = {r1}` | the answer that comes last is shown, and a write reloads without the search |

Noticed while modelling, and contradicted by no document: a restore that fails for
want of a network logs out; another tab's restore puts back the stored session a
logout cleared; behind a proxy that is not trusted all clients share one key of the
limiter; a token keeps its role until it expires; the response to a write is read
again after the commit and may show a later write, or be 404.

## 8. Not modelled

* Request ids, headers, logging and panic recovery: no state, no decision.
* Health, overview and runtime information: they read, and feed no decision.
* `Audit`, `CreateUser`, `CountUsers`, `AppendAudit`, the unaudited writes of the
  repository, the limiter's `Status`: nothing calls them.
* Redis losing an applied increment or executing a transaction after its client
  gave up for good, and clocks that step back: outside of what the code handles.
* Text fields, quantities, normalisation of codes, the parsing of headers, dates
  and JSON: no property tells their values apart.
* Ties of audit entries stamped in one instant: their order is the database's
  choice, and may differ between two queries.
* Rendering, the audit page and the panels of the front end; a dialog that another
  dialog's late answer closes is in `Workbench` but no property is about it.

## 9. Plan

All modules planned are written, and every safety property that a run checks is
proved.

## 10. Running

    tlc -workers 2 -config permits.cfg MCPlatform
    tlc -workers 2 -config session.cfg Session
    tlapm PlatformProofs.tla

The module of each run is in section 4. The proofs take one to three minutes per
module.
