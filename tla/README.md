# TamarackDB in TLA+

TamarackDB is an event store with one writer. A client opens a *transaction*, reads events with queries and gets an
append condition for each read, gathers new events and projection writes, and commits. The commit waits for its turn
in a first-in first-out queue, checks every condition against the log, and writes everything or nothing into SQLite.
The specifications here model that core, and the programs around the file: the queue, the registry of transactions, the
append, the pause, the queries, the calls of the HTTP layer, the backup, and the life of the database file from its
creation to its migration. The paths below are under `src/`.

## The system

| Component | State | Operations | Talks to |
|---|---|---|---|
| Write queue `internal/queue` | `next`, `served`, `closed`, sleepers on a condition variable | `Join`, `Turn.Done`, `Close`, `Waiting` | the writer |
| Writer `internal/writer` | `closed`, the WAL size of the next checkpoint, stats | `RunInTurn`, `WritePending`, `WriteProjections`, `Optimize`, `Close` | the queue; calls the store in a turn |
| Registry `internal/tx` | open transactions (busy, last use, open condition, conditions, events, projections), the pause, stats | `Begin`, `ReadEvents`, `WriteEvents`, `GetProjection`, `WriteProjections`, `Commit`, `Abandon`, `Reject`, `Pause`, `Resume` | the store for reads, the writer for commits and pauses |
| Store `internal/store` | the SQLite file (events, projections, `paused_at`), the position counter `nextSeq`, the pools, the file lock | `Append`, `ReadDecision`, `GetProjection`, bulk deletes, `SetPause`, `ClearPause`, `Open`, `Checkpoint`, `Import`, migration | SQLite |
| Events and queries `internal/dcb` | none | `Query.Matches`, validation | |
| HTTP API `internal/api` | none of its own | one handler per route; checks a body before it joins the queue | registry, writer, store |
| Server `cmd/tamarackdb-server` | process life | start, signals, ordered shutdown | all of the above |
| Backup `cmd/tamarackdb-backup` | a dump file and its last position | fetch pages of `GET /events`, resume | the API |
| Init `cmd/tamarackdb-init` | a new database, a temporary file | create, or read a dump and import it | the store |
| Migrate `cmd/tamarackdb-migrate` | the version of a database | one transaction per migration | the store |
| Configuration, names, ndjson, demo, buildinfo | none | | |

What is hard in it:

- *Interleaving.* Every request is a goroutine. The registry has one mutex, the queue another, the writer a third, and a
  commit holds none of them while it waits. Reads use their own connections beside the writer.
- *Waiting.* A condition variable shared by all waiters; a commit may wait longer than the idle timeout; a pause waits
  for transactions that no one has to end.
- *Failure.* An insert or a SQLite commit fails after positions were reserved; the code panics in a turn; the process
  dies anywhere; an answer is lost after the write.
- *Stale values.* The position of a read, the counter used as a shortcut for a condition, the versions of projections.
- *Twice the same.* A query is answered in Go and in SQL; an event is kept in three tables; a limit is applied to rows
  that are fetched with another one; many writes of a projection become one.
- *Several programs on one file.* Servers, backups, inits and migrations of several versions may be started at once, and
  each is killed somewhere.

And what makes each component correct: the turn is exclusive, in order, capped, and always passed on (queue); no work
begins after the close (writer); a call never loses its transaction, a commit writes only on decisions that still hold,
and a pause means a still log (registry); positions are dense and unique, and SQL and Go select the same events (store);
a net write does what the sequence of writes would (projections); an error ends a transaction for all its calls (HTTP);
a copy is a prefix of the log, and a run that succeeds has all of it (backup); what is at the name of the database is
whole, and what a program reported stays true (init, migrate, server).

## The modules

| Module | Models | Code |
|---|---|---|
| `Line` | what the queue promises: a line, a head that works, a close that lets the work end and turns the rest away | `queue`, `writer.RunInTurn`, `writer.Close` |
| `Fifo` | the queue as it is written: tickets, sleepers, broadcast, and the two halves of `Writer.Close` | `queue/queue.go`, `queue/turn.go`, `writer/writer.go` |
| `Decisions` | definitions only: queries, conditions, the check of a condition, the state of a projection in a transaction, its net operation, the conditional write | `dcb/query.go`, `store/append.go`, `store/projection.go`, `tx/projections.go` |
| `Registry` | the state machine: transactions from `Begin` to the answer of `Commit`, requests outside transactions, the append, the pause, the restart | `tx`, `store`, the handlers that join the queue |
| `EventLog` | what the transactions promise: a log, commits that are one step, a pause | |
| `Calls` | requests on a transaction that meet each other, from the body to the answer; projections with payloads and versions; `POST /projections` | `api/tx.go`, `api/projection.go`, `api/errors.go`, `api/body.go`, `tx`, `store/projection.go` |
| `Queries` | events as they come and as they are kept, validation, queries in memory and as SQL, pages, reads of a transaction | `dcb`, `store/query.go`, `store/read.go`, `store/append.go`, `api/events.go` |
| `TagSets` | definitions only: the tags of an event, as they are written and as they are kept | `dcb/event.go` |
| `Backup` | runs of the backup against an instance that writes, checkpoints and crashes | `tamarackdb-backup/run.go`, `store/import.go`, `writer.checkpoint` |
| `Copy` | what a backup promises: a prefix of the log that only moves forward | |
| `Database` | the database file, its lock and its socket, and the programs that create, import, serve and migrate it | `tamarackdb-init`, `tamarackdb-server/main.go`, `tamarackdb-migrate`, `store/sqlite.go`, `schema.go`, `migrate.go`, `lock.go` |
| `Dump` | the import reading a dump: which lines are refused, what becomes of the others, the batches, the summary | `tamarackdb-init/dump.go`, `tamarackdb-init/import.go`, `store/import.go` |
| `FifoProofs`, `RegistryProofs`, `EventLogProofs`, `CallsProofs`, `QueriesProofs`, `BackupProofs`, `DatabaseProofs`, `DumpProofs` | the theorems | |
| `MCFifo`, `MCRegistry`, `MCCalls`, `MCQueries`, `MCBackup`, `MCDatabase`, `MCDump` | the instances for TLC, the fairness of a client | |

`Registry` uses the actions of `Line` as its queue; `Fifo` implements `Line` (`IsALine`); `Registry` implements
`EventLog` (`IsAnEventLog`); `Backup` implements `Copy` (`IsACopy`). So the mutexes and condition variables of the queue
are checked once, and the registry is checked over a line. The other four stand beside it, each with a finer view of
something `Registry` keeps coarse: `Calls` has the payloads, the limits and the answers, and two choices in place of the
log; `Queries` has the tables, and one reader at a time; `Database` has the files, and positions in place of events;
`Dump` has one step of `Database`, the import, line by line.

### Fifo

`Manager.Join` holds the mutex from its first check to its first `Wait`, so joining is one step, `JoinClosed`,
`JoinFull` or `JoinTicket`. `Wait` puts the request to sleep; `Broadcast` empties `asleep`; each woken request then takes
the mutex again and does one of `TakeTurn`, `GiveUp`, `SleepAgain`, in any order. `StartWork` is the look at
`Writer.closed` in turn, `FinishWork` the end of `fn` and the checkpoint, `Done` the deferred `turn.Done`. A panic of `fn`
ends in `FinishWork` as well, since `Done` is deferred. `uint64` tickets do not wrap in any run of a server.

### Registry

The grain is the lock. One hold of `Registry.mu`, one SQLite transaction, one step of the queue is a step. A call that
marks its transaction busy and then works on what is private to it is one step up to its release: no other call can use
the transaction meanwhile, a busy one is not expired, and a read of the store is one snapshot at one moment. The release
is a step of its own, because another call may find the transaction busy before it and time may pass. What a call that
fails does (end, then release) is `EndTx`.

`lock()` ends the idle transactions in every hold of the mutex. The steps that hold it therefore look at `Live`, the
transactions left after that, and pass through `Registered`, which forgets the others. `Tick` lets the idle timeout of
one transaction pass, at any time, busy or not.

`pc` says where each call is. `Commit` keeps its transaction registered: `joining`, `queued` (`Join`), `turn` (`Start`),
then `Reserve` (all conditions and versions hold, the positions are reserved), `CommitWrite` or `FailWrite`, `worked`,
`Leave` (`turn.Done`), `ending`, and `EndCommit` (`end` and `release`). `Refuse` is a conflict or an SQLite error before
the reservation. Requests outside transactions go the same way, and work in one step.

What an event carries is its position, its kind and who wrote it; a query is a set of kinds. The position of a read, the
counter and the shortcut of `resolveWithoutQuery` are as in the code. The version of a projection stands for a uuid, and
a new one was never used before. A SQLite transaction that reports a failed commit is taken to be rolled back, and one
that reports success to be in the file.

`seen`, the events a read saw, is history: no guard reads it.

### EventLog and the refinement mapping

A transaction of `EventLog` goes on (`Going`) while it is registered, has not expired and has not been written. Expiry
is lazy in the code: `lock` removes an idle transaction when the registry is next used. In `EventLog` it is over the
moment its time is up (`Drop` at `Tick`), and the later removal is a stutter. `CommitWrite` is `Commit`: the reads made
at different moments all match the log at that one. A crash is a `Drop`. The mapping is at the end of `Registry`, and that of
`Fifo` to `Line` at the end of `Fifo`: the requests in line, in the order of their tickets.

### Calls

A client may have several requests under way on one transaction: it does when it gave up waiting and calls again. A call
is two steps. `Acquire` is the handler up to `Registry.acquire`: it decodes and validates the body, and then finds the
transaction free (`call[t]` is what it will do), busy, or gone. The second is the work up to `release` and the answer:
`ReadEvents`, `WriteEvents`, `GetProjection`, `WriteProjections`, `CommitWrites`, `AbandonEnds`, and `Reject`, which is
what a handler calls when it turned a body down. `Release` keeps the transaction and `End` ends it, as in `Registry.do`.

A body is a list of operations, creates, then replaces, then deletes, the order in which the code goes through them;
`FirstFault` finds the error that is answered. To keep the state small, what an accepted body says is chosen by the work
rather than by `Acquire`: nothing looks at it in between.

`projections` of a transaction is the map of `projectionState`; `NetProjections` is `netProjections`. `Holds` and `Write`
are `writeProjections` with its conditional statements. The uuids of the rows of one write count as one version: a
version is compared only with those of its own projection. `PostProjections` is a `POST /projections` that writes; any
other outcome changes nothing. `lost` remembers one such write whose response did not arrive.

### Queries

Each action is one SQLite transaction. `Events` is what validation leaves of every event a client may send, and
`Queries` of every query. `Matches` is `Query.Matches`; `QuerySQL`, `ItemSQL` and `Tagged` are the conditions
`queryToSQL` builds, on the tables `events`, `identifiers`, `metadata`. `AppendBatch` writes the three tables,
`MarshalCompact` the copy of the tags in the row of an event.

`ReadEvents` and `NextPage` are `QUERY /events`: one row past the limit, then a page that arrives whole with its trailer,
or is cut after any line. `ReadTxEvents` is the read of a transaction, with `Committed`, `Pending`, `ReadCount` and `Sent`
for the limits of `Registry.ReadEvents` and `writeTxEvents`. `CheckCondition` is the check of its decision at commit.

`log` and `floor` are history, the events as they were received: properties compare the tables with them. Items and
values are sets, since their order matters to nobody; the order of the names in a tag object is lost in Go's map and
read by nobody. A multi-row `INSERT` is one step, whatever the chunks it is cut into. One client of pages or one
transaction goes on at a time, with the writes of others between any two of its steps.

### Backup and Copy

`Start` takes the lock and reads the last sequence of the file. `Load`, `Send` and `Receive` are one page: the snapshot
at the source, its rows, and every line up to the trailer. `PageFails` stands for all that can go wrong with an answer,
the client's timeout included; `Import` and `ImportFails` for `Store.Import`. `Kill` may come at any point.
`InstanceRestarts` cuts the answers under way.

In the instance, `WriteTurn` is a turn of the write queue: the events of one write, and `Writer.checkpoint`, which gives
up after the busy timeout when a reader is in the way and then waits for the WAL to grow by another
`walCheckpointSize`.

Positions in the source are dense (`NoGap` of `Registry`), and nobody sends it `DELETE /events`. A run that fails may
leave the last write of the source half copied; one that succeeds never does (`CompleteOnSuccess`).

### Database

A file is its pages and the newest commit of the WAL beside it, which SQLite finds by its name. `Start` picks a program
and a binary with a schema version. The server and init go through `AcquireLock`, `CreatePrivate`, `CreateSchema` or
`FindSchema`; the import through `CreateTemp`, `OpenTemp`, one `ImportBatch` per `store.Import`, `CloseTemp`, `Link` and
`SyncDir`; the migration through `BeginMigration`, `StampVersion`, `CommitMigration`; the server then serves
(`Listen`, `BeginWrite`, `CommitWrite`, `Answer`, `Checkpoint`) and stops (`Shutdown`, `CloseStore`, `Exit`). `Fails` is
an error of any of these steps, and `Kill` and `PowerLoss` may come between any two. `CloseStore` does not wait for the
requests: they may have run into the ten seconds, and a write may end after the lock is let go, until the process exits.

`Closed` is what closing the last connection may do: copy the WAL and delete it, or fail to, silently. `durable` says
that the name of the file survives a power loss. After an import that is `syncDir`; after a first commit it is SQLite,
which syncs the directory with the WAL it creates. `schemaVersion` is 0 in this release, so no migration runs yet: the
model has three versions, and follows `migrate` as it is written.

### Dump

`ReadLine` is `dumpReader.next` on one line and what `writeEvents` does with it, a full batch included; `UnreadableLine`
a line that is empty, not JSON of these six fields, or goes on after them; `EndOfDump` the last batch; `ImportFails` an
error of the reader or of the store. A line is the values its fields end up with, and its tags as they are written, an
object of members whose names may come twice. `Kept` is what `encoding/json` makes of such an object: the last member of
a name. `Parses` is `parseLine`. One object stands for identifiers and metadata, which are read alike, and a name the
rules refuse is treated like a value they refuse. `lines` and `own` are history: the lines taken, and whether all of
them are what `Event.MarshalJSON` gives for events that follow each other (`Served`).

## What the runs check

| Run | Instance | Question |
|---|---|---|
| `fifo` | 4 requests, room for 2 behind the turn | Is the turn exclusive (`OneTurn`), in order (`InTicketOrder`), is a request refused when 2 wait and only then (`CapIsExact`), is nothing started after a close (`NoWorkAfterClose`), is nobody stranded (`EveryoneLeaves`), and is it a `Line`? |
| `commits` | 2 transactions, up to 2 reads and 2 events each, 1 administrator with pause and resume, room for 1, a shutdown at any time, crashes | Do decisions hold when they are written, does a transaction end with its commit and not before (`EndsWithItsCommit`), do the pause in memory, in the file and in the log agree (`PauseInPlace`, `StillWhilePaused`), and is it an `EventLog`? |
| `crowd` | 3 transactions, 2 open at once, 2 kinds of events, room for 1, `DELETE /events`, crashes | The same decisions when reads miss some events, the log has grown or was emptied since, and the line is full; and is the log dense (`NoGap`)? |
| `liveness` | 1 projection, 2 transactions, 1 administrator with `POST` and `DELETE /projections` and a pause, room for 1 | Are the versions a commit writes on those it read (`DecisionsHold`), is every commit answered (`CommitAnswered`), and does a pause that is asked for again and again come, once the clients stop reading and writing (`PauseComes`)? |
| `positions` | 1 transaction, `DELETE /events`, a crash | Finds the first divergence below. |
| `calls` | 1 transaction, 2 projections, 2 payloads, up to 2 operations in a body, 2 versions | Does an error end the transaction for every call (`ErrorsEnd`), is the net operation what the client was told (`NetIsSequence`), is a write that replaces or deletes refused when it is sent again (`AppliedOnce`)? |
| `retry` | the same with 1 projection and 1 payload | Finds the second divergence below. |
| `queries` | 2 types, 1 name, 2 values, 2 positions, pages of 1, limits of 0 to 2 | Do the tables hold the log (`TablesMirrorLog`), do pages miss nothing (`PagesMissNothing`), does a transaction read its own events (`ReadsOwnWrites`), is the check at commit exact (`ConditionsAgree`)? |
| `backup` | 2 runs, 4 events in writes of up to 2, pages of 2, 1 crash | Does a page continue the file (`PageContinuesFile`), is a success complete (`CompleteOnSuccess`), do writes wait rarely (`StallsArePaid`), is the lock let go (`LockFreed`), and is it a `Copy`? |
| `database` | 2 processes, versions 0 to 2, dumps of up to 2 batches, 2 positions | Is what has the name of the database whole (`FileIsWhole`), and do reports stay true (`ReportsHold`), through kills and power losses? |
| `dump` | 3 lines, batches of 2, tags of up to 2 members with up to 2 values, any form the reader tells apart | Are the events the lines, with all they say (`NothingDropped`), is the summary what the file holds (`SummaryIsTrue`), and is no dump of the server's own answers refused (`OwnDumpsPass`)? |
| `dump_case` | the same, and fields under two names | Finds the third divergence below. |

`TypeOK` is an invariant of the first run of each component.

The bounds of `Fifo` and `Registry`. Two transactions are enough for one to change what the other read, and three for
one that reads, one whose events it read and that are deleted, and one that gets their positions again. Two reads per
transaction give one condition that is older than the other, two events give a write that is more than one position.
Four requests in `Fifo` are one with the turn, two waiting and one refused. A log never grows past what the transactions
may write, so the only bound that cuts behaviour is `MaxVersion`, the version up to which `POST /projections` may write.
In `liveness` it is 1: only the first version of all can be one of `POST`, and what comes between a read and its commit
is otherwise the commit of the other transaction or `DELETE /projections`. Commits are not cut. A transaction is begun
at most once. The shutdown is in `fifo` and `commits`: in `liveness` it would double the states, and that every request
leaves a line that closes is `EveryoneLeaves`. There is one administrator in each run; a pause and a resume that wait
for their turn at once, of two administrators, are left to the theorems on `PauseInPlace` and `StillWhilePaused`, which
hold for any number of them.

The bounds of the others. In `calls` a transaction is looked at alone, because two share only the table, which
`PostProjections` and `DeleteProjections` change in every way another transaction can; two projections give a body that
names two or one twice, and a write that holds for one of them only; two versions give a row that was replaced, or
deleted and created again, since it was read. In `queries` two values of a name give an event that has one, the other,
or both, two types a query that takes one or both, two terms an item that joins axes or two items; with pages of one,
two positions are two pages, and a read of more than `MaxEventsPerTxRead` is refused. In `backup` four events are two
pages and a write that lies across them, and the WAL crosses its threshold twice. In `database` two processes are one
that works and one that interferes, and each becomes another program when it ends; three versions give a binary that is
too new to migrate a file in one step. In `dump` three lines are a full batch and one that is not, or one that is left at
the end with nothing in it; two members are one name twice or two names; two values are a value twice, or one too many
for the limit. The sequences tried are those around where a dump begins and goes on. `dump` leaves out fields under two
names that differ in case, which `dump_case` is about (`Repeats`): they would only multiply its lines. The theorems below
hold without these bounds.

`Tx`, `Kind`, `Key`, `Payload`, `Proc` and the texts of `queries` are symmetric; symmetry is used in no run with a
liveness property. Deadlock is checked except in `fifo`, where all requests may be over, in `backup`, whose
bounds let the source stop while a run waits to be started, and in the runs of `dump`, a program that ends.

### Fairness

The server carries on: a goroutine that can run does, a write ends, a `Close` that began is finished (weak fairness per
call). Nothing makes a client call, time pass, or the server stop. `PauseComes` needs more. `Driven` says that the
client asks again (`tx.Pause` tells it to), that the time of every transaction passes, and that the store does not fail
to record the pause for ever. `ClientsRest`, the premise of the property, says that from some time on no call on a
transaction is made but to commit it or to end it. It cannot be left out: a client that goes on reading one projection
counts against no limit (`tx/projections.go:57`), one that writes it again counts once (`:138`), and each release starts
the idle time over (`tx/tx.go:263`), so it keeps its transaction, and the pause waits. That is as documented: "A
transaction that keeps making calls lives as long as it needs" (`docs/content/docs/operations/configuration.md:80`).
`CommitAnswered` needs only the server's fairness, and no rest. `LockFreed` asks that a run goes on by itself and
that its client's timeout ends a request that hangs. Nothing is asked of the source, which may never answer, nor of what
starts the runs. It also rests on an instance that does not write faster than it is copied: the log of the model is
bounded.

### Findings

`positions`: after `DELETE /events`, a restart starts the counter at 1 (`store/sqlite.go:132`), while
`docs/content/docs/development/http-api.md:434` says "Sequence Positions go on: the next event doesn't get sequence 1."
`TestDeleteAllEventsKeepsTheCounter` has no restart in it. `DecisionsHold` is not affected: a restart ends every
transaction.

`retry`: `docs/content/docs/development/http-api.md:350` says of `POST /projections` "A write whose response is lost can
be sent again as is: it's never applied twice." `NeverAppliedTwice` is that sentence. A write that only creates holds
whenever its projections do not exist (`store/projection.go:78`), so it is applied again when they were deleted before
it is sent again. `AppliedOnce` is what is left, and proved: a write that replaces or deletes anything is refused for
ever. `TestWriteProjectionsConflicts` sends the create again while its projection is there.

`dump_case`: `parseLine` refuses a key that comes twice by a pass of its own over the line (`checkNoDuplicateKeys`,
`tamarackdb-init/dump.go:163`), which compares keys as they are written. `encoding/json` finds a field whatever the case of
its name. A line with `"type"` and `"Type"` passes, and its event has the value that comes last, while
`dump.go:63` says "A missing, null, unknown, or repeated field is refused". Names of tags are the keys of a map, whose case
counts in both passes, so `NothingDropped` holds of them.

### Remarks

Where the words around the code are wider than the code, the properties state what the code does:

- `http-api.md:123` lists the errors that do not end a transaction, and leaves out 401: a request without the token does
  not reach the transaction (`Unauthorized`).
- `dcb/query.go:17` says that `Validate` rejects an empty array. An item that differs from an earlier one only in an
  empty array has the same key, and is dropped by `dedupeQueryItems` before `Validate` sees it. The query means the same.
- An error of `syncDir` makes an import fail although a whole database already has its name; the comment on
  `importDump` says that no database is left.
- A plain init that meets an import reports "created" for a file it did not make. `reported.created` counts only the
  program that made it.
- `lock.go:13` says that the lock is held as long as the `Store` is in use. After a shutdown that ran into its time limit
  a write may end after the release. A server started in that moment may have read the counter too early; its appends
  then fail on the primary key until it is started again, and nothing is lost (`ReportsHold`).
- An event whose line is over `maxNDJSONLine` makes every run of the backup fail, and `maxEventSize` has no upper bound.

## What is proved

The proofs hold for any sets of requests, transactions, kinds, projections, runs and processes, finite or not, for any
limits, and without the bounds of the runs. Every invariant the passing runs check is proved.

`FifoProofs`, from `FifoAssumption`: `TypeOK`, `OneTurn`, `InTicketOrder`, `NoWorkAfterClose`, `CapIsExact`. Neither
`OneTurn` nor `InTicketOrder` is inductive, because a step that hands the turn over only looks at one ticket and at
`served`. The inductive invariant adds where tickets lie: all below `next`, no two in line alike, the holder's equal to
`served`, the others' at `served` or above. `CapIsExact` rests on `LineMeasured`: until the line closes no ticket is
given up, so the two counters are as far apart as the line is long, and what `Waiting` tells of them is what is true of
the line (`WaitingTells`).

`StepsOfALine` is the refinement of `Line` without its fairness. The line is a sequence and the code keeps none, only a
number per request, so the mapping has to be computed: the place of a request is the number of requests in line up to
its ticket (`Place`), and the places are one each, from 1 to the length (`PlaceInjective`, `PlaceOnto`), which makes the
order one sequence and no other (`OnlyOrder`). A request that joins is then appended, the one that is done was the head,
and after a close any one leaves from the middle (`InOrderJoins`, `InOrderHead`, `InOrderLeaves`). `NoWakeUpIsLost` is
the safety half of `EveryoneLeaves`: nobody sleeps on a ticket that is served, nor in a closed line (`Wakes`), and
before the close the ticket that is served is that of somebody in line (`ServedIsInLine`), so someone can always go on.
That the served ticket is somebody's needs `next - served` to be the length of the line, again a matter of cardinality.

`RegistryProofs`, from `RegistryAssumption`: `TypeOK`, `DecisionsHold`, `NoGap`, `PauseInPlace`, `EndsWithItsCommit`,
`StillWhilePaused`. `DecisionsHold` speaks of one moment, when a commit has its positions. Its proof rests on
`Positions`, what a condition means all along: its position is one the log has reached, and every event it matches up to
there was seen. A read establishes it because `max(sequence)` is the last committed position (`LastEvent`, from
`NoGap`); a commit keeps it because its events come after; `DELETE /events` keeps it because it only takes away. At the
reservation, each of the three answers of `checkCondition` then means that all that matches was seen (`HoldsMeansSeen`).
`NoGap` needs `Turns`, one call at a time in its work, and `Reserved`, how far the counter is ahead of the log. `Quiet`
says once what all the other steps leave alone. `PauseInPlace` needs `BusyIsOpen`, a call finds its transaction
registered: an empty registry means that no commit is under way, whichever step of it. `EndsWithItsCommit` needs it too,
and that what others do leaves a transaction in use alone (`OthersKeep`). `NoGhostInLine` ties the line to the calls:
the calls that wait or work are in it, each once, and the one that works is its head. A step either leaves both alone,
or is one of `Line`'s with the stage of one call (`LineJoins`, `LineStarts`, `LineLeaves`).

`EventLogProofs`, from the same assumption: `IsAnEventLog`, the refinement, and `EventsAreForEver`. Both assume that
nobody may ask for `DELETE /events` (`NoDeletes`): `EventLog` promises that what is written stays, and the server offers
that request in development mode only (`http-api.md:22`); `commits`, the run that checks `IsAnEventLog`, is such a
server. The invariant of `RegistryProofs` is not enough for it. `DecisionsHold` says that a read saw all that matches
now; `EventLog` also wants it to have seen nothing else, which is true since what was seen stays (`SawTheLog`), and a
commit to leave no read open (`Gathered`). Most steps map to a stutter, or end a transaction without a trace
(`DropStep`).

`CallsProofs`, from `CallsAssumption`: `TypeOK`, `ErrorsEnd`, `NetIsSequence`, `AppliedOnce`. Versions only grow
(`VersionsGrow`), and a row gets a new one or goes (`StoreMoves`); so a projection that has the version a transaction
read is the row it read (`Tracks`), and what a lost write replaced is of a version that does not come back
(`LostIsPast`). `NetHolds` then derives `NetIsSequence` from what each transaction holds (`Own`), without induction.

`QueriesProofs`, from `SizesAssumption`: `TypeOK`, `TablesMirrorLog`, `PagesMissNothing`, `ReadsOwnWrites`,
`ConditionsAgree`. From `TablesMirrorLog`, SQL and `Matches` select the same positions, whatever the query. Limits are
about the elements with fewer than so many before them (`FirstOf`); the lemmas on them say what is left when one row more
was fetched, and what a limit is on the log followed by the pending events. Between two pages the log moves; the
invariant keeps that no event up to where the client is appears later (`PageKnows`), and, for a decision, that what is new
is past its position (`DecisionKnows`). `TwoAnswersAgree` says the same of every query at once, from any position on, in
every state of the tables. `DedupeKeepsTheQuery` is about what a client sent: of the items with one key the first is
kept (`FirstOfKey`, by the well-founded order of intervals, in place of an induction), and a query that `Validate` lets
through matches exactly what the items matched before.

`BackupProofs`, from the three assumptions of `Backup`: `TypeOK`, `PageContinuesFile`, `CompleteOnSuccess`,
`StallsArePaid`, and `IsACopy`, the refinement. That the file is a prefix of the log is not inductive: what keeps a page
in its place is the lock (`OneRun`), since the file cannot move under the run that holds it, so the position its page was
asked after is still the last (`RunKnows`).

`DatabaseProofs`, from the assumptions of `Database`: `TypeOK`, `FileIsWhole`, `ReportsHold`. What becomes of the file is
decided by what processes have under way: the invariant adds, for each, what it has of its own (`OwnFits`,
`TransactionFits`) and what it may count on in the file, because nothing takes it back (`CountsOn`). Its transaction
follows the newest commit as long as it is the only one (`OneWriter`), whoever holds the lock.

`DumpProofs`, from the two assumptions of `Dump`: `TypeOK`, `NothingDropped`, `SummaryIsTrue`, `OwnDumpsPass`. The
invariant takes the file and the batch as one list, the events read, and adds that the lines taken have the sequences
the summary says (`Counted`) and that the counter follows the file (`Resumes`). A line that parses has no name twice, so
what decoding keeps of it is all of it (`KeptIsAll`).

Only model-checked: liveness (`EveryoneLeaves`, `PauseComes`, `CommitAnswered`, `LockFreed`) and the fairness in
`IsALine`, whose steps `StepsOfALine` proves, since the provers do not reach liveness under fairness; and the findings,
which are counterexamples. `IsAnEventLog` says nothing of a server that may delete events: the log of `EventLog` only grows.

## Not modelled

- Configuration: settings are read once, before anything runs. The limits it resolves are constants here.
- Names, ndjson, demo, build information: no state. A text is one the rules allow or one they refuse.
- Statistics, `GET /stats`, `GET /health`, `GET` of a projection outside a transaction, logging, routes, the wording of
  errors and the wire form of answers.
- The stall deadline of a slow reader (`api`): to its client it is a page that is cut, to the writes a read that ends.
- In `Database`, the first sequence of a dump is taken to be 1 (`Dump` has the others). A WAL left behind by a
  database that an operator deleted is not looked at either.
- Flags, TCP listeners, the permissions of a socket, the removal of a socket by hand.
- SQLite: connection pools, pragmas, query plans, the chunks of a statement, the optimize at start. A SQLite transaction
  is atomic, and one that reports success is in the file. Loss of a file or of what SQLite reported is not modelled.
- Sizes in bytes, except as a sum of the parts of an event; overflow of 64-bit counters, as after a dump that goes up to
  the last `int64`.

## Plan

Done: the queue and the registry with their abstract specifications; the calls of the HTTP layer with the net operation
and the retries; the SQL of queries, pages and reads; the backup and its checkpoint; the life of the database file; the
reading of a dump. All their invariants are proved, and so are the three refinements, `IsALine` without its fairness.

Left: for `Database`, an abstract specification of what a file at a name promises; for `Calls`, the operations of a
transaction on one projection as a machine of its own; a composition of `Calls` with `Registry`, in which two
transactions meet a full queue with payloads.
