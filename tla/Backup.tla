------------------------------- MODULE Backup -------------------------------
(***************************************************************************)
(* tamarackdb-backup copying the events of a running instance, page by     *)
(* page, into its own file; and, in the instance, the writes that go on    *)
(* meanwhile, each one ending with the checkpoint that keeps the WAL       *)
(* small, which a read that loads its page makes wait.                     *)
(*                                                                         *)
(* A run is started by cron, so two may meet; it may be killed anywhere,   *)
(* and the instance may crash while it answers.                            *)
(***************************************************************************)
EXTENDS Naturals, Sequences

CONSTANTS Runs,        \* the backup processes that may overlap
          NoRun,       \* the owner of a free lock
          PageLimit,   \* pageLimit: events per page
          Threshold,   \* walCheckpointSize
          MaxEvents,   \* bound: events committed
          MaxCommit,   \* bound: events of one write
          MaxGrowth,   \* bound: what one write adds to the WAL file
          MaxGrown,    \* bound: what the WAL file grows by in all
          MaxCrashes   \* bound: crashes of the instance

ASSUME RunsAssumption == NoRun \notin Runs
ASSUME LimitAssumption == PageLimit \in Nat \ {0}
ASSUME WALAssumption == Threshold \in Nat \ {0}
ASSUME BoundsAssumption ==
    /\ MaxEvents \in Nat /\ MaxCommit \in Nat /\ MaxGrowth \in Nat
    /\ MaxGrown \in Nat /\ MaxCrashes \in Nat

VARIABLES
    \* the instance
    log,             \* committed events, each with the write it belongs to
    wal,             \* size of the WAL file
    nextCheckpoint,  \* Writer.nextCheckpoint
    crashes,
    \* the backup
    file,            \* the events of tamarackdb-backup.sqlite
    lock,            \* who holds the lock on it
    run,             \* what each process is doing
    \* history, for the properties
    grown,           \* what the WAL held at the start of the process, and grew by
    stalls           \* checkpoints that gave up after the busy timeout

source == <<log, wal, nextCheckpoint, crashes, grown, stalls>>
backup == <<file, lock, run>>
vars == <<source, backup>>

Event == [sequence: Nat \ {0}, write: Nat]
Idle == [at |-> "idle", after |-> 0, began |-> 0, snapshot |-> 0,
         page |-> <<>>, hasMore |-> FALSE]

Init ==
    /\ log = <<>>
    /\ wal = 0
    /\ nextCheckpoint = Threshold
    /\ crashes = 0
    /\ file = <<>>
    /\ lock = NoRun
    /\ run = [r \in Runs |-> Idle]
    /\ grown = 0
    /\ stalls = 0

-----------------------------------------------------------------------------
(* The instance.                                                           *)

At(phases) == {r \in Runs : run[r].at \in phases}

\* WALSize or the PRAGMA fails: logged, and nothing else.
CheckpointFails(size) ==
    /\ wal' = size
    /\ UNCHANGED <<nextCheckpoint, stalls>>

CheckpointWaits(size) ==
    /\ size < nextCheckpoint
    /\ wal' = size
    /\ UNCHANGED <<nextCheckpoint, stalls>>

CheckpointDone(size) ==
    /\ size >= nextCheckpoint
    /\ wal' = 0
    /\ nextCheckpoint' = Threshold
    /\ UNCHANGED stalls

\* Mutant of CheckpointBusy: the threshold stays where it was.
CheckpointBusyAgain(size) ==
    /\ size >= nextCheckpoint
    /\ wal' = size
    /\ nextCheckpoint' = nextCheckpoint
    /\ stalls' = stalls + 1

\* A reader, a run that loads its page or an application, is still in the WAL
\* after the busy timeout.
CheckpointBusy(size) ==
    /\ size >= nextCheckpoint
    /\ wal' = size
    /\ nextCheckpoint' = size + Threshold
    /\ stalls' = stalls + 1

Checkpoint(size) ==
    \/ CheckpointFails(size) \/ CheckpointWaits(size)
    \/ CheckpointDone(size) \/ CheckpointBusy(size)

\* Mutant of NewEvents: the counter is the last position.
NewEventsFromLast(n) ==
    [i \in 1..n |-> [sequence |-> Len(log) + i - 1, write |-> Len(log) + 1]]

NewEvents(n) ==
    [i \in 1..n |-> [sequence |-> Len(log) + i, write |-> Len(log) + 1]]

\* One turn of the write queue: n events in one SQLite transaction (none for
\* a write of projections, or one that fails), then the checkpoint.
WriteTurn(n, growth) ==
    /\ Len(log) + n <= MaxEvents
    /\ grown + growth <= MaxGrown
    /\ log' = log \o NewEvents(n)
    /\ grown' = grown + growth
    /\ Checkpoint(wal + growth)
    /\ UNCHANGED <<crashes, backup>>

\* A crash keeps what is committed and the WAL file; a stop deletes the WAL.
\* Every answer under way is cut.
InstanceRestarts ==
    /\ crashes < MaxCrashes
    /\ crashes' = crashes + 1
    /\ wal' \in {0, wal}
    /\ grown' = wal'
    /\ stalls' = 0
    /\ nextCheckpoint' = Threshold
    /\ run' = [r \in Runs |-> IF run[r].at \in {"loading", "sending"}
                              THEN [Idle EXCEPT !.at = "cut"] ELSE run[r]]
    /\ UNCHANGED <<log, file, lock>>

-----------------------------------------------------------------------------
(* A run.                                                                  *)

LastSequence ==
    LET taken == {file[i].sequence : i \in DOMAIN file} \cup {0}
    IN  CHOOSE s \in taken : \A t \in taken : t <= s

\* A run that finds the lock held exits at once, and changes nothing.
Start(r) ==
    /\ run[r].at = "idle"
    /\ lock = NoRun
    /\ lock' = r
    /\ run' = [run EXCEPT ![r] = [Idle EXCEPT !.at = "ask", !.after = LastSequence,
                                              !.began = Len(log)]]
    /\ UNCHANGED <<source, file>>

\* The source takes the snapshot of QUERY /events,
Load(r) ==
    /\ run[r].at = "ask"
    /\ run' = [run EXCEPT ![r].at = "loading", ![r].snapshot = Len(log)]
    /\ UNCHANGED <<source, file, lock>>

\* Mutant of Rows: as many rows as the page holds.
RowsNoExtra(r) ==
    LET last == run[r].after + PageLimit
    IN  SubSeq(log, run[r].after + 1,
               IF last < run[r].snapshot THEN last ELSE run[r].snapshot)

\* Mutant of Rows: the event at afterSequence + 1 is left out too.
RowsSkip(r) ==
    LET last == run[r].after + PageLimit + 2
    IN  SubSeq(log, run[r].after + 2,
               IF last < run[r].snapshot THEN last ELSE run[r].snapshot)

\* asks for one event more than the page holds,
Rows(r) ==
    LET last == run[r].after + PageLimit + 1
    IN  SubSeq(log, run[r].after + 1,
               IF last < run[r].snapshot THEN last ELSE run[r].snapshot)

\* and keeps the page, and whether there was one more, to send them.
Send(r) ==
    /\ run[r].at = "loading"
    /\ run' = [run EXCEPT ![r].at = "sending",
                          ![r].hasMore = Len(Rows(r)) > PageLimit,
                          ![r].page = IF Len(Rows(r)) > PageLimit
                                      THEN SubSeq(Rows(r), 1, PageLimit) ELSE Rows(r)]
    /\ UNCHANGED <<source, file, lock>>

\* Every line arrives, the trailer last.
Receive(r) ==
    /\ run[r].at = "sending"
    /\ run' = [run EXCEPT ![r].at = "page"]
    /\ UNCHANGED <<source, file, lock>>

\* The run ends, with an error or not, and the process lets the lock go.
Ends(r) ==
    /\ run' = [run EXCEPT ![r] = Idle]
    /\ lock' = NoRun
    /\ UNCHANGED <<source, file>>

\* Mutant of PageFails: an answer that hangs is waited for.
PageFailsNoTimeout(r) ==
    /\ run[r].at = "cut"
    /\ Ends(r)

\* The source refuses, the answer ends before its trailer, after any line of
\* the page, or it takes longer than fetchTimeout: nothing of it is kept.
PageFails(r) ==
    /\ run[r].at \in {"ask", "loading", "sending", "cut"}
    /\ Ends(r)

Taken(page) == {page[i].sequence : i \in DOMAIN page}
                    \cap {file[i].sequence : i \in DOMAIN file} # {}

\* Mutant of Import: lastSeq is not moved.
ImportStaleAfter(r) ==
    /\ run[r].at = "page"
    /\ ~Taken(run[r].page)
    /\ file' = file \o run[r].page
    /\ run' = [run EXCEPT
         ![r].at = IF run[r].hasMore THEN "ask" ELSE "done",
         ![r].snapshot = 0, ![r].page = <<>>, ![r].hasMore = FALSE]
    /\ UNCHANGED <<source, lock>>

\* Store.Import in one SQLite transaction; a page with nothing skips it.
\* hasMore sends the run for another page, after the last event it has.
Import(r) ==
    /\ run[r].at = "page"
    /\ ~Taken(run[r].page)
    /\ file' = file \o run[r].page
    /\ run' = [run EXCEPT
         ![r].at = IF run[r].hasMore THEN "ask" ELSE "done",
         ![r].after = IF run[r].page = <<>> THEN @
                      ELSE run[r].page[Len(run[r].page)].sequence,
         ![r].snapshot = 0, ![r].page = <<>>, ![r].hasMore = FALSE]
    /\ UNCHANGED <<source, lock>>

\* A sequence that is taken, a full disk: the SQLite transaction rolls back.
ImportFails(r) ==
    /\ run[r].at = "page"
    /\ run[r].page # <<>>
    /\ Ends(r)

Succeed(r) == run[r].at = "done" /\ Ends(r)

Kill(r) == run[r].at # "idle" /\ Ends(r)

-----------------------------------------------------------------------------
Next ==
    \/ \E n \in 0..MaxCommit, growth \in 0..MaxGrowth : WriteTurn(n, growth)
    \/ InstanceRestarts
    \/ \E r \in Runs :
        \/ Start(r) \/ Load(r) \/ Send(r) \/ Receive(r) \/ PageFails(r)
        \/ Import(r) \/ ImportFails(r) \/ Succeed(r) \/ Kill(r)

Spec == Init /\ [][Next]_vars

\* A run goes on by itself, and the client's timeout ends a request the
\* source never answers.  Nothing is asked of the source, which may hang, nor
\* of who starts the runs.
FairSpec ==
    /\ Spec
    /\ \A r \in Runs : WF_vars(PageFails(r)) /\ WF_vars(Import(r) \/ ImportFails(r))
                       /\ WF_vars(Succeed(r))

-----------------------------------------------------------------------------
(* Properties.                                                             *)

Phases == {"idle", "ask", "loading", "sending", "cut", "page", "done"}

RunState == [at: Phases, after: Nat, began: Nat, snapshot: Nat,
             page: Seq(Event), hasMore: BOOLEAN]

\* The variables stay what they are declared to be (run.go's locals, the
\* Writer's nextCheckpoint, the file's rows).
TypeOK ==
    /\ log \in Seq(Event) /\ file \in Seq(Event)
    /\ wal \in Nat /\ nextCheckpoint \in Nat /\ grown \in Nat /\ stalls \in Nat
    /\ crashes \in Nat
    /\ lock \in Runs \cup {NoRun}
    /\ run \in [Runs -> RunState]

\* The page a run is about to import is exactly what comes next in the
\* source's log after the last event of the file, whatever other run was
\* killed meanwhile: no sequence is taken, no event is skipped (run.go:96-107,
\* Import's "a duplicate sequence fails").
PageContinuesFile ==
    \A r \in At({"page"}) :
        /\ Len(file) + Len(run[r].page) <= Len(log)
        /\ run[r].page = SubSeq(log, Len(file) + 1, Len(file) + Len(run[r].page))
        /\ run[r].hasMore => run[r].page # <<>>

\* A run that exits with success has every event committed before it began,
\* and ends between two writes of the source: no transaction of the source is
\* half in the file (run.go:98-113: only hasMore = false ends the loop, and a
\* page without its trailer is no page).
NeverSplits(n) ==
    n + 1 \in DOMAIN log /\ n > 0 => log[n].write # log[n + 1].write

CompleteOnSuccess ==
    \A r \in At({"done"}) : Len(file) >= run[r].began /\ NeverSplits(Len(file))

\* The writes waited for the busy timeout at most once per Threshold bytes the
\* WAL held or grew by: no read, however long or often it comes back, makes
\* every write wait (writer.go:132-137).
StallsArePaid == stalls * Threshold <= grown

\* A run lets go of the file, although the source may hang for ever in the
\* middle of an answer: the next one can start (run.go:32-35).
LockFreed == \A r \in Runs : lock = r ~> lock # r

Abstract == INSTANCE Copy

\* The file is at every moment the source's log up to some event, and only
\* ever moves forward on it (run.go:78-117 with Import).
IsACopy == Abstract!Spec
=============================================================================
