------------------------------ MODULE Database ------------------------------
(***************************************************************************)
(* The database file of one data directory, and the programs that create,  *)
(* serve and migrate it: tamarackdb-init, with or without a dump,          *)
(* tamarackdb-server and tamarackdb-migrate.  Several processes may run at *)
(* once, of any program and any schema version; each may be killed between *)
(* two of its steps, and the machine may lose its power.                   *)
(*                                                                         *)
(* A file is what a name of the directory leads to: the pages in the file  *)
(* itself, and the newest commit of the WAL beside it, which SQLite finds  *)
(* by the same name.                                                       *)
(***************************************************************************)
EXTENDS Integers

CONSTANTS Proc,        \* processes
          Nil,         \* no file, no WAL, no transaction, no process
          Version,     \* schemaVersion of the binaries, and user_version of the files
          Batch,       \* importBatch
          MaxDump,     \* bound: events of a dump
          MaxLast      \* bound: positions

ASSUME VersionAssumption == Version \subseteq Nat /\ 0 \in Version
ASSUME BatchAssumption == Batch \in Nat \ {0}
ASSUME BoundsAssumption == MaxDump \in Nat /\ MaxLast \in Nat

VARIABLES
    db,        \* the file tamarackdb.sqlite, or Nil
    durable,   \* its name survives a power loss
    lock,      \* who holds the lock of tamarackdb.sqlite.lock, or Nil
    socket,    \* which process made the file at socketPath, or Nil
    proc,      \* what each process is doing
    tmp,       \* the temporary file of each process, or Nil
    tx,        \* the transaction each process runs on db: what it would commit
    reported   \* history: what programs have told their users

vars == <<db, durable, lock, socket, proc, tmp, tx, reported>>

Program == {"init", "import", "server", "migrate"}
NoSchema == -1

(***************************************************************************)
(* What a file holds: the version its tables have the form of, the one     *)
(* user_version gives, 0 in a new file, how many events the dump it was    *)
(* imported from has, and the last position: positions are dense.          *)
(***************************************************************************)
Content == [tables: Version \cup {NoSchema}, version: Version, dump: Nat, last: Nat]
Blank == [tables |-> NoSchema, version |-> 0, dump |-> 0, last |-> 0]
File == [pages: Content, wal: Content \cup {Nil}]
EmptyFile == [pages |-> Blank, wal |-> Nil]

ASSUME NilAssumption == Nil \notin Proc /\ Nil \notin Content /\ Nil \notin File

Visible(f) == IF f.wal = Nil THEN f.pages ELSE f.wal
Committed(f, c) == [f EXCEPT !.wal = c]
Copied(f) == [pages |-> Visible(f), wal |-> Nil]
WithSchema(c, v) == [c EXCEPT !.tables = v, !.version = v]

\* Closing the last connection copies the WAL into the file and deletes it; it
\* says nothing when it cannot.
Closed(f) == {f, Copied(f)}

Writing == {p \in Proc : tx[p] # Nil}
Positions == 1..MaxLast

Process == [at: {"off", "checked", "locked", "created", "open", "made", "serving",
                 "stopping", "closed", "begun", "stamped", "committed",
                 "temporary", "importing", "written", "linked"},
            program: Program, version: Version, dump: Nat, read: Nat, answer: Nat]
Off == [at |-> "off", program |-> "init", version |-> 0, dump |-> 0, read |-> 0, answer |-> 0]

At(p, program, at) == proc[p].program = program /\ proc[p].at = at
Goes(p, at) == proc' = [proc EXCEPT ![p].at = at]
Holders == {"locked", "created", "open", "made", "serving", "stopping", "begun", "stamped",
            "committed"}

(***************************************************************************)
(* The process ends, by itself or killed: the system drops its lock, and   *)
(* SQLite what it had not committed.  What it left in the WAL stays there. *)
(***************************************************************************)
Ends(p) ==
    /\ proc' = [proc EXCEPT ![p] = Off]
    /\ lock' = IF lock = p THEN Nil ELSE lock
    /\ tmp' = [tmp EXCEPT ![p] = Nil]
    /\ tx' = [tx EXCEPT ![p] = Nil]

\* A process ends after it closed its connections to db.
ClosesDB(p) ==
    IF Writing \ {p} = {} THEN db' \in Closed(db) ELSE db' = db

Init ==
    /\ db = Nil
    /\ durable = FALSE
    /\ lock = Nil
    /\ socket = Nil
    /\ proc = [p \in Proc |-> Off]
    /\ tmp = [p \in Proc |-> Nil]
    /\ tx = [p \in Proc |-> Nil]
    /\ reported = [created |-> FALSE, version |-> 0, last |-> 0]

\* tamarackdb-init refuses a path that exists, the others one that does not.
Start(p) ==
    /\ proc[p].at = "off"
    /\ \E program \in Program, v \in Version, dump \in 0..MaxDump :
        /\ program \in {"init", "import"} <=> db = Nil
        /\ program # "import" => dump = 0
        /\ proc' = [proc EXCEPT ![p] = [Off EXCEPT !.at = "checked", !.program = program,
                                                   !.version = v, !.dump = dump]]
    /\ UNCHANGED <<db, durable, lock, socket, tmp, tx, reported>>

\* Without the lock the program ends: an action of its own, Fails.
AcquireLock(p) ==
    /\ proc[p].at = "checked"
    /\ proc[p].program # "import"
    /\ lock = Nil
    /\ lock' = p
    /\ Goes(p, "locked")
    /\ UNCHANGED <<db, durable, socket, tmp, tx, reported>>

(***************************************************************************)
(* store.Open.  A file that appeared since the program looked is opened as *)
(* it is; one without a table, which an init killed here leaves behind, is *)
(* given the schema.  The first commit also makes the name durable: SQLite *)
(* syncs the directory with the WAL it creates.                            *)
(***************************************************************************)
CreatePrivate(p) ==
    /\ proc[p].program \in {"init", "server"}
    /\ proc[p].at = "locked"
    /\ IF db = Nil THEN db' = EmptyFile /\ durable' = FALSE
       ELSE UNCHANGED <<db, durable>>
    /\ Goes(p, "created")
    /\ UNCHANGED <<lock, socket, tmp, tx, reported>>

CreateSchema(p) ==
    /\ proc[p].at = "created"
    /\ Visible(db).tables = NoSchema
    /\ Writing = {}
    /\ db' = Committed(db, WithSchema(Visible(db), proc[p].version))
    /\ durable' = TRUE
    /\ proc' = [proc EXCEPT ![p].at = "made", ![p].read = Visible(db).last]
    /\ UNCHANGED <<lock, socket, tmp, tx, reported>>

FindSchema(p) ==
    /\ proc[p].at = "created"
    /\ Visible(db).tables # NoSchema
    /\ Visible(db).version = proc[p].version
    /\ proc' = [proc EXCEPT ![p].at = "open", ![p].read = Visible(db).last]
    /\ UNCHANGED <<db, durable, lock, socket, tmp, tx, reported>>

\* An error ends any program; *SchemaVersionError and ErrDatabaseLocked leave it
\* nothing else to do.  It closes what it opened, and rolls back.
Fails(p) ==
    /\ proc[p].at \in {"checked", "locked", "created", "open", "made", "begun", "stamped",
                       "temporary", "importing", "written", "linked"}
    /\ IF proc[p].at \in Holders /\ db # Nil THEN ClosesDB(p) ELSE db' = db
    /\ Ends(p)
    /\ UNCHANGED <<durable, socket, reported>>

(***************************************************************************)
(* tamarackdb-init.                                                        *)
(***************************************************************************)
InitCreated(p) ==
    /\ proc[p].program = "init"
    /\ proc[p].at \in {"open", "made"}
    /\ ClosesDB(p)
    /\ reported' = [reported EXCEPT !.created = @ \/ proc[p].at = "made"]
    /\ Ends(p)
    /\ UNCHANGED <<durable, socket>>

(***************************************************************************)
(* tamarackdb-init -import: importDump, which works on a file of its own   *)
(* and links it to the name of the database once every event is in.        *)
(***************************************************************************)
CreateTemp(p) ==
    /\ At(p, "import", "checked")
    /\ tmp' = [tmp EXCEPT ![p] = EmptyFile]
    /\ Goes(p, "temporary")
    /\ UNCHANGED <<db, durable, lock, socket, tx, reported>>

OpenTemp(p) ==
    /\ At(p, "import", "temporary")
    /\ tmp' = [tmp EXCEPT ![p] = Committed(@, [WithSchema(Visible(@), proc[p].version)
                                                  EXCEPT !.dump = proc[p].dump])]
    /\ Goes(p, "importing")
    /\ UNCHANGED <<db, durable, lock, socket, tx, reported>>

\* One store.Import: a full batch, or what is left at the end of the dump.  SQLite
\* copies a WAL that has grown into the file, and leaves it there.
ImportBatch(p) ==
    LET left == proc[p].dump - proc[p].read
        n == proc[p].read + (IF left < Batch THEN left ELSE Batch)
        written == [Visible(tmp[p]) EXCEPT !.last = n] IN
    /\ At(p, "import", "importing")
    /\ left > 0
    /\ \E pages \in {tmp[p].pages, written} :
        tmp' = [tmp EXCEPT ![p] = [pages |-> pages, wal |-> written]]
    /\ proc' = [proc EXCEPT ![p].read = n]
    /\ UNCHANGED <<db, durable, lock, socket, tx, reported>>

\* A dump without an event is an error.
CloseTemp(p) ==
    /\ At(p, "import", "importing")
    /\ proc[p].read = proc[p].dump
    /\ proc[p].dump > 0
    /\ \E f \in Closed(tmp[p]) : tmp' = [tmp EXCEPT ![p] = f]
    /\ Goes(p, "written")
    /\ UNCHANGED <<db, durable, lock, socket, tx, reported>>

\* Mutant of WALGone: the file is given its name whatever its WAL holds.
WALGoneUnchecked(f) == TRUE

WALGone(f) == f.wal = Nil

\* Mutant of Link: rename(2), which replaces what the name led to.
LinkReplaces(p) ==
    /\ At(p, "import", "written")
    /\ WALGone(tmp[p])
    /\ db' = [tmp[p] EXCEPT !.wal = Nil]
    /\ durable' = FALSE
    /\ Goes(p, "linked")
    /\ UNCHANGED <<lock, socket, tmp, tx, reported>>

\* What link(2) gives the name: it fails if there is a file already.  The WAL
\* keeps the temporary name.
Link(p) ==
    /\ At(p, "import", "written")
    /\ WALGone(tmp[p])
    /\ db = Nil
    /\ db' = [tmp[p] EXCEPT !.wal = Nil]
    /\ durable' = FALSE
    /\ Goes(p, "linked")
    /\ UNCHANGED <<lock, socket, tmp, tx, reported>>

SyncDir(p) ==
    /\ At(p, "import", "linked")
    /\ durable' = TRUE
    /\ reported' = [reported EXCEPT !.created = TRUE]
    /\ Ends(p)
    /\ UNCHANGED <<db, socket>>

(***************************************************************************)
(* tamarackdb-migrate: one transaction for the tables, user_version and    *)
(* the check of the foreign keys.                                          *)
(***************************************************************************)
BeginMigration(p) ==
    LET found == Visible(db) IN
    /\ At(p, "migrate", "locked")
    /\ found.tables # NoSchema
    /\ proc[p].version # 0
    /\ found.version = proc[p].version - 1
    /\ Writing = {}
    /\ tx' = [tx EXCEPT ![p] = [found EXCEPT !.tables = proc[p].version]]
    /\ Goes(p, "begun")
    /\ UNCHANGED <<db, durable, lock, socket, tmp, reported>>

StampVersion(p) ==
    /\ At(p, "migrate", "begun")
    /\ tx' = [tx EXCEPT ![p].version = proc[p].version]
    /\ Goes(p, "stamped")
    /\ UNCHANGED <<db, durable, lock, socket, tmp, reported>>

CommitMigration(p) ==
    /\ At(p, "migrate", "stamped")
    /\ db' = Committed(db, tx[p])
    /\ durable' = TRUE
    /\ tx' = [tx EXCEPT ![p] = Nil]
    /\ Goes(p, "committed")
    /\ UNCHANGED <<lock, socket, tmp, reported>>

\* The file is at the version of the binary, by this migration or before it.
MigrateReports(p) ==
    /\ proc[p].program = "migrate"
    /\ \/ proc[p].at = "committed"
       \/ /\ proc[p].at = "locked"
          /\ Visible(db).tables # NoSchema
          /\ Visible(db).version = proc[p].version
    /\ ClosesDB(p)
    /\ reported' = IF proc[p].at = "committed"
                   THEN [reported EXCEPT !.version = proc[p].version] ELSE reported
    /\ Ends(p)
    /\ UNCHANGED <<durable, socket>>

(***************************************************************************)
(* tamarackdb-server.  It holds the lock before it takes the place of the  *)
(* socket, so what it removes there is what an earlier run left.           *)
(***************************************************************************)
Listen(p) ==
    /\ proc[p].program = "server"
    /\ proc[p].at \in {"open", "made"}
    /\ socket' = p
    /\ Goes(p, "serving")
    /\ UNCHANGED <<db, durable, lock, tmp, tx, reported>>

\* A write takes SQLite's write lock.  Its event gets the next position of the
\* counter read at the start: the primary key refuses one that is taken.
BeginWrite(p) ==
    LET found == Visible(db) IN
    /\ At(p, "server", "serving")
    /\ Writing = {}
    /\ proc[p].answer = 0
    /\ proc[p].read = found.last
    /\ found.last + 1 \in Positions
    /\ tx' = [tx EXCEPT ![p] = [found EXCEPT !.last = @ + 1]]
    /\ UNCHANGED <<db, durable, lock, socket, proc, tmp, reported>>

CommitWrite(p) ==
    /\ proc[p].program = "server"
    /\ tx[p] # Nil
    /\ db' = Committed(db, tx[p])
    /\ durable' = TRUE
    /\ tx' = [tx EXCEPT ![p] = Nil]
    /\ proc' = [proc EXCEPT ![p].read = tx[p].last, ![p].answer = tx[p].last]
    /\ UNCHANGED <<lock, socket, tmp, reported>>

WriteFails(p) ==
    /\ proc[p].program = "server"
    /\ tx[p] # Nil
    /\ tx' = [tx EXCEPT ![p] = Nil]
    /\ UNCHANGED <<db, durable, lock, socket, proc, tmp, reported>>

Answer(p) ==
    /\ proc[p].answer # 0
    /\ reported' = [reported EXCEPT !.last = IF @ < proc[p].answer THEN proc[p].answer ELSE @]
    /\ proc' = [proc EXCEPT ![p].answer = 0]
    /\ UNCHANGED <<db, durable, lock, socket, tmp, tx>>

Checkpoint(p) ==
    /\ At(p, "server", "serving")
    /\ Writing = {}
    /\ db' = Copied(db)
    /\ UNCHANGED <<durable, lock, socket, proc, tmp, tx, reported>>

\* Mutant of Shutdown: the store is closed, and its lock released, before the
\* requests have ended.
ShutdownClosesStore(p) ==
    /\ At(p, "server", "serving")
    /\ socket' = Nil
    /\ lock' = Nil
    /\ Goes(p, "stopping")
    /\ UNCHANGED <<db, durable, tmp, tx, reported>>

\* A signal, a fatal storage error, or an error of Serve: Shutdown closes the
\* listener, which removes its file, and then the writer, which turns away the
\* writes that wait.
Shutdown(p) ==
    /\ At(p, "server", "serving")
    /\ socket' = Nil
    /\ Goes(p, "stopping")
    /\ UNCHANGED <<db, durable, lock, tmp, tx, reported>>

\* The requests have ended, or ten seconds have passed.  A connection in use goes
\* on until its transaction ends, and the lock is released without it.
CloseStore(p) ==
    /\ At(p, "server", "stopping")
    /\ IF Writing = {} THEN db' \in Closed(db) ELSE db' = db
    /\ lock' = Nil
    /\ Goes(p, "closed")
    /\ UNCHANGED <<durable, socket, tmp, tx, reported>>

Exit(p) ==
    /\ At(p, "server", "closed")
    /\ Ends(p)
    /\ UNCHANGED <<db, durable, socket, reported>>

(***************************************************************************)
(* Faults.                                                                 *)
(***************************************************************************)
Kill(p) ==
    /\ proc[p].at # "off"
    /\ Ends(p)
    /\ UNCHANGED <<db, durable, socket, reported>>

\* Every process is gone, and the file too if its name was not yet on the disk.
\* The directory of the socket, under /run, starts empty.
PowerLoss ==
    /\ proc' = [p \in Proc |-> Off]
    /\ tmp' = [p \in Proc |-> Nil]
    /\ tx' = [p \in Proc |-> Nil]
    /\ lock' = Nil
    /\ socket' = Nil
    /\ \/ UNCHANGED db
       \/ ~durable /\ db' = Nil
    /\ durable' = (db' # Nil)
    /\ UNCHANGED reported

Opens(p) ==
    \/ Start(p) \/ AcquireLock(p) \/ CreatePrivate(p) \/ CreateSchema(p) \/ FindSchema(p)
    \/ Fails(p)
Imports(p) ==
    \/ CreateTemp(p) \/ OpenTemp(p) \/ ImportBatch(p) \/ CloseTemp(p) \/ Link(p) \/ SyncDir(p)
Migrates(p) ==
    \/ BeginMigration(p) \/ StampVersion(p) \/ CommitMigration(p) \/ MigrateReports(p)
Serves(p) ==
    \/ Listen(p) \/ BeginWrite(p) \/ CommitWrite(p) \/ WriteFails(p) \/ Answer(p)
    \/ Checkpoint(p) \/ Shutdown(p) \/ CloseStore(p) \/ Exit(p)

Next ==
    \/ \E p \in Proc : Opens(p) \/ InitCreated(p) \/ Imports(p) \/ Migrates(p) \/ Serves(p)
    \/ \E p \in Proc : Kill(p)
    \/ PowerLoss

Spec == Init /\ [][Next]_vars

(***************************************************************************)
(* Properties.                                                             *)
(***************************************************************************)

\* Types, with what the process table says of the lock and of transactions: the
\* lock is held from acquireLock to releaseLock, and by a process that runs.
TypeOK ==
    /\ db \in File \cup {Nil}
    /\ durable \in BOOLEAN
    /\ lock \in Proc \cup {Nil}
    /\ socket \in Proc \cup {Nil}
    /\ proc \in [Proc -> Process]
    /\ tmp \in [Proc -> File \cup {Nil}]
    /\ tx \in [Proc -> Content \cup {Nil}]
    /\ reported \in [created: BOOLEAN, version: Version, last: Nat]
    /\ \A p \in Proc : lock = p <=> proc[p].at \in Holders

\* A file without a schema, new or left by a program that was killed; or one whose
\* tables have the form user_version tells, with every event of its dump.
Whole(c) ==
    \/ c = Blank
    \/ c.tables # NoSchema /\ c.tables = c.version /\ c.last >= c.dump

\* Whatever opens the database finds a whole one, at every instant, that is also
\* after any process is killed and after a power loss: an import that stopped is
\* never taken for a complete one, and a migration is done or not begun.
FileIsWhole == db # Nil => Whole(Visible(db))

\* What a program told its user stays true through every kill, power loss, close,
\* migration, late write and attempt to create the database anew: "created", the
\* version of "migrated", the write answered by a 2xx, and, while the server runs,
\* the socket it listens on.
ReportsHold ==
    /\ reported.created \/ reported.version > 0 \/ reported.last > 0
       => db # Nil /\ durable /\ Visible(db).tables # NoSchema
    /\ db # Nil => /\ Visible(db).version >= reported.version
                   /\ Visible(db).last >= reported.last
    /\ \A p \in Proc : proc[p].at = "serving" => socket = p
=============================================================================
