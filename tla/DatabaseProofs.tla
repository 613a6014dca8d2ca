--------------------------- MODULE DatabaseProofs ---------------------------
(***************************************************************************)
(* The safety of a data directory, for any number of processes, any        *)
(* versions, any dump and any number of kills and power losses.            *)
(*                                                                         *)
(* What the properties say is not inductive: they look at the file, and    *)
(* what becomes of it is decided by what a process has under way.  The     *)
(* invariant adds, for each process, what it has of its own (its temporary *)
(* file, its transaction: OwnFits, TransactionFits) and what it may count  *)
(* on in the file all along, because nothing takes it back (CountsOn).     *)
(* A transaction follows the newest commit as long as it is the only one   *)
(* (OneWriter), whoever holds the lock.                                    *)
(***************************************************************************)
EXTENDS Database, TLAPS

Schema == db # Nil /\ Visible(db).tables # NoSchema

\* Which program a phase belongs to.
Phases(x) ==
    /\ x.at \in {"temporary", "importing", "written", "linked"} => x.program = "import"
    /\ x.at \in {"begun", "stamped", "committed"} => x.program = "migrate"
    /\ x.at \in {"created", "open", "made"} => x.program \in {"init", "server"}
    /\ x.at \in {"serving", "stopping", "closed"} => x.program = "server"
    /\ x.at \in {"checked", "temporary"} => x.read = 0

Imported(x, c) ==
    c.tables = c.version /\ c.dump = x.dump /\ c.last = x.read /\ x.read <= x.dump

OwnFits(x, f) ==
    /\ Phases(x)
    /\ x.at = "temporary" => f = EmptyFile
    /\ x.at = "importing" => f # Nil /\ Imported(x, Visible(f))
    /\ x.at = "written" => f # Nil /\ Imported(x, Visible(f)) /\ x.read = x.dump

Opened == {"open", "made", "serving", "stopping", "closed", "begun", "stamped", "committed",
           "linked"}

\* What nothing takes back, but a power loss that ends the process.
CountsOn(x) ==
    /\ x.at # "off" /\ x.program \in {"server", "migrate"} => db # Nil
    /\ x.at = "created" => db # Nil
    /\ x.at \in Opened => Schema
    /\ x.at \in {"made", "committed"} => durable
    /\ x.at = "committed" => Visible(db).version >= x.version
    /\ x.answer > 0 => /\ x.at \in {"serving", "stopping", "closed"}
                       /\ durable
                       /\ Visible(db).last >= x.answer

Late == {"serving", "stopping", "closed"}

\* What a transaction would commit, on top of the newest commit.
TransactionFits(x, t) ==
    /\ t # Nil => x.at \in Late \cup {"begun", "stamped"}
    /\ x.at \in Late /\ t # Nil => t = [Visible(db) EXCEPT !.last = @ + 1]
    /\ x.at \in {"begun", "stamped"} => t # Nil /\ Visible(db).version < x.version
    /\ x.at = "begun" => t = [Visible(db) EXCEPT !.tables = x.version]
    /\ x.at = "stamped" => t = WithSchema(Visible(db), x.version)

OneWriter == \A p, q \in Proc : tx[p] # Nil /\ tx[q] # Nil => p = q

Fits(p) == OwnFits(proc[p], tmp[p]) /\ CountsOn(proc[p]) /\ TransactionFits(proc[p], tx[p])

\* The two parts of ReportsHold.
ReportsOnFile ==
    /\ reported.created \/ reported.version > 0 \/ reported.last > 0 => Schema /\ durable
    /\ db # Nil => /\ Visible(db).version >= reported.version
                   /\ Visible(db).last >= reported.last

SocketIsOwn == \A p \in Proc : proc[p].at = "serving" => socket = p

IInv ==
    /\ TypeOK
    /\ durable => db # Nil
    /\ OneWriter
    /\ \A p \in Proc : Fits(p)
    /\ FileIsWhole
    /\ ReportsOnFile
    /\ SocketIsOwn

-----------------------------------------------------------------------------
(* Files *)

LEMMA BlankIsContent == Blank \in Content /\ EmptyFile \in File /\ Visible(EmptyFile) = Blank
BY VersionAssumption DEF Blank, Content, EmptyFile, File, Visible

LEMMA VisibleIsContent ==
    ASSUME NEW f \in File
    PROVE  Visible(f) \in Content
BY DEF File, Visible

\* The newest commit is what is found.
LEMMA CommittedIsVisible ==
    ASSUME NEW f \in File, NEW c \in Content
    PROVE  Committed(f, c) \in File /\ Visible(Committed(f, c)) = c
<1>1. Committed(f, c) = [pages |-> f.pages, wal |-> c]
    BY DEF Committed, File
<1>2. c # Nil
    BY NilAssumption
<1> QED
    BY <1>1, <1>2 DEF File, Visible

\* Copying the WAL into the file changes nothing of what is found.
LEMMA ClosedIsSame ==
    ASSUME NEW f \in File, NEW g \in Closed(f)
    PROVE  g \in File /\ Visible(g) = Visible(f)
<1>1. Visible(f) \in Content
    BY VisibleIsContent
<1>2. Copied(f) \in File /\ Visible(Copied(f)) = Visible(f)
    BY <1>1 DEF Copied, File, Visible
<1> QED
    BY <1>2 DEF Closed

LEMMA WithSchemaIsContent ==
    ASSUME NEW c \in Content, NEW v \in Version
    PROVE  /\ WithSchema(c, v) \in Content
           /\ WithSchema(c, v).tables = v /\ WithSchema(c, v).version = v
           /\ WithSchema(c, v).dump = c.dump /\ WithSchema(c, v).last = c.last
BY DEF WithSchema, Content

LEMMA SchemaIsNotNone == \A v \in Version : v # NoSchema /\ v \in Nat
BY VersionAssumption DEF NoSchema

-----------------------------------------------------------------------------
(* Steps *)

\* What no step but a power loss takes back of the file.
Grows ==
    /\ db # Nil => /\ db' # Nil
                   /\ Visible(db').version >= Visible(db).version
                   /\ Visible(db').last >= Visible(db).last
    /\ Schema => Schema'
    /\ durable => durable'

\* The steps of p leave the other processes as they are.
OthersStay(p) ==
    \A q \in Proc \ {p} : proc'[q] = proc[q] /\ tmp'[q] = tmp[q] /\ tx'[q] = tx[q]

\* A process keeps what it has and counts on, if the file moves under it only
\* while it has no transaction.
LEMMA Kept ==
    ASSUME TypeOK, TypeOK', Grows, NEW p \in Proc, Fits(p),
           proc'[p] = proc[p], tmp'[p] = tmp[p], tx'[p] = tx[p],
           tx[p] # Nil => Visible(db') = Visible(db)
    PROVE  Fits(p)'
<1>1. OwnFits(proc[p], tmp[p])'
    BY DEF Fits, OwnFits, Phases, Imported
<1>2. CountsOn(proc[p])'
  <2>1. CountsOn(proc[p])
    BY DEF Fits
  <2>2. proc[p] \in Process
    BY DEF TypeOK
  <2>3. db # Nil => Visible(db) \in Content
    BY VisibleIsContent DEF TypeOK
  <2>4. db' # Nil => Visible(db') \in Content
    BY VisibleIsContent DEF TypeOK
  <2>5. proc[p].version \in Nat /\ proc[p].answer \in Nat
    BY <2>2, VersionAssumption DEF Process
  <2>6. proc[p].answer > 0 => db # Nil
    BY <2>1 DEF CountsOn, Opened, Schema
  <2>7. proc[p].at = "committed" => db # Nil
    BY <2>1 DEF CountsOn, Opened, Schema
  <2>8. db # Nil => /\ Visible(db).version \in Nat /\ Visible(db').version \in Nat
                    /\ Visible(db).last \in Nat /\ Visible(db').last \in Nat
    BY <2>3, <2>4, VersionAssumption DEF Content, Grows
  <2> QED
    BY <2>1, <2>5, <2>6, <2>7, <2>8 DEF CountsOn, Grows
<1>3. TransactionFits(proc[p], tx[p])'
  <2>1. TransactionFits(proc[p], tx[p])
    BY DEF Fits
  <2>2. CASE tx[p] = Nil
    BY <2>1, <2>2 DEF TransactionFits
  <2>3. CASE tx[p] # Nil
    BY <2>1, <2>3 DEF TransactionFits, WithSchema
  <2> QED
    BY <2>2, <2>3
<1> QED
    BY <1>1, <1>2, <1>3 DEF Fits

LEMMA ReportsKept ==
    ASSUME TypeOK, TypeOK', Grows, ReportsOnFile, reported' = reported
    PROVE  ReportsOnFile'
<1>1. db # Nil => Visible(db) \in Content
    BY VisibleIsContent DEF TypeOK
<1>2. db' # Nil => Visible(db') \in Content
    BY VisibleIsContent DEF TypeOK
<1>3. reported.version \in Nat /\ reported.last \in Nat
    BY VersionAssumption DEF TypeOK
<1>4. CASE db = Nil
  <2>1. reported.version = 0 /\ reported.last = 0 /\ ~reported.created
    BY <1>3, <1>4 DEF ReportsOnFile, Schema
  <2>2. db' # Nil => Visible(db').version \in Nat /\ Visible(db').last \in Nat
    BY <1>2, VersionAssumption DEF Content
  <2> QED
    BY <2>1, <2>2 DEF ReportsOnFile
<1>5. CASE db # Nil
  <2>1. /\ Visible(db).version \in Nat /\ Visible(db).last \in Nat
        /\ Visible(db').version \in Nat /\ Visible(db').last \in Nat
    BY <1>1, <1>2, <1>5, VersionAssumption DEF Content, Grows
  <2> QED
    BY <1>3, <1>5, <2>1 DEF ReportsOnFile, Grows
<1> QED
    BY <1>4, <1>5

\* A step of p keeps the invariant if p fits after it.
LEMMA Step ==
    ASSUME IInv, TypeOK', NEW p \in Proc, OthersStay(p), Grows,
           \A q \in Proc \ {p} : tx[q] # Nil => Visible(db') = Visible(db),
           tx'[p] # Nil => tx[p] # Nil \/ Writing = {},
           Fits(p)', FileIsWhole', ReportsOnFile',
           durable' => db' # Nil,
           socket' = socket \/ lock = p,
           proc'[p].at = "serving" => socket' = p
    PROVE  IInv'
<1>1. ASSUME NEW q \in Proc
      PROVE  Fits(q)'
  <2>1. CASE q = p
    BY <2>1
  <2>2. CASE q # p
    <3>1. proc'[q] = proc[q] /\ tmp'[q] = tmp[q] /\ tx'[q] = tx[q]
        BY <2>2 DEF OthersStay
    <3>2. tx[q] # Nil => Visible(db') = Visible(db)
        BY <2>2
    <3> QED
        BY <3>1, <3>2, Kept DEF IInv
  <2> QED
    BY <2>1, <2>2
<1>2. OneWriter'
    BY DEF IInv, OneWriter, OthersStay, Writing
<1>3. SocketIsOwn'
    BY DEF IInv, SocketIsOwn, OthersStay, TypeOK, Holders
<1> QED
    BY <1>1, <1>2, <1>3 DEF IInv

\* The same for the steps that change nothing of what is found in the file.
LEMMA Quiet ==
    ASSUME IInv, TypeOK', NEW p \in Proc, OthersStay(p),
           db = Nil => db' = Nil,
           db # Nil => db' # Nil /\ Visible(db') = Visible(db),
           durable' = durable, reported' = reported,
           tx'[p] # Nil => tx[p] # Nil \/ Writing = {},
           Fits(p)',
           socket' = socket \/ lock = p,
           proc'[p].at = "serving" => socket' = p
    PROVE  IInv'
<1>1. db # Nil => Visible(db).version \in Nat /\ Visible(db).last \in Nat
    BY VisibleIsContent, VersionAssumption DEF IInv, TypeOK, Content
<1>2. Grows
    BY <1>1 DEF Grows, Schema
<1>3. \A q \in Proc \ {p} : tx[q] # Nil => Visible(db') = Visible(db)
  <2> SUFFICES ASSUME NEW q \in Proc \ {p}, tx[q] # Nil
               PROVE  db # Nil
    OBVIOUS
  <2>1. Fits(q) /\ q \in Proc
    BY DEF IInv
  <2>2. proc[q].at \in Late \cup {"begun", "stamped"}
    BY <2>1 DEF Fits, TransactionFits
  <2> QED
    BY <2>1, <2>2 DEF Fits, CountsOn, Opened, Late, Schema
<1>4. FileIsWhole'
    BY DEF IInv, FileIsWhole, Whole
<1>5. ReportsOnFile'
    BY <1>2, ReportsKept DEF IInv
<1> QED
    BY <1>2, <1>3, <1>4, <1>5, Step DEF IInv

\* A process that ended has nothing.
LEMMA EndsIsClean ==
    ASSUME TypeOK, NEW p \in Proc, Ends(p)
    PROVE  /\ OthersStay(p) /\ Fits(p)' /\ proc'[p] = Off /\ tx'[p] = Nil
           /\ lock' \in Proc \cup {Nil} /\ proc' \in [Proc -> Process]
           /\ tmp' \in [Proc -> File \cup {Nil}] /\ tx' \in [Proc -> Content \cup {Nil}]
           /\ \A q \in Proc : lock' = q <=> proc'[q].at \in Holders
<1>1. Off \in Process /\ Off.at = "off" /\ Off.answer = 0
    BY VersionAssumption DEF Off, Process, Program
<1>2. proc'[p] = Off /\ tx'[p] = Nil /\ tmp'[p] = Nil /\ OthersStay(p)
    BY DEF Ends, TypeOK, OthersStay
<1>3. OwnFits(proc[p], tmp[p])'
    BY <1>1, <1>2 DEF OwnFits, Phases
<1>4. CountsOn(proc[p])'
    BY <1>1, <1>2 DEF CountsOn, Opened
<1>5. TransactionFits(proc[p], tx[p])'
    BY <1>1, <1>2 DEF TransactionFits, Late
<1>6. lock' \in Proc \cup {Nil} /\ proc' \in [Proc -> Process]
      /\ tmp' \in [Proc -> File \cup {Nil}] /\ tx' \in [Proc -> Content \cup {Nil}]
    BY <1>1 DEF Ends, TypeOK
<1>7. \A q \in Proc : lock' = q <=> proc'[q].at \in Holders
    BY <1>1, <1>2, NilAssumption DEF Ends, TypeOK, OthersStay, Holders
<1> QED
    BY <1>2, <1>3, <1>4, <1>5, <1>6, <1>7 DEF Fits

\* Before there is a file, nothing is written to it.
LEMMA NoFileNoTransaction ==
    ASSUME IInv, db = Nil, NEW q \in Proc
    PROVE  tx[q] = Nil
<1>1. Fits(q)
    BY DEF IInv
<1> QED
    BY <1>1 DEF Fits, TransactionFits, CountsOn, Opened, Late, Schema

\* A step of a process whose phase it moves, and that has no transaction.
LEMMA PhaseFits ==
    ASSUME TypeOK, NEW p \in Proc, tx'[p] = Nil, proc'[p].at \notin {"begun", "stamped"}
    PROVE  TransactionFits(proc[p], tx[p])'
BY DEF TransactionFits, Late

-----------------------------------------------------------------------------
(* The actions: opening *)

LEMMA StartKeeps == ASSUME IInv, NEW p \in Proc, Start(p) PROVE IInv'
<1> USE DEF IInv
<1>1. PICK program \in Program, v \in Version, dump \in 0..MaxDump :
         /\ program \in {"init", "import"} <=> db = Nil
         /\ proc' = [proc EXCEPT ![p] = [Off EXCEPT !.at = "checked", !.program = program,
                                                    !.version = v, !.dump = dump]]
    BY DEF Start
<1>2. dump \in Nat
    BY BoundsAssumption
<1>3. proc'[p] = [at |-> "checked", program |-> program, version |-> v, dump |-> dump,
                  read |-> 0, answer |-> 0]
    BY <1>1 DEF Off, TypeOK
<1>4. proc'[p] \in Process
    BY <1>2, <1>3 DEF Process
<1>5. TypeOK'
    BY <1>1, <1>3, <1>4 DEF TypeOK, Start, Holders
<1>6. OthersStay(p)
    BY <1>1 DEF OthersStay, Start, TypeOK
<1>7. tx[p] = Nil
    BY DEF Fits, TransactionFits, Late, Start
<1>8. Fits(p)'
  <2>1. OwnFits(proc[p], tmp[p])'
    BY <1>3 DEF OwnFits, Phases
  <2>2. CountsOn(proc[p])'
    <3>1. program \in {"server", "migrate"} => db' # Nil
        BY <1>1 DEF Start
    <3> QED
        BY <1>3, <3>1 DEF CountsOn, Opened
  <2>3. TransactionFits(proc[p], tx[p])'
    BY <1>3, <1>7 DEF TransactionFits, Late, Start
  <2> QED
    BY <2>1, <2>2, <2>3 DEF Fits
<1> QED
    BY <1>3, <1>5, <1>6, <1>8, Quiet DEF Start

LEMMA AcquireLockKeeps == ASSUME IInv, NEW p \in Proc, AcquireLock(p) PROVE IInv'
<1> USE DEF IInv
<1>1. proc'[p] = [proc[p] EXCEPT !.at = "locked"] /\ proc[p] \in Process
    BY DEF AcquireLock, Goes, TypeOK
<1>2. TypeOK'
    BY <1>1, NilAssumption DEF TypeOK, AcquireLock, Goes, Holders, Process
<1>3. OthersStay(p)
    BY DEF OthersStay, AcquireLock, Goes, TypeOK
<1>4. Fits(p) /\ tx[p] = Nil
    BY DEF Fits, TransactionFits, Late, AcquireLock
<1>5. Fits(p)'
    BY <1>1, <1>4 DEF Fits, OwnFits, Phases, CountsOn, Opened, Schema, TransactionFits, Late,
                      AcquireLock, Process
<1> QED
    BY <1>1, <1>2, <1>3, <1>5, Quiet DEF AcquireLock, Process

LEMMA CreatePrivateKeeps == ASSUME IInv, NEW p \in Proc, CreatePrivate(p) PROVE IInv'
<1> USE DEF IInv
<1>1. proc'[p] = [proc[p] EXCEPT !.at = "created"] /\ proc[p] \in Process
    BY DEF CreatePrivate, Goes, TypeOK
<1>2. db' \in File /\ durable' \in BOOLEAN
    BY BlankIsContent DEF CreatePrivate, TypeOK
<1>3. TypeOK'
    BY <1>1, <1>2 DEF TypeOK, CreatePrivate, Goes, Holders, Process
<1>4. OthersStay(p)
    BY DEF OthersStay, CreatePrivate, Goes, TypeOK
<1>5. Fits(p) /\ tx[p] = Nil
    BY DEF Fits, TransactionFits, Late, CreatePrivate
<1>6. db' # Nil
    BY <1>2, NilAssumption
<1>7. Fits(p)'
  <2>1. proc'[p].at = "created" /\ proc'[p].program = proc[p].program
        /\ proc'[p].answer = proc[p].answer
    BY <1>1 DEF Process
  <2>2. proc[p].answer = 0
    BY <1>1, <1>5 DEF Fits, CountsOn, CreatePrivate, Process
  <2>3. OwnFits(proc[p], tmp[p])'
    BY <2>1 DEF OwnFits, Phases, CreatePrivate
  <2>4. CountsOn(proc[p])'
    BY <1>6, <2>1, <2>2 DEF CountsOn, Opened
  <2>5. TransactionFits(proc[p], tx[p])'
    BY <1>5, <2>1 DEF TransactionFits, Late, CreatePrivate
  <2> QED
    BY <2>3, <2>4, <2>5 DEF Fits
<1>8. CASE db # Nil
    BY <1>1, <1>3, <1>4, <1>7, <1>8, Quiet DEF CreatePrivate, Process
<1>9. CASE db = Nil
  <2>1. db' = EmptyFile /\ durable' = FALSE /\ ~durable
    BY <1>9 DEF CreatePrivate
  <2>2. Visible(db') = Blank
    BY <2>1, BlankIsContent
  <2>3. Grows
    BY <1>9, <2>1 DEF Grows, Schema
  <2>4. FileIsWhole'
    BY <2>2 DEF FileIsWhole, Whole
  <2>5. ReportsOnFile'
    BY <1>3, <2>3, ReportsKept DEF CreatePrivate
  <2>6. \A q \in Proc \ {p} : tx[q] = Nil
    <3> SUFFICES ASSUME NEW q \in Proc, tx[q] # Nil PROVE FALSE
        OBVIOUS
    <3>1. Fits(q)
        OBVIOUS
    <3> QED
        BY <1>9, <3>1 DEF Fits, TransactionFits, CountsOn, Opened, Late, Schema
  <2> QED
    BY <1>1, <1>3, <1>4, <1>5, <1>6, <1>7, <2>3, <2>4, <2>5, <2>6, Step
    DEF CreatePrivate, Process
<1> QED
    BY <1>8, <1>9

LEMMA CreateSchemaKeeps == ASSUME IInv, NEW p \in Proc, CreateSchema(p) PROVE IInv'
<1> USE DEF IInv
<1> DEFINE found == Visible(db)
           made == WithSchema(found, proc[p].version)
<1>1. Fits(p) /\ proc[p] \in Process
    BY DEF TypeOK
<1>2. db \in File /\ db # Nil
    BY <1>1 DEF Fits, CountsOn, CreateSchema, TypeOK
<1>3. found \in Content
    BY <1>2, VisibleIsContent
<1>4. found = Blank
    BY <1>2 DEF FileIsWhole, Whole, CreateSchema
<1>5. /\ made \in Content /\ made.tables = proc[p].version /\ made.version = proc[p].version
      /\ made.dump = 0 /\ made.last = 0
    BY <1>1, <1>3, <1>4, WithSchemaIsContent DEF Process, Blank
<1>6. db' \in File /\ Visible(db') = made
    BY <1>2, <1>5, CommittedIsVisible DEF CreateSchema
<1>7. proc[p].version \in Nat /\ proc[p].version # NoSchema
    BY <1>1, SchemaIsNotNone DEF Process
<1>8. proc'[p] = [proc[p] EXCEPT !.at = "made", !.read = found.last] /\ proc'[p] \in Process
    BY <1>1, <1>3 DEF CreateSchema, TypeOK, Process, Content
<1>9. TypeOK'
    BY <1>1, <1>6, <1>8 DEF TypeOK, CreateSchema, Holders, Process
<1>10. OthersStay(p)
    BY DEF OthersStay, CreateSchema, TypeOK
<1>11. db' # Nil
    BY <1>6, NilAssumption
<1> HIDE DEF made
<1>12. Grows
    BY <1>2, <1>4, <1>5, <1>6, <1>7, <1>11 DEF Grows, Schema, Blank, CreateSchema
<1>13. tx[p] = Nil /\ \A q \in Proc : tx[q] = Nil
    BY DEF CreateSchema, Writing
<1>14. Fits(p)'
  <2>1. proc'[p].at = "made" /\ proc'[p].program = proc[p].program
        /\ proc'[p].answer = proc[p].answer
    BY <1>1, <1>8 DEF Process
  <2>2. proc[p].answer = 0 /\ proc[p].program \in {"init", "server"}
    BY <1>1 DEF Fits, CountsOn, OwnFits, Phases, CreateSchema, Process
  <2>3. OwnFits(proc[p], tmp[p])'
    BY <2>1, <2>2 DEF OwnFits, Phases
  <2>4. Schema' /\ durable'
    BY <1>5, <1>6, <1>7, <1>11 DEF Schema, CreateSchema
  <2>5. CountsOn(proc[p])'
    BY <1>11, <2>1, <2>2, <2>4 DEF CountsOn, Opened
  <2>6. tx'[p] = Nil
    BY <1>13 DEF CreateSchema
  <2>7. TransactionFits(proc[p], tx[p])'
    BY <2>1, <2>6 DEF TransactionFits, Late
  <2> QED
    BY <2>3, <2>5, <2>7 DEF Fits
<1>15. FileIsWhole'
    BY <1>5, <1>6, <1>7 DEF FileIsWhole, Whole
<1>16. ReportsOnFile'
    BY <1>9, <1>12, ReportsKept DEF CreateSchema
<1>17. proc'[p].at # "serving"
    BY <1>1, <1>8 DEF Process
<1> QED
    BY <1>9, <1>10, <1>11, <1>12, <1>13, <1>14, <1>15, <1>16, <1>17, Step DEF CreateSchema

LEMMA FindSchemaKeeps == ASSUME IInv, NEW p \in Proc, FindSchema(p) PROVE IInv'
<1> USE DEF IInv
<1>1. Fits(p) /\ proc[p] \in Process
    BY DEF TypeOK
<1>2. db # Nil /\ Visible(db) \in Content
    BY <1>1, VisibleIsContent DEF Fits, CountsOn, FindSchema, TypeOK
<1>3. proc'[p] = [proc[p] EXCEPT !.at = "open", !.read = Visible(db).last] /\ proc'[p] \in Process
    BY <1>1, <1>2 DEF FindSchema, TypeOK, Process, Content
<1>4. TypeOK'
    BY <1>1, <1>3 DEF TypeOK, FindSchema, Holders, Process
<1>5. OthersStay(p)
    BY DEF OthersStay, FindSchema, TypeOK
<1>6. tx[p] = Nil
    BY <1>1 DEF Fits, TransactionFits, Late, FindSchema
<1>7. proc'[p].at = "open" /\ proc'[p].program = proc[p].program
      /\ proc'[p].answer = proc[p].answer
    BY <1>1, <1>3 DEF Process
<1>8. Fits(p)'
  <2>1. proc[p].answer = 0 /\ proc[p].program \in {"init", "server"}
    BY <1>1 DEF Fits, CountsOn, OwnFits, Phases, FindSchema, Process
  <2>2. OwnFits(proc[p], tmp[p])'
    BY <1>7, <2>1 DEF OwnFits, Phases
  <2>3. CountsOn(proc[p])'
    BY <1>2, <1>7, <2>1 DEF CountsOn, Opened, Schema, FindSchema
  <2>4. TransactionFits(proc[p], tx[p])'
    BY <1>6, <1>7 DEF TransactionFits, Late, FindSchema
  <2> QED
    BY <2>2, <2>3, <2>4 DEF Fits
<1> QED
    BY <1>4, <1>5, <1>7, <1>8, Quiet DEF FindSchema

-----------------------------------------------------------------------------
(* The actions: an end *)

\* An end that closes the database, leaves it, or loses what it had not committed.
LEMMA EndsKeeps ==
    ASSUME IInv, NEW p \in Proc, Ends(p),
           db = Nil => db' = Nil,
           db # Nil => db' \in Closed(db),
           durable' = durable, socket' = socket, reported' = reported
    PROVE  IInv'
<1> USE DEF IInv
<1>1. db # Nil => db' \in File /\ db' # Nil /\ Visible(db') = Visible(db)
    BY ClosedIsSame, NilAssumption DEF TypeOK
<1>2. /\ OthersStay(p) /\ Fits(p)' /\ proc'[p] = Off /\ tx'[p] = Nil
      /\ lock' \in Proc \cup {Nil} /\ proc' \in [Proc -> Process]
      /\ tmp' \in [Proc -> File \cup {Nil}] /\ tx' \in [Proc -> Content \cup {Nil}]
      /\ \A q \in Proc : lock' = q <=> proc'[q].at \in Holders
    BY EndsIsClean
<1>3. TypeOK'
    BY <1>1, <1>2 DEF TypeOK
<1> QED
    BY <1>1, <1>2, <1>3, Quiet DEF Off

\* How a process leaves a file it has open.
LEMMA ClosesDBIsClose ==
    ASSUME IInv, NEW p \in Proc, ClosesDB(p), db # Nil
    PROVE  db' \in Closed(db)
BY DEF ClosesDB, Closed

LEMMA FailsKeeps == ASSUME IInv, NEW p \in Proc, Fails(p) PROVE IInv'
<1>1. db = Nil => db' = Nil
    BY DEF Fails
<1>2. db # Nil => db' \in Closed(db)
    BY ClosesDBIsClose DEF Fails, Closed
<1> QED
    BY <1>1, <1>2, EndsKeeps DEF Fails

LEMMA ExitKeeps == ASSUME IInv, NEW p \in Proc, Exit(p) PROVE IInv'
BY EndsKeeps DEF Exit, Closed

LEMMA KillKeeps == ASSUME IInv, NEW p \in Proc, Kill(p) PROVE IInv'
BY EndsKeeps DEF Kill, Closed

\* Reports of a success, made before the process ends: the next reports hold.
LEMMA EndsWithReport ==
    ASSUME IInv, NEW p \in Proc, Ends(p),
           db # Nil, db' \in Closed(db),
           durable' \in BOOLEAN, durable => durable', socket' = socket,
           reported' \in [created: BOOLEAN, version: Version, last: Nat], ReportsOnFile'
    PROVE  IInv'
<1> USE DEF IInv
<1>1. db' \in File /\ db' # Nil /\ Visible(db') = Visible(db) /\ Visible(db) \in Content
    BY ClosedIsSame, VisibleIsContent, NilAssumption DEF TypeOK
<1>2. /\ OthersStay(p) /\ Fits(p)' /\ proc'[p] = Off /\ tx'[p] = Nil
      /\ lock' \in Proc \cup {Nil} /\ proc' \in [Proc -> Process]
      /\ tmp' \in [Proc -> File \cup {Nil}] /\ tx' \in [Proc -> Content \cup {Nil}]
      /\ \A q \in Proc : lock' = q <=> proc'[q].at \in Holders
    BY EndsIsClean
<1>3. TypeOK'
    BY <1>1, <1>2 DEF TypeOK
<1>4. Visible(db).version \in Nat /\ Visible(db).last \in Nat
    BY <1>1, VersionAssumption DEF Content
<1>5. Grows
    BY <1>1, <1>4 DEF Grows, Schema
<1>6. FileIsWhole'
    BY <1>1 DEF FileIsWhole
<1> QED
    BY <1>1, <1>2, <1>3, <1>5, <1>6, Step DEF Off

LEMMA InitCreatedKeeps == ASSUME IInv, NEW p \in Proc, InitCreated(p) PROVE IInv'
<1> USE DEF IInv
<1>1. CountsOn(proc[p])
    BY DEF Fits
<1>2. db # Nil /\ Schema /\ (proc[p].at = "made" => durable)
    BY <1>1 DEF CountsOn, Opened, InitCreated, Schema
<1>3. db' \in Closed(db)
    BY <1>2, ClosesDBIsClose DEF InitCreated
<1>4. db' # Nil /\ Visible(db') = Visible(db)
    BY <1>2, <1>3, ClosedIsSame, NilAssumption DEF TypeOK
<1>5. durable' = durable /\ socket' = socket /\ Ends(p)
    BY DEF InitCreated
<1>6. /\ reported'.created => reported.created \/ proc[p].at = "made"
      /\ reported'.version = reported.version /\ reported'.last = reported.last
      /\ reported' \in [created: BOOLEAN, version: Version, last: Nat]
    BY DEF InitCreated, TypeOK
<1>7. ReportsOnFile'
    BY <1>2, <1>4, <1>5, <1>6 DEF ReportsOnFile, Schema
<1> QED
    BY <1>2, <1>3, <1>5, <1>6, <1>7, EndsWithReport DEF TypeOK

LEMMA SyncDirKeeps == ASSUME IInv, NEW p \in Proc, SyncDir(p) PROVE IInv'
<1> USE DEF IInv
<1>1. CountsOn(proc[p])
    BY DEF Fits
<1>2. Schema
    BY <1>1 DEF CountsOn, Opened, SyncDir, At
<1>3. /\ durable' = TRUE /\ socket' = socket /\ Ends(p) /\ db' = db
      /\ reported'.version = reported.version /\ reported'.last = reported.last
      /\ reported' \in [created: BOOLEAN, version: Version, last: Nat]
    BY DEF SyncDir, TypeOK
<1>4. ReportsOnFile'
    BY <1>2, <1>3 DEF ReportsOnFile, Schema
<1> QED
    BY <1>2, <1>3, <1>4, EndsWithReport DEF Schema, Closed

LEMMA MigrateReportsKeeps == ASSUME IInv, NEW p \in Proc, MigrateReports(p) PROVE IInv'
<1> USE DEF IInv
<1>1. CountsOn(proc[p]) /\ proc[p] \in Process
    BY DEF Fits, TypeOK
<1>2. db # Nil
    BY <1>1 DEF CountsOn, MigrateReports
<1>3. db' \in Closed(db)
    BY <1>2, ClosesDBIsClose DEF MigrateReports
<1>4. db' # Nil /\ Visible(db') = Visible(db)
    BY <1>2, <1>3, ClosedIsSame, NilAssumption DEF TypeOK
<1>5. durable' = durable /\ socket' = socket /\ Ends(p)
    BY DEF MigrateReports
<1>6. CASE proc[p].at = "committed"
  <2>1. Schema /\ durable /\ Visible(db).version >= proc[p].version
    BY <1>1, <1>6 DEF CountsOn, Opened
  <2>2. /\ reported'.version = proc[p].version /\ reported'.last = reported.last
        /\ reported' \in [created: BOOLEAN, version: Version, last: Nat]
    BY <1>1, <1>6 DEF MigrateReports, TypeOK, Process
  <2>3. ReportsOnFile'
    BY <1>2, <1>4, <1>5, <2>1, <2>2 DEF ReportsOnFile, Schema
  <2> QED
    BY <1>2, <1>3, <1>5, <2>2, <2>3, EndsWithReport DEF TypeOK
<1>7. CASE proc[p].at # "committed"
    BY <1>2, <1>3, <1>5, <1>7, EndsKeeps DEF MigrateReports
<1> QED
    BY <1>6, <1>7

-----------------------------------------------------------------------------
(* The actions: an import *)

\* A step of an import on its own file.
LEMMA ImportStep ==
    ASSUME IInv, NEW p \in Proc, proc[p].program = "import",
           proc[p].at \in {"checked", "temporary", "importing"},
           NEW x \in Process, NEW f \in File,
           x.at \in {"temporary", "importing", "written"}, x.program = "import",
           x.answer = proc[p].answer,
           proc' = [proc EXCEPT ![p] = x], tmp' = [tmp EXCEPT ![p] = f],
           OwnFits(x, f),
           UNCHANGED <<db, durable, lock, socket, tx, reported>>
    PROVE  IInv'
<1> USE DEF IInv
<1>1. proc'[p] = x /\ tmp'[p] = f
    BY DEF TypeOK
<1>2. TypeOK'
    BY <1>1 DEF TypeOK, Holders
<1>3. OthersStay(p)
    BY DEF OthersStay, TypeOK
<1>4. tx[p] = Nil
    BY DEF Fits, TransactionFits, Late
<1>5. proc[p].answer = 0
    BY DEF Fits, CountsOn, TypeOK, Process
<1>6. CountsOn(proc[p])'
    BY <1>1, <1>5 DEF CountsOn, Opened
<1>7. TransactionFits(proc[p], tx[p])'
    BY <1>1, <1>4 DEF TransactionFits, Late
<1>8. Fits(p)'
    BY <1>1, <1>6, <1>7 DEF Fits
<1> QED
    BY <1>1, <1>2, <1>3, <1>8, Quiet

LEMMA CreateTempKeeps == ASSUME IInv, NEW p \in Proc, CreateTemp(p) PROVE IInv'
<1> USE DEF IInv
<1> DEFINE x == [proc[p] EXCEPT !.at = "temporary"]
<1>1. proc[p] \in Process /\ OwnFits(proc[p], tmp[p]) /\ At(p, "import", "checked")
    BY DEF TypeOK, Fits, CreateTemp
<1>2. /\ x \in Process /\ x.at = "temporary" /\ x.program = "import" /\ x.answer = proc[p].answer
      /\ x.read = 0
    BY <1>1 DEF Process, At, OwnFits, Phases
<1>3. proc' = [proc EXCEPT ![p] = x] /\ tmp' = [tmp EXCEPT ![p] = EmptyFile]
    BY DEF CreateTemp, Goes
<1> HIDE DEF x
<1>4. OwnFits(x, EmptyFile)
    BY <1>2 DEF OwnFits, Phases
<1> QED
    BY <1>1, <1>2, <1>3, <1>4, BlankIsContent, ImportStep DEF CreateTemp, At

LEMMA OpenTempKeeps == ASSUME IInv, NEW p \in Proc, OpenTemp(p) PROVE IInv'
<1> USE DEF IInv
<1> DEFINE x == [proc[p] EXCEPT !.at = "importing"]
           c == [WithSchema(Blank, proc[p].version) EXCEPT !.dump = proc[p].dump]
           f == Committed(EmptyFile, c)
<1>1. proc[p] \in Process /\ OwnFits(proc[p], tmp[p]) /\ At(p, "import", "temporary")
    BY DEF TypeOK, Fits, OpenTemp
<1>2. /\ x \in Process /\ x.at = "importing" /\ x.program = "import" /\ x.answer = proc[p].answer
      /\ x.read = 0 /\ x.dump = proc[p].dump /\ x.dump \in Nat
    BY <1>1 DEF Process, At, OwnFits, Phases
<1>3. tmp[p] = EmptyFile
    BY <1>1 DEF OwnFits, At
<1>4. proc' = [proc EXCEPT ![p] = x] /\ tmp' = [tmp EXCEPT ![p] = f]
    BY <1>3, BlankIsContent DEF OpenTemp, Goes, TypeOK
<1>5. c \in Content /\ c.tables = c.version /\ c.dump = proc[p].dump /\ c.last = 0
  <2>1. WithSchema(Blank, proc[p].version) \in Content
        /\ WithSchema(Blank, proc[p].version).tables = WithSchema(Blank, proc[p].version).version
        /\ WithSchema(Blank, proc[p].version).last = 0
    BY <1>1, BlankIsContent, WithSchemaIsContent DEF Process, Blank
  <2> QED
    BY <1>1, <2>1 DEF Content, Process
<1>6. f \in File /\ Visible(f) = c
    BY <1>5, BlankIsContent, CommittedIsVisible
<1> HIDE DEF x, c, f
<1>7. f # Nil
    BY <1>6, NilAssumption
<1>8. OwnFits(x, f)
    BY <1>2, <1>5, <1>6, <1>7 DEF OwnFits, Phases, Imported
<1> QED
    BY <1>1, <1>2, <1>4, <1>6, <1>8, ImportStep DEF OpenTemp, At

LEMMA ImportBatchKeeps == ASSUME IInv, NEW p \in Proc, ImportBatch(p) PROVE IInv'
<1> USE DEF IInv
<1> DEFINE left == proc[p].dump - proc[p].read
           n == proc[p].read + (IF left < Batch THEN left ELSE Batch)
           x == [proc[p] EXCEPT !.read = n]
           c == [Visible(tmp[p]) EXCEPT !.last = n]
<1>1. proc[p] \in Process /\ OwnFits(proc[p], tmp[p]) /\ At(p, "import", "importing")
    BY DEF TypeOK, Fits, ImportBatch
<1>2. tmp[p] \in File /\ Imported(proc[p], Visible(tmp[p]))
    BY <1>1 DEF OwnFits, At, TypeOK
<1>3. PICK pages \in {tmp[p].pages, c} :
          tmp' = [tmp EXCEPT ![p] = [pages |-> pages, wal |-> c]]
    BY DEF ImportBatch
<1>4. proc' = [proc EXCEPT ![p] = x] /\ left > 0
    BY DEF ImportBatch, TypeOK
<1>5. n \in Nat /\ n <= proc[p].dump
  <2>1. proc[p].read \in Nat /\ proc[p].dump \in Nat
    BY <1>1 DEF Process
  <2> QED
    BY <1>4, <2>1, BatchAssumption
<1> HIDE DEF n
<1>6. /\ x \in Process /\ x.at = "importing" /\ x.program = "import" /\ x.answer = proc[p].answer
      /\ x.read = n /\ x.dump = proc[p].dump
    BY <1>1, <1>5 DEF Process, At
<1>7. c \in Content /\ c.tables = Visible(tmp[p]).tables /\ c.version = Visible(tmp[p]).version
      /\ c.dump = Visible(tmp[p]).dump /\ c.last = n
    BY <1>2, <1>5, VisibleIsContent DEF Content
<1> HIDE DEF x, c
<1> DEFINE f == [pages |-> pages, wal |-> c]
<1>8. f \in File /\ Visible(f) = c
    BY <1>2, <1>7, NilAssumption DEF File, Visible
<1>9. f # Nil
    BY <1>8, NilAssumption
<1>10. tmp' = [tmp EXCEPT ![p] = f]
    BY <1>3
<1> HIDE DEF f
<1>11. OwnFits(x, f)
    BY <1>2, <1>5, <1>6, <1>7, <1>8, <1>9 DEF OwnFits, Phases, Imported
<1> QED
    BY <1>1, <1>4, <1>6, <1>8, <1>10, <1>11, ImportStep DEF ImportBatch, At

LEMMA CloseTempKeeps == ASSUME IInv, NEW p \in Proc, CloseTemp(p) PROVE IInv'
<1> USE DEF IInv
<1> DEFINE x == [proc[p] EXCEPT !.at = "written"]
<1>1. proc[p] \in Process /\ OwnFits(proc[p], tmp[p]) /\ At(p, "import", "importing")
    BY DEF TypeOK, Fits, CloseTemp
<1>2. tmp[p] \in File /\ Imported(proc[p], Visible(tmp[p]))
    BY <1>1 DEF OwnFits, At, TypeOK
<1>3. PICK f \in Closed(tmp[p]) : tmp' = [tmp EXCEPT ![p] = f]
    BY DEF CloseTemp
<1>4. f \in File /\ Visible(f) = Visible(tmp[p]) /\ f # Nil
    BY <1>2, ClosedIsSame, NilAssumption
<1>5. /\ x \in Process /\ x.at = "written" /\ x.program = "import" /\ x.answer = proc[p].answer
      /\ x.read = proc[p].read /\ x.dump = proc[p].dump /\ x.read = x.dump
    BY <1>1 DEF Process, At, CloseTemp
<1>6. proc' = [proc EXCEPT ![p] = x]
    BY DEF CloseTemp, Goes
<1> HIDE DEF x
<1>7. OwnFits(x, f)
    BY <1>2, <1>4, <1>5 DEF OwnFits, Phases, Imported
<1> QED
    BY <1>1, <1>3, <1>4, <1>5, <1>6, <1>7, ImportStep DEF CloseTemp, At

LEMMA LinkKeeps == ASSUME IInv, NEW p \in Proc, Link(p) PROVE IInv'
<1> USE DEF IInv
<1>1. proc[p] \in Process /\ Fits(p) /\ At(p, "import", "written")
    BY DEF TypeOK, Link
<1>2. tmp[p] \in File /\ Imported(proc[p], Visible(tmp[p])) /\ proc[p].read = proc[p].dump
    BY <1>1 DEF Fits, OwnFits, At, TypeOK
<1>3. db' \in File /\ Visible(db') = Visible(tmp[p])
    BY <1>2 DEF Link, WALGone, File, Visible
<1>4. Visible(db') \in Content /\ db' # Nil
    BY <1>3, VisibleIsContent, NilAssumption
<1>5. /\ Visible(db').tables = Visible(db').version /\ Visible(db').version \in Version
      /\ Visible(db').last = Visible(db').dump /\ Visible(db').last \in Nat
    BY <1>2, <1>3, <1>4 DEF Imported, Content
<1>6. Schema'
    BY <1>4, <1>5, SchemaIsNotNone DEF Schema
<1>7. db = Nil /\ ~durable /\ durable' = FALSE
    BY DEF Link
<1>8. /\ proc'[p].at = "linked" /\ proc'[p].program = "import"
      /\ proc'[p].answer = proc[p].answer /\ proc'[p] \in Process
    BY <1>1 DEF Link, Goes, TypeOK, At, Process
<1>9. TypeOK'
    BY <1>1, <1>3, <1>8 DEF TypeOK, Link, Goes, Holders, At
<1>10. OthersStay(p)
    BY DEF OthersStay, Link, Goes, TypeOK
<1>11. Grows
    BY <1>7 DEF Grows, Schema
<1>12. \A q \in Proc : tx[q] = Nil
    BY <1>7, NoFileNoTransaction
<1>13. Fits(p)'
  <2>1. OwnFits(proc[p], tmp[p])'
    BY <1>8 DEF OwnFits, Phases
  <2>2. proc[p].answer = 0
    BY <1>1 DEF Fits, CountsOn, At, Process
  <2>3. CountsOn(proc[p])'
    BY <1>6, <1>8, <2>2 DEF CountsOn, Opened
  <2>4. TransactionFits(proc[p], tx[p])'
    BY <1>8, <1>12, PhaseFits DEF Link
  <2> QED
    BY <2>1, <2>3, <2>4 DEF Fits
<1>14. FileIsWhole'
    BY <1>5, <1>6 DEF FileIsWhole, Whole, Schema
<1>15. ReportsOnFile'
    BY <1>9, <1>11, ReportsKept DEF Link
<1> QED
    BY <1>4, <1>7, <1>8, <1>9, <1>10, <1>11, <1>12, <1>13, <1>14, <1>15, Step DEF Link

-----------------------------------------------------------------------------
(* The actions: transactions *)

\* A commit of p puts its transaction on top, and nobody else has one.
LEMMA CommitKeeps ==
    ASSUME IInv, NEW p \in Proc, db # Nil, tx[p] # Nil,
           tx[p].tables = tx[p].version,
           tx[p].version >= Visible(db).version,
           tx[p].last >= Visible(db).last, tx[p].last >= tx[p].dump,
           db' = Committed(db, tx[p]), durable' = TRUE, tx' = [tx EXCEPT ![p] = Nil],
           NEW x \in Process, proc' = [proc EXCEPT ![p] = x],
           x.at \in Holders <=> proc[p].at \in Holders,
           x.at \in {"serving", "stopping", "closed", "committed"},
           x.at = "serving" => proc[p].at = "serving",
           x.program = IF x.at = "committed" THEN "migrate" ELSE "server",
           x.at = "committed" => x.version <= tx[p].version /\ x.answer = 0,
           x.answer <= tx[p].last,
           UNCHANGED <<lock, socket, tmp, reported>>
    PROVE  IInv'
<1> USE DEF IInv
<1>1. tx[p] \in Content /\ db \in File
    BY DEF TypeOK
<1>2. db' \in File /\ Visible(db') = tx[p] /\ db' # Nil
    BY <1>1, CommittedIsVisible, NilAssumption
<1>3. /\ tx[p].version \in Nat /\ tx[p].version # NoSchema /\ tx[p].tables # NoSchema
      /\ tx[p].last \in Nat
    BY <1>1, SchemaIsNotNone DEF Content
<1>4. proc'[p] = x /\ tx'[p] = Nil
    BY DEF TypeOK
<1>5. TypeOK'
    BY <1>2, <1>4 DEF TypeOK
<1>6. OthersStay(p)
    BY DEF OthersStay, TypeOK
<1>7. Schema'
    BY <1>2, <1>3 DEF Schema
<1>8. Grows
    BY <1>2, <1>7 DEF Grows
<1>9. \A q \in Proc \ {p} : tx[q] = Nil
    BY DEF OneWriter
<1>10. Fits(p)'
  <2>1. OwnFits(proc[p], tmp[p])'
    BY <1>4 DEF OwnFits, Phases
  <2>2. x.version \in Nat /\ x.answer \in Nat
    BY VersionAssumption DEF Process
  <2>3. CountsOn(proc[p])'
    BY <1>2, <1>3, <1>4, <1>7, <2>2 DEF CountsOn, Opened
  <2>4. TransactionFits(proc[p], tx[p])'
    BY <1>4, PhaseFits
  <2> QED
    BY <2>1, <2>3, <2>4 DEF Fits
<1>11. FileIsWhole'
    BY <1>2, <1>3 DEF FileIsWhole, Whole
<1>12. ReportsOnFile'
    BY <1>5, <1>8, ReportsKept
<1>13. proc'[p].at = "serving" => socket' = p
    BY <1>4 DEF SocketIsOwn
<1> QED
    BY <1>2, <1>4, <1>5, <1>6, <1>8, <1>9, <1>10, <1>11, <1>12, <1>13, Step

\* What is found in a file with a schema.
LEMMA FoundInSchema ==
    ASSUME IInv, Schema
    PROVE  /\ db \in File /\ Visible(db) \in Content
           /\ Visible(db).tables = Visible(db).version /\ Visible(db).version \in Nat
           /\ Visible(db).version \in Version
           /\ Visible(db).last \in Nat /\ Visible(db).dump \in Nat
           /\ Visible(db).last >= Visible(db).dump
<1>1. db \in File /\ Visible(db) \in Content
    BY VisibleIsContent DEF IInv, TypeOK, Schema
<1>2. Visible(db).tables = Visible(db).version /\ Visible(db).last >= Visible(db).dump
    BY DEF IInv, FileIsWhole, Whole, Schema, Blank
<1> QED
    BY <1>1, <1>2, VersionAssumption DEF Content

LEMMA BeginMigrationKeeps == ASSUME IInv, NEW p \in Proc, BeginMigration(p) PROVE IInv'
<1> USE DEF IInv
<1> DEFINE found == Visible(db)
           t == [found EXCEPT !.tables = proc[p].version]
<1>1. proc[p] \in Process /\ Fits(p) /\ At(p, "migrate", "locked")
    BY DEF TypeOK, BeginMigration
<1>2. db # Nil
    BY <1>1 DEF Fits, CountsOn, At
<1>3. Schema
    BY <1>2 DEF Schema, BeginMigration
<1>4. found \in Content /\ found.version \in Nat
    BY <1>3, FoundInSchema
<1>5. proc[p].version \in Version /\ proc[p].version \in Nat
    BY <1>1, VersionAssumption DEF Process
<1>6. found.version < proc[p].version
    BY <1>4, <1>5 DEF BeginMigration
<1>7. t \in Content
    BY <1>4, <1>5 DEF Content
<1>8. tx' = [tx EXCEPT ![p] = t] /\ tx'[p] = t
    BY DEF BeginMigration, TypeOK
<1>9. t # Nil
    BY <1>7, NilAssumption
<1>10. /\ proc'[p].at = "begun" /\ proc'[p].program = "migrate" /\ proc'[p].version = proc[p].version
       /\ proc'[p].answer = proc[p].answer /\ proc'[p] \in Process
    BY <1>1 DEF BeginMigration, Goes, TypeOK, Process, At
<1>11. TypeOK'
    BY <1>1, <1>7, <1>8, <1>10 DEF TypeOK, BeginMigration, Goes, Holders, At
<1>12. OthersStay(p)
    BY DEF OthersStay, BeginMigration, Goes, TypeOK
<1>13. db' = db /\ durable' = durable /\ reported' = reported /\ socket' = socket /\ Writing = {}
    BY DEF BeginMigration
<1>14. Fits(p)'
  <2>1. OwnFits(proc[p], tmp[p])'
    BY <1>10 DEF OwnFits, Phases
  <2>2. proc[p].answer = 0
    BY <1>1 DEF Fits, CountsOn, At, Process
  <2>3. CountsOn(proc[p])'
    BY <1>2, <1>3, <1>10, <1>13, <2>2 DEF CountsOn, Opened, Schema
  <2>4. TransactionFits(proc[p], tx[p])'
    BY <1>6, <1>8, <1>9, <1>10, <1>13 DEF TransactionFits, Late
  <2> QED
    BY <2>1, <2>3, <2>4 DEF Fits
<1> QED
    BY <1>10, <1>11, <1>12, <1>13, <1>14, Quiet

LEMMA StampVersionKeeps == ASSUME IInv, NEW p \in Proc, StampVersion(p) PROVE IInv'
<1> USE DEF IInv
<1> DEFINE found == Visible(db)
           t == WithSchema(found, proc[p].version)
<1>1. proc[p] \in Process /\ Fits(p) /\ At(p, "migrate", "begun")
    BY DEF TypeOK, StampVersion
<1>2. Schema
    BY <1>1 DEF Fits, CountsOn, At, Opened
<1>3. found \in Content /\ found.version \in Nat /\ proc[p].version \in Version
    BY <1>1, <1>2, FoundInSchema DEF Process
<1>4. tx[p] = [found EXCEPT !.tables = proc[p].version] /\ found.version < proc[p].version
      /\ tx[p] # Nil
    BY <1>1 DEF Fits, TransactionFits, At
<1>5. [tx[p] EXCEPT !.version = proc[p].version] = t
    BY <1>3, <1>4 DEF WithSchema, Content
<1>6. t \in Content /\ t # Nil
    BY <1>3, WithSchemaIsContent, NilAssumption
<1>7. tx' = [tx EXCEPT ![p] = t] /\ tx'[p] = t
    BY <1>5 DEF StampVersion, TypeOK
<1>8. /\ proc'[p].at = "stamped" /\ proc'[p].program = "migrate" /\ proc'[p].version = proc[p].version
      /\ proc'[p].answer = proc[p].answer /\ proc'[p] \in Process
    BY <1>1 DEF StampVersion, Goes, TypeOK, Process, At
<1>9. TypeOK'
    BY <1>1, <1>6, <1>7, <1>8 DEF TypeOK, StampVersion, Goes, Holders, At
<1>10. OthersStay(p)
    BY DEF OthersStay, StampVersion, Goes, TypeOK
<1>11. db' = db /\ durable' = durable /\ reported' = reported /\ socket' = socket
    BY DEF StampVersion
<1>12. Fits(p)'
  <2>1. OwnFits(proc[p], tmp[p])'
    BY <1>8 DEF OwnFits, Phases
  <2>2. proc[p].answer = 0
    BY <1>1 DEF Fits, CountsOn, At, Process
  <2>3. CountsOn(proc[p])'
    BY <1>2, <1>8, <1>11, <2>2 DEF CountsOn, Opened, Schema
  <2>4. TransactionFits(proc[p], tx[p])'
    BY <1>4, <1>6, <1>7, <1>8, <1>11 DEF TransactionFits, Late
  <2> QED
    BY <2>1, <2>3, <2>4 DEF Fits
<1> QED
    BY <1>4, <1>8, <1>9, <1>10, <1>11, <1>12, Quiet

LEMMA CommitMigrationKeeps == ASSUME IInv, NEW p \in Proc, CommitMigration(p) PROVE IInv'
<1> USE DEF IInv
<1> DEFINE x == [proc[p] EXCEPT !.at = "committed"]
<1>1. proc[p] \in Process /\ Fits(p) /\ At(p, "migrate", "stamped")
    BY DEF TypeOK, CommitMigration
<1>2. Schema
    BY <1>1 DEF Fits, CountsOn, At, Opened
<1>3. tx[p] # Nil /\ tx[p] = WithSchema(Visible(db), proc[p].version)
      /\ Visible(db).version < proc[p].version
    BY <1>1 DEF Fits, TransactionFits, At
<1>4. /\ tx[p].tables = tx[p].version /\ tx[p].version = proc[p].version
      /\ tx[p].last = Visible(db).last /\ tx[p].dump = Visible(db).dump
    BY <1>1, <1>2, <1>3, FoundInSchema, WithSchemaIsContent DEF Process
<1>5. proc[p].version \in Nat /\ proc[p].answer = 0
  <2>1. proc[p].version \in Nat
    BY <1>1, VersionAssumption DEF Process
  <2>2. proc[p].answer \in Nat /\ proc[p].at = "stamped"
    BY <1>1 DEF Process, At
  <2>3. ~(proc[p].answer > 0)
    BY <1>1, <2>2 DEF Fits, CountsOn
  <2> QED
    BY <2>1, <2>2, <2>3
<1>6. /\ x \in Process /\ x.at = "committed" /\ x.program = "migrate" /\ x.answer = 0
      /\ x.version = proc[p].version
    BY <1>1, <1>5 DEF Process, At
<1>7. /\ Visible(db).last \in Nat /\ Visible(db).dump \in Nat /\ Visible(db).version \in Nat
      /\ Visible(db).last >= Visible(db).dump
    BY <1>2, FoundInSchema
<1>8. proc' = [proc EXCEPT ![p] = x]
    BY DEF CommitMigration, Goes
<1> HIDE DEF x
<1>9. /\ tx[p].version >= Visible(db).version /\ tx[p].last >= Visible(db).last
      /\ tx[p].last >= tx[p].dump /\ x.version <= tx[p].version /\ x.answer <= tx[p].last
    BY <1>3, <1>4, <1>5, <1>6, <1>7
<1>10. x.at \in Holders <=> proc[p].at \in Holders
    BY <1>1, <1>6 DEF Holders, At
<1>11. db # Nil
    BY <1>2 DEF Schema
<1>12. /\ db' = Committed(db, tx[p]) /\ durable' = TRUE /\ tx' = [tx EXCEPT ![p] = Nil]
       /\ UNCHANGED <<lock, socket, tmp, reported>>
    BY DEF CommitMigration
<1> QED
    BY <1>3, <1>4, <1>6, <1>8, <1>9, <1>10, <1>11, <1>12, CommitKeeps

-----------------------------------------------------------------------------
(* The actions: a server *)

LEMMA ListenKeeps == ASSUME IInv, NEW p \in Proc, Listen(p) PROVE IInv'
<1> USE DEF IInv
<1>1. proc[p] \in Process /\ Fits(p)
    BY DEF TypeOK
<1>2. Schema /\ tx[p] = Nil /\ lock = p
    BY <1>1 DEF Fits, CountsOn, Opened, TransactionFits, Late, Listen, TypeOK, Holders
<1>3. /\ proc'[p].at = "serving" /\ proc'[p].program = "server"
      /\ proc'[p].answer = proc[p].answer /\ proc'[p] \in Process
    BY <1>1 DEF Listen, Goes, TypeOK, Process
<1>4. TypeOK'
    BY <1>1, <1>3 DEF TypeOK, Listen, Goes, Holders
<1>5. OthersStay(p)
    BY DEF OthersStay, Listen, Goes, TypeOK
<1>6. Fits(p)'
  <2>1. OwnFits(proc[p], tmp[p])'
    BY <1>3 DEF OwnFits, Phases
  <2>2. proc[p].answer = 0
    BY <1>1 DEF Fits, CountsOn, Listen, Process
  <2>3. CountsOn(proc[p])'
    BY <1>2, <1>3, <2>2 DEF CountsOn, Opened, Schema, Listen
  <2>4. TransactionFits(proc[p], tx[p])'
    BY <1>2, <1>3, PhaseFits DEF Listen
  <2> QED
    BY <2>1, <2>3, <2>4 DEF Fits
<1> QED
    BY <1>2, <1>4, <1>5, <1>6, Quiet DEF Listen

LEMMA BeginWriteKeeps == ASSUME IInv, NEW p \in Proc, BeginWrite(p) PROVE IInv'
<1> USE DEF IInv
<1> DEFINE t == [Visible(db) EXCEPT !.last = @ + 1]
<1>1. proc[p] \in Process /\ Fits(p) /\ At(p, "server", "serving")
    BY DEF TypeOK, BeginWrite
<1>2. Schema
    BY <1>1 DEF Fits, CountsOn, At, Opened
<1>3. t \in Content /\ t # Nil
    BY <1>2, FoundInSchema, NilAssumption DEF Content
<1>4. tx' = [tx EXCEPT ![p] = t] /\ tx'[p] = t
    BY DEF BeginWrite, TypeOK
<1>5. /\ db' = db /\ durable' = durable /\ reported' = reported /\ socket' = socket
      /\ lock' = lock /\ proc' = proc /\ tmp' = tmp /\ Writing = {}
    BY DEF BeginWrite
<1>6. TypeOK'
    BY <1>3, <1>4, <1>5 DEF TypeOK
<1>7. OthersStay(p)
    BY <1>4, <1>5 DEF OthersStay, TypeOK
<1>8. Fits(p)'
  <2>1. OwnFits(proc[p], tmp[p])'
    BY <1>1, <1>5 DEF Fits
  <2>2. CountsOn(proc[p])'
    BY <1>1, <1>5 DEF Fits, CountsOn, Schema
  <2>3. TransactionFits(proc[p], tx[p])'
    BY <1>1, <1>3, <1>4, <1>5 DEF TransactionFits, Late, At
  <2> QED
    BY <2>1, <2>2, <2>3 DEF Fits
<1>9. proc'[p].at = "serving" => socket' = p
    BY <1>5 DEF SocketIsOwn
<1> QED
    BY <1>5, <1>6, <1>7, <1>8, <1>9, Quiet

LEMMA AnswerIsProcess ==
    ASSUME NEW y \in Process, NEW n \in Nat
    PROVE  LET z == [y EXCEPT !.read = n, !.answer = n] IN
           z \in Process /\ z.at = y.at /\ z.program = y.program /\ z.answer = n
BY DEF Process

LEMMA CommitWriteKeeps == ASSUME IInv, NEW p \in Proc, CommitWrite(p) PROVE IInv'
<1> USE DEF IInv
<1> DEFINE x == [proc[p] EXCEPT !.read = tx[p].last, !.answer = tx[p].last]
<1>1. proc[p] \in Process /\ Fits(p) /\ tx[p] # Nil /\ proc[p].program = "server"
    BY DEF TypeOK, CommitWrite
<1>2. proc[p].at \in Late
    BY <1>1 DEF Fits, OwnFits, Phases, TransactionFits
<1>3. Schema /\ tx[p] = [Visible(db) EXCEPT !.last = @ + 1]
    BY <1>1, <1>2 DEF Fits, CountsOn, Opened, Late, TransactionFits
<1>4. /\ Visible(db) \in Content /\ Visible(db).tables = Visible(db).version
      /\ Visible(db).version \in Nat /\ Visible(db).last \in Nat /\ Visible(db).dump \in Nat
      /\ Visible(db).last >= Visible(db).dump
    BY <1>3, FoundInSchema
<1>5. /\ tx[p].tables = Visible(db).tables /\ tx[p].version = Visible(db).version
      /\ tx[p].last = Visible(db).last + 1 /\ tx[p].dump = Visible(db).dump
    BY <1>3, <1>4 DEF Content
<1>6. /\ x \in Process /\ x.at = proc[p].at /\ x.program = "server" /\ x.answer = tx[p].last
  <2>1. tx[p].last \in Nat
    BY <1>4, <1>5
  <2> QED
    BY <1>1, <2>1, AnswerIsProcess
<1>7. proc' = [proc EXCEPT ![p] = x]
    BY DEF CommitWrite
<1> HIDE DEF x
<1>8. /\ tx[p].tables = tx[p].version /\ tx[p].version >= Visible(db).version
      /\ tx[p].last >= Visible(db).last /\ tx[p].last >= tx[p].dump /\ x.answer <= tx[p].last
    BY <1>4, <1>5, <1>6
<1>9. /\ db # Nil /\ db' = Committed(db, tx[p]) /\ durable' = TRUE /\ tx' = [tx EXCEPT ![p] = Nil]
      /\ UNCHANGED <<lock, socket, tmp, reported>>
    BY <1>3 DEF CommitWrite, Schema
<1>10. x.at \in {"serving", "stopping", "closed"}
    BY <1>2, <1>6 DEF Late
<1> QED
    BY <1>1, <1>6, <1>7, <1>8, <1>9, <1>10, CommitKeeps

LEMMA WriteFailsKeeps == ASSUME IInv, NEW p \in Proc, WriteFails(p) PROVE IInv'
<1> USE DEF IInv
<1>1. Fits(p) /\ tx[p] # Nil /\ proc[p].program = "server"
    BY DEF WriteFails
<1>2. /\ db' = db /\ durable' = durable /\ reported' = reported /\ socket' = socket
      /\ lock' = lock /\ proc' = proc /\ tmp' = tmp /\ tx' = [tx EXCEPT ![p] = Nil] /\ tx'[p] = Nil
    BY DEF WriteFails, TypeOK
<1>3. TypeOK'
    BY <1>2 DEF TypeOK
<1>4. OthersStay(p)
    BY <1>2 DEF OthersStay, TypeOK
<1>5. Fits(p)'
  <2>1. OwnFits(proc[p], tmp[p])'
    BY <1>1, <1>2 DEF Fits
  <2>2. CountsOn(proc[p])'
    BY <1>1, <1>2 DEF Fits, CountsOn, Schema
  <2>3. TransactionFits(proc[p], tx[p])'
    BY <1>1, <1>2, PhaseFits DEF Fits, OwnFits, Phases
  <2> QED
    BY <2>1, <2>2, <2>3 DEF Fits
<1>6. proc'[p].at = "serving" => socket' = p
    BY <1>2 DEF SocketIsOwn
<1> QED
    BY <1>2, <1>3, <1>4, <1>5, <1>6, Quiet

LEMMA AnswerKeeps == ASSUME IInv, NEW p \in Proc, Answer(p) PROVE IInv'
<1> USE DEF IInv
<1>1. proc[p] \in Process /\ Fits(p) /\ proc[p].answer # 0
    BY DEF TypeOK, Answer
<1>2. proc[p].answer \in Nat /\ proc[p].answer > 0
    BY <1>1 DEF Process
<1>3. durable /\ proc[p].at \in Late /\ Visible(db).last >= proc[p].answer
    BY <1>1, <1>2 DEF Fits, CountsOn, Late
<1>4. Schema
    BY <1>1, <1>3 DEF Fits, CountsOn, Opened, Late
<1>5. reported \in [created: BOOLEAN, version: Version, last: Nat]
    BY DEF TypeOK
<1>6. /\ reported'.created = reported.created /\ reported'.version = reported.version
      /\ reported'.last \in {reported.last, proc[p].answer}
      /\ reported' \in [created: BOOLEAN, version: Version, last: Nat]
    BY <1>2, <1>5 DEF Answer
<1>7. /\ db' = db /\ durable' = durable /\ socket' = socket /\ lock' = lock /\ tmp' = tmp
      /\ tx' = tx
    BY DEF Answer
<1>8. /\ proc'[p].at = proc[p].at /\ proc'[p].program = proc[p].program /\ proc'[p].answer = 0
      /\ proc'[p].read = proc[p].read /\ proc'[p].version = proc[p].version /\ proc'[p].dump = proc[p].dump
      /\ proc'[p] \in Process
    BY <1>1 DEF Answer, TypeOK, Process
<1>9. proc' \in [Proc -> Process] /\ OthersStay(p)
    BY <1>7, <1>8 DEF OthersStay, Answer, TypeOK
<1>10. TypeOK'
    BY <1>6, <1>7, <1>8, <1>9 DEF TypeOK, OthersStay
<1>11. ReportsOnFile'
    BY <1>3, <1>4, <1>6, <1>7 DEF ReportsOnFile, Schema
<1>12. Fits(p)'
  <2>1. OwnFits(proc[p], tmp[p])'
    BY <1>1, <1>7, <1>8 DEF Fits, OwnFits, Phases, Imported
  <2>2. CountsOn(proc[p])'
    BY <1>1, <1>7, <1>8 DEF Fits, CountsOn, Opened, Schema
  <2>3. TransactionFits(proc[p], tx[p])'
    BY <1>1, <1>3, <1>7, <1>8 DEF Fits, TransactionFits, Late
  <2> QED
    BY <2>1, <2>2, <2>3 DEF Fits
<1>13. Visible(db).version \in Nat /\ Visible(db).last \in Nat
    BY <1>4, FoundInSchema
<1>14. Grows
    BY <1>7, <1>13 DEF Grows, Schema
<1>15. FileIsWhole'
    BY <1>7 DEF FileIsWhole
<1>16. proc'[p].at = "serving" => socket' = p
    BY <1>7, <1>8 DEF SocketIsOwn
<1> QED
    BY <1>7, <1>9, <1>10, <1>11, <1>12, <1>14, <1>15, <1>16, Step

LEMMA CheckpointKeeps == ASSUME IInv, NEW p \in Proc, Checkpoint(p) PROVE IInv'
<1> USE DEF IInv
<1>1. proc[p] \in Process /\ Fits(p) /\ At(p, "server", "serving")
    BY DEF TypeOK, Checkpoint
<1>2. db \in File /\ db # Nil
    BY <1>1 DEF Fits, CountsOn, At, TypeOK
<1>3. db' \in File /\ db' # Nil /\ Visible(db') = Visible(db)
    BY <1>2, ClosedIsSame, NilAssumption DEF Checkpoint, Closed
<1>4. /\ durable' = durable /\ reported' = reported /\ socket' = socket
      /\ lock' = lock /\ proc' = proc /\ tmp' = tmp /\ tx' = tx /\ Writing = {}
    BY DEF Checkpoint
<1>5. TypeOK'
    BY <1>3, <1>4 DEF TypeOK
<1>6. OthersStay(p)
    BY <1>4 DEF OthersStay
<1>7. Fits(p)'
  <2>1. OwnFits(proc[p], tmp[p])'
    BY <1>1, <1>4 DEF Fits
  <2>2. CountsOn(proc[p])'
    BY <1>1, <1>2, <1>3, <1>4 DEF Fits, CountsOn, Schema
  <2>3. tx[p] = Nil
    BY <1>4 DEF Writing
  <2>4. TransactionFits(proc[p], tx[p])'
    BY <1>1, <1>4, <2>3, PhaseFits DEF At
  <2> QED
    BY <2>1, <2>2, <2>4 DEF Fits
<1>8. proc'[p].at = "serving" => socket' = p
    BY <1>4 DEF SocketIsOwn
<1> QED
    BY <1>2, <1>3, <1>4, <1>5, <1>6, <1>7, <1>8, Quiet

\* The two steps of a server that stops.
LEMMA StoppingStep ==
    ASSUME IInv, NEW p \in Proc, NEW at \in {"stopping", "closed"},
           proc[p].at \in Late, proc[p].program = "server", Goes(p, at), lock' \in {lock, Nil},
           at \in Holders => lock' = p,
           at \notin Holders => lock' = Nil /\ lock = p,
           db # Nil => db' \in Closed(db), db = Nil => db' = Nil,
           socket' = socket \/ (lock = p /\ socket' = Nil),
           UNCHANGED <<durable, tmp, tx, reported>>
    PROVE  IInv'
<1> USE DEF IInv
<1>1. proc[p] \in Process /\ Fits(p)
    BY DEF TypeOK
<1>2. db # Nil => db' \in File /\ db' # Nil /\ Visible(db') = Visible(db)
    BY ClosedIsSame, NilAssumption DEF TypeOK
<1>3. Schema
    BY <1>1 DEF Fits, CountsOn, Opened, Late
<1>4. /\ proc'[p].at = at /\ proc'[p].program = "server" /\ proc'[p].answer = proc[p].answer
      /\ proc'[p] \in Process
    BY <1>1 DEF Goes, TypeOK, Process
<1>5. proc' \in [Proc -> Process] /\ OthersStay(p)
    BY <1>4 DEF OthersStay, Goes, TypeOK
<1>6. \A q \in Proc : lock' = q <=> proc'[q].at \in Holders
  <2>1. lock' = p <=> proc'[p].at \in Holders
    BY <1>4, NilAssumption
  <2>2. ASSUME NEW q \in Proc, q # p
        PROVE  lock' = q <=> proc'[q].at \in Holders
    <3>1. proc'[q] = proc[q] /\ (lock = q <=> proc[q].at \in Holders)
        BY <1>5, <2>2 DEF OthersStay, TypeOK
    <3>2. lock' = q <=> lock = q
        BY <2>2, NilAssumption DEF TypeOK
    <3> QED
        BY <3>1, <3>2
  <2> QED
    BY <2>1, <2>2
<1>7. TypeOK'
    BY <1>2, <1>3, <1>5, <1>6 DEF TypeOK, Schema
<1>8. Fits(p)'
  <2>1. OwnFits(proc[p], tmp[p])'
    BY <1>4 DEF OwnFits, Phases
  <2>2. CountsOn(proc[p])'
    BY <1>1, <1>2, <1>3, <1>4 DEF Fits, CountsOn, Opened, Schema
  <2>3. TransactionFits(proc[p], tx[p])'
    BY <1>1, <1>2, <1>3, <1>4 DEF Fits, TransactionFits, Late, Schema
  <2> QED
    BY <2>1, <2>2, <2>3 DEF Fits
<1> QED
    BY <1>2, <1>4, <1>5, <1>7, <1>8, Quiet

LEMMA ShutdownKeeps == ASSUME IInv, NEW p \in Proc, Shutdown(p) PROVE IInv'
<1>1. lock = p
    BY DEF Shutdown, At, IInv, TypeOK, Holders
<1> QED
    BY <1>1, StoppingStep DEF Shutdown, At, Late, Holders, Closed

LEMMA CloseStoreKeeps == ASSUME IInv, NEW p \in Proc, CloseStore(p) PROVE IInv'
<1>1. lock = p /\ Fits(p)
    BY DEF CloseStore, At, IInv, TypeOK, Holders
<1>2. db # Nil
    BY <1>1 DEF CloseStore, At, Fits, CountsOn
<1>3. db' \in Closed(db)
    BY DEF CloseStore, Closed
<1> QED
    BY <1>1, <1>2, <1>3, StoppingStep DEF CloseStore, At, Late, Holders

LEMMA PowerLossKeeps == ASSUME IInv, PowerLoss PROVE IInv'
<1> USE DEF IInv
<1>1. Off \in Process /\ Off.at = "off" /\ Off.answer = 0
    BY VersionAssumption DEF Off, Process, Program
<1>2. /\ \A p \in Proc : proc'[p] = Off /\ tmp'[p] = Nil /\ tx'[p] = Nil
      /\ lock' = Nil /\ socket' = Nil /\ reported' = reported
      /\ db' = db \/ (~durable /\ db' = Nil)
      /\ durable' = (db' # Nil)
    BY DEF PowerLoss
<1>3. TypeOK'
    BY <1>1, <1>2, NilAssumption DEF TypeOK, Holders, PowerLoss
<1>4. ASSUME NEW p \in Proc
      PROVE  Fits(p)'
  <2>1. OwnFits(proc[p], tmp[p])'
    BY <1>1, <1>2 DEF OwnFits, Phases
  <2>2. CountsOn(proc[p])'
    BY <1>1, <1>2 DEF CountsOn, Opened
  <2>3. TransactionFits(proc[p], tx[p])'
    BY <1>1, <1>2 DEF TransactionFits, Late
  <2> QED
    BY <2>1, <2>2, <2>3 DEF Fits
<1>5. OneWriter' /\ SocketIsOwn' /\ FileIsWhole'
    BY <1>1, <1>2 DEF OneWriter, SocketIsOwn, FileIsWhole
<1>6. ReportsOnFile'
    BY <1>2 DEF ReportsOnFile, Schema
<1> QED
    BY <1>2, <1>3, <1>4, <1>5, <1>6

-----------------------------------------------------------------------------
(* The theorems *)

LEMMA InitHolds == Init => IInv
<1> SUFFICES ASSUME Init PROVE IInv
    OBVIOUS
<1>1. Off \in Process /\ Off.at = "off" /\ Off.answer = 0
    BY VersionAssumption DEF Off, Process, Program
<1>2. TypeOK
    BY <1>1, VersionAssumption, NilAssumption DEF Init, TypeOK, Holders
<1>3. ASSUME NEW p \in Proc
      PROVE  Fits(p)
    BY <1>1 DEF Init, Fits, OwnFits, Phases, CountsOn, Opened, TransactionFits, Late
<1> QED
    BY <1>1, <1>2, <1>3 DEF Init, IInv, OneWriter, SocketIsOwn, FileIsWhole, ReportsOnFile

LEMMA StutterKeeps == ASSUME IInv, UNCHANGED vars PROVE IInv'
BY DEF IInv, vars, TypeOK, OneWriter, Fits, OwnFits, CountsOn, TransactionFits, FileIsWhole,
       ReportsOnFile, SocketIsOwn, Schema

\* The inductive invariant, from every step of every process (all programs).
THEOREM Invariance == Spec => []IInv
<1>1. IInv /\ [Next]_vars => IInv'
  <2> SUFFICES ASSUME IInv, [Next]_vars PROVE IInv'
    OBVIOUS
  <2>1. ASSUME NEW p \in Proc, Opens(p) PROVE IInv'
    BY <2>1, StartKeeps, AcquireLockKeeps, CreatePrivateKeeps, CreateSchemaKeeps, FindSchemaKeeps,
       FailsKeeps DEF Opens
  <2>2. ASSUME NEW p \in Proc, Imports(p) PROVE IInv'
    BY <2>2, CreateTempKeeps, OpenTempKeeps, ImportBatchKeeps, CloseTempKeeps, LinkKeeps,
       SyncDirKeeps DEF Imports
  <2>3. ASSUME NEW p \in Proc, Migrates(p) PROVE IInv'
    BY <2>3, BeginMigrationKeeps, StampVersionKeeps, CommitMigrationKeeps, MigrateReportsKeeps
    DEF Migrates
  <2>4. ASSUME NEW p \in Proc, Serves(p) PROVE IInv'
    BY <2>4, ListenKeeps, BeginWriteKeeps, CommitWriteKeeps, WriteFailsKeeps, AnswerKeeps,
       CheckpointKeeps, ShutdownKeeps, CloseStoreKeeps, ExitKeeps DEF Serves
  <2> QED
    BY <2>1, <2>2, <2>3, <2>4, InitCreatedKeeps, KillKeeps, PowerLossKeeps, StutterKeeps DEF Next
<1> QED
    BY <1>1, InitHolds, PTL DEF Spec

\* The types, and that the lock is held exactly from acquireLock to its release.
THEOREM TypeCorrect == Spec => []TypeOK
BY Invariance, PTL DEF IInv

\* Whatever opens the database finds a whole one (importDump, migrate, createSchema).
THEOREM AlwaysWhole == Spec => []FileIsWhole
BY Invariance, PTL DEF IInv

\* What init, migrate and the server told their users stays true.
THEOREM ReportsStay == Spec => []ReportsHold
<1>1. IInv => ReportsHold
    BY DEF IInv, ReportsOnFile, SocketIsOwn, ReportsHold, Schema
<1> QED
    BY <1>1, Invariance, PTL
=============================================================================
