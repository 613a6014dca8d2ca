-------------------------------- MODULE Dump --------------------------------
(***************************************************************************)
(* tamarackdb-init -import reading a dump, line by line, into its          *)
(* temporary file.  Database.tla has what becomes of that file.            *)
(*                                                                         *)
(* A dump is written by another program.  Of a line, the model has the     *)
(* values its fields end up with, whether one of them comes twice, under   *)
(* one name or under two that differ in case, and the members of its tags  *)
(* as they are written: "tags" stands for identifiers and for metadata,    *)
(* which are read alike.                                                   *)
(***************************************************************************)
EXTENDS Integers, FiniteSets, Sequences, TagSets

CONSTANTS Type, Name, Value,  \* texts the naming rules allow
          Time,               \* times in the form of dcb.TimeLayout, in UTC
          Payload,
          Absent,             \* a field that is missing or null
          OtherForm,          \* a time in any other form
          MaxTags,            \* dcb.MaxIdentifiers, dcb.MaxMetadata
          Batch,              \* importBatch
          Numbers,            \* bound: the sequences tried
          Repeats,            \* bound: how a field may come twice
          MaxMembers,         \* bound: members of an object
          MaxValues,          \* bound: values of one of them
          MaxLines            \* bound: lines of a dump

ASSUME DumpAssumption ==
    /\ Numbers \subseteq Int /\ Absent \notin Numbers
    /\ Batch \in Nat \ {0}
    /\ MaxMembers \in Nat /\ MaxValues \in Nat \ {0} /\ MaxLines \in Nat

ASSUME RepeatsAssumption == Repeats \subseteq {"same name", "other case"}

VARIABLES sum,      \* writeEvents: how many events, the first and the last sequence
          batch,    \* the events read and not yet imported
          file,     \* the events of the temporary file
          nextSeq,  \* Store.nextSeq
          status,   \* how the program goes on
          lines,    \* history: the lines taken for an event
          own       \* history: the dump so far is one a server could have written

vars == <<sum, batch, file, nextSeq, status, lines, own>>

-----------------------------------------------------------------------------
(* Lines *)

\* An object as it is written: its members one after the other.
Members == {[name |-> n, array |-> w.array, values |-> w.values] :
               n \in Name, w \in WireOf(MaxValues, Value \cup {BadText})}

EventLines ==
    [sequence : Numbers \cup {Absent}, time : Time \cup {OtherForm, Absent},
     type : Type \cup {BadText, Absent}, payload : Payload \cup {Absent},
     tags : [form : {"object"}, members : SeqsUpTo(MaxMembers, Members)]
            \cup [form : {"other", "absent"}, members : {<<>>}],
     repeated : Repeats \cup {"no"}]

Names(o) == {o[i].name : i \in DOMAIN o}

\* Mutant of DuplicateKeys: the objects in the line are not looked into.
DuplicateKeysTop(l) == l.repeated = "same name"

\* checkNoDuplicateKeys, at any depth.  It compares the names as they are written;
\* encoding/json finds the fields of dumpEvent whatever the case of their names.
DuplicateKeys(l) ==
    \/ l.repeated = "same name"
    \/ \E i, j \in DOMAIN l.tags.members :
           i # j /\ l.tags.members[i].name = l.tags.members[j].name

\* What encoding/json keeps of an object: the last member of a name.
Kept(o) ==
    [n \in Names(o) |->
        LET last == CHOOSE i \in DOMAIN o :
                        o[i].name = n /\ \A j \in DOMAIN o : o[j].name = n => j <= i
        IN  [array |-> o[last].array, values |-> o[last].values]]

Missing(l) ==
    \/ l.sequence = Absent \/ l.time = Absent \/ l.type = Absent \/ l.payload = Absent
    \/ l.tags.form = "absent"

\* dcb.Event
EventOf(l) ==
    [sequence |-> l.sequence, time |-> l.time, type |-> l.type, payload |-> l.payload,
     tags |-> Unmarshal(Kept(l.tags.members))]

\* EventData.Validate
Validate(e) == e.type # BadText /\ ValidTags(e.tags, MaxTags)

\* parseLine gives an event.
Parses(l) ==
    /\ ~DuplicateKeys(l)
    /\ ~Missing(l)
    /\ l.sequence >= 1
    /\ l.time # OtherForm
    /\ l.tags.form = "object" /\ WellFormed(Kept(l.tags.members))
    /\ Validate(EventOf(l))

-----------------------------------------------------------------------------
(* writeEvents *)

\* Mutant of Follows: a dump begins with the first event of all.
FollowsCount(sequence) == sequence = sum.count + 1

\* Mutant of Follows: a sequence may be left out.
FollowsLater(sequence) == sum.count > 0 => sequence > sum.last

Follows(sequence) == sum.count > 0 => sequence = sum.last + 1

\* Event.MarshalJSON: the line is one QUERY /events gives for an event.
Served(l) ==
    LET kept == Kept(l.tags.members)
    IN  /\ l.repeated = "no"
        /\ \A i, j \in DOMAIN l.tags.members : i < j => l.tags.members[i].name # l.tags.members[j].name
        /\ ~Missing(l) /\ l.sequence > 0 /\ l.time # OtherForm
        /\ l.tags.form = "object" /\ WellFormed(kept) /\ kept = MarshalCompact(Unmarshal(kept))
        /\ Validate(EventOf(l))

Stops(why) ==
    /\ status' = why
    /\ UNCHANGED <<sum, batch, file, nextSeq, lines>>

\* Mutant of Import: the events stay in the batch.
ImportAgain(events) ==
    /\ file' = file \o events
    /\ nextSeq' = IF events = <<>> THEN nextSeq ELSE events[Len(events)].sequence + 1
    /\ batch' = events

\* Store.Import, in one SQLite transaction.  Without an event it does nothing.  The
\* highest sequence is that of the last event.
Import(events) ==
    /\ file' = file \o events
    /\ nextSeq' = IF events = <<>> THEN nextSeq ELSE events[Len(events)].sequence + 1
    /\ batch' = <<>>

\* dumpReader.next, and what writeEvents does with the event.
ReadLine(l) ==
    /\ status = "reading"
    /\ Len(lines) < MaxLines
    /\ own' = (own /\ Served(l) /\ (lines # <<>> => l.sequence = lines[Len(lines)].sequence + 1))
    /\ IF Parses(l) /\ Follows(l.sequence)
       THEN /\ sum' = [count |-> sum.count + 1,
                       first |-> IF sum.count = 0 THEN l.sequence ELSE sum.first,
                       last  |-> l.sequence]
            /\ lines' = Append(lines, l)
            /\ IF Len(batch) + 1 = Batch
               THEN Import(Append(batch, EventOf(l)))
               ELSE batch' = Append(batch, EventOf(l)) /\ UNCHANGED <<file, nextSeq>>
            /\ UNCHANGED status
       ELSE Stops("refused")

\* A line that is empty, that json.Decode refuses, or that goes on after its event.
UnreadableLine ==
    /\ status = "reading"
    /\ own' = FALSE
    /\ Stops("refused")

\* io.EOF
EndOfDump ==
    /\ status = "reading"
    /\ IF sum.count = 0 THEN Stops("empty")
       ELSE /\ Import(batch)
            /\ status' = "imported"
            /\ UNCHANGED <<sum, lines>>
    /\ UNCHANGED own

\* The dump cannot be read, or the store fails.
ImportFails ==
    /\ status = "reading"
    /\ Stops("failed")
    /\ UNCHANGED own

Init ==
    /\ sum = [count |-> 0, first |-> 0, last |-> 0]
    /\ batch = <<>> /\ file = <<>> /\ nextSeq = 1
    /\ status = "reading"
    /\ lines = <<>> /\ own = TRUE

Next ==
    \/ \E l \in EventLines : ReadLine(l)
    \/ UnreadableLine \/ EndOfDump \/ ImportFails

Spec == Init /\ [][Next]_vars

-----------------------------------------------------------------------------
Events == [sequence : Nat \ {0}, time : Time, type : Type, payload : Payload,
           tags : UNION {[N -> SeqsUpTo(MaxValues, Value)] : N \in SUBSET Name}]

\* The locals of writeEvents stay what they are declared to be; a batch is never
\* kept past its size, and every event has the form of one the server wrote.
TypeOK ==
    /\ sum \in [count : Nat, first : Nat, last : Nat]
    /\ file \in Seq(Events) /\ batch \in Seq(Events) /\ Len(batch) < Batch
    /\ nextSeq \in Nat \ {0}
    /\ status \in {"reading", "refused", "empty", "failed", "imported"}
    /\ lines \in Seq(EventLines)
    /\ own \in BOOLEAN

(***************************************************************************)
(* dump.go: decoding "would keep its last value and drop the others        *)
(* without a word".  At every moment the events imported, and those of the *)
(* batch after them, are the lines read, one for one and in order: each    *)
(* has all its line says, every tag of it, and no more, whatever names     *)
(* come twice and however the values are written.  (A field under two      *)
(* names is NoFieldTwice.)                                                 *)
(***************************************************************************)
Says(l, e) ==
    /\ l.repeated # "same name"
    /\ e.sequence = l.sequence /\ e.time = l.time /\ e.type = l.type /\ e.payload = l.payload
    /\ Tags(e.tags) =
           UNION {{[name |-> m.name, value |-> m.values[i]] : i \in DOMAIN m.values} :
                     m \in {l.tags.members[j] : j \in DOMAIN l.tags.members}}

NothingDropped ==
    LET events == file \o batch
    IN  Len(events) = Len(lines) /\ \A i \in DOMAIN lines : Says(lines[i], events[i])

(***************************************************************************)
(* dump.go: parseLine reads an event "with exactly its six fields", and "a *)
(* missing, null, unknown, or repeated field is refused".                  *)
(***************************************************************************)
NoFieldTwice == \A i \in DOMAIN lines : lines[i].repeated = "no"

(***************************************************************************)
(* backup.md: "The first sequence can be 1 or more, and each next one is   *)
(* the one before plus 1", and the counter goes on after the last.  What   *)
(* an import reports, for the user to compare, is what the file holds: no  *)
(* batch is left out, not even the last one, full or not.                  *)
(***************************************************************************)
SummaryIsTrue ==
    /\ \A i \in DOMAIN file : file[i].sequence = file[1].sequence + i - 1
    /\ file # <<>> => nextSeq = file[Len(file)].sequence + 1
    /\ status = "imported" =>
           /\ file # <<>> /\ batch = <<>>
           /\ sum = [count |-> Len(file), first |-> file[1].sequence,
                     last |-> file[Len(file)].sequence]

(***************************************************************************)
(* backup.md: a dump is "in the shape of an event read with QUERY /events".*)
(* No line of a dump made of such answers, from any event on, is refused.  *)
(***************************************************************************)
OwnDumpsPass == status = "refused" => ~own
=============================================================================
