----------------------------- MODULE DumpProofs -----------------------------
(***************************************************************************)
(* The reading of a dump, for lines of any number, texts and limits.       *)
(*                                                                         *)
(* What the file holds is decided while a line is still in the batch: the  *)
(* invariant looks at both as one list, the events read (Read), and keeps  *)
(* what the summary says of it.  A line that parses has no name twice, so  *)
(* what decoding keeps of it is all of it (KeptIsAll).                     *)
(***************************************************************************)
EXTENDS Dump, SequenceTheorems, TLAPS

Read == file \o batch

Counted ==
    /\ sum.count = Len(lines)
    /\ \A i \in DOMAIN lines : /\ lines[i].sequence \in Nat \ {0}
                               /\ lines[i].sequence = sum.first + i - 1
    /\ lines # <<>> => sum.last = sum.first + Len(lines) - 1

Resumes ==
    /\ file # <<>> => nextSeq = file[Len(file)].sequence + 1
    /\ status = "imported" => batch = <<>> /\ lines # <<>>

IInv == TypeOK /\ NothingDropped /\ Counted /\ Resumes /\ OwnDumpsPass

-----------------------------------------------------------------------------
(* Lines *)

LEMMA KeptIsAll ==
    ASSUME NEW o \in SeqsUpTo(MaxMembers, Members),
           \A i, j \in DOMAIN o : o[i].name = o[j].name => i = j
    PROVE  /\ DOMAIN Kept(o) = Names(o)
           /\ \A i \in DOMAIN o :
                  Kept(o)[o[i].name] = [array |-> o[i].array, values |-> o[i].values]
<1>1. DOMAIN Kept(o) = Names(o)
    BY DEF Kept
<1>2. ASSUME NEW i \in DOMAIN o
      PROVE  Kept(o)[o[i].name] = [array |-> o[i].array, values |-> o[i].values]
  <2> DEFINE n == o[i].name
             P(k) == o[k].name = n /\ \A j \in DOMAIN o : o[j].name = n => j <= k
             last == CHOOSE k \in DOMAIN o : P(k)
  <2>1. DOMAIN o \subseteq Int
    <3>1. PICK k \in 0..MaxMembers : o \in [1..k -> Members]
        BY DEF SeqsUpTo
    <3> QED
        BY <3>1
  <2>2. P(i)
      BY <2>1
  <2>3. last \in DOMAIN o /\ P(last)
      BY <2>2
  <2>4. last = i
      BY <2>3
  <2>5. Kept(o)[n] = [array |-> o[last].array, values |-> o[last].values]
      BY DEF Kept, Names
  <2> QED
      BY <2>4, <2>5
<1> QED
    BY <1>1, <1>2

\* A line that parses becomes an event with all it says.
LEMMA ParsedSays ==
    ASSUME NEW l \in EventLines, Parses(l)
    PROVE  /\ EventOf(l) \in Events
           /\ Says(l, EventOf(l))
           /\ l.sequence \in Nat \ {0}
<1>1. /\ l.sequence \in Nat \ {0} /\ l.time \in Time /\ l.type \in Type /\ l.payload \in Payload
      /\ l.repeated # "same name"
  <2>6. l.sequence >= 1
      BY DEF Parses
  <2>1. l.sequence # Absent /\ l.time # Absent /\ l.time # OtherForm
        /\ l.type # Absent /\ l.payload # Absent /\ l.repeated # "same name"
      BY DEF Parses, Missing, DuplicateKeys
  <2>2. l.type # BadText
      BY DEF Parses, Validate, EventOf
  <2>3. /\ l.sequence \in Numbers \cup {Absent} /\ l.time \in Time \cup {OtherForm, Absent}
        /\ l.type \in Type \cup {BadText, Absent} /\ l.payload \in Payload \cup {Absent}
      BY DEF EventLines
  <2>4. l.sequence \in Int
      BY <2>1, <2>3, DumpAssumption
  <2>5. l.sequence \in Nat \ {0}
      BY <2>4, <2>6
  <2> QED
      BY <2>1, <2>2, <2>3, <2>5
<1> DEFINE o == l.tags.members
           w == Kept(o)
           e == EventOf(l)
<1>2. l.tags.form = "object" /\ o \in SeqsUpTo(MaxMembers, Members)
  <2>1. l.tags.form = "object"
      BY DEF Parses
  <2>2. l.tags \in [form : {"object"}, members : SeqsUpTo(MaxMembers, Members)]
                   \cup [form : {"other", "absent"}, members : {<<>>}]
      BY DEF EventLines
  <2> QED
      BY <2>1, <2>2
<1>3. \A i, j \in DOMAIN o : o[i].name = o[j].name => i = j
    BY DEF Parses, DuplicateKeys
<1>4. /\ DOMAIN w = Names(o)
      /\ \A i \in DOMAIN o : w[o[i].name] = [array |-> o[i].array, values |-> o[i].values]
    BY <1>2, <1>3, KeptIsAll
<1>5. e.tags = Unmarshal(w) /\ e.sequence = l.sequence /\ e.time = l.time /\ e.type = l.type
      /\ e.payload = l.payload
    BY DEF EventOf
<1>6. ValidTags(e.tags, MaxTags)
    BY DEF Parses, Validate
<1> HIDE DEF w, e, o
<1>7. DOMAIN e.tags = Names(o) /\ \A i \in DOMAIN o : e.tags[o[i].name] = o[i].values
  <2>1. DOMAIN e.tags = DOMAIN w /\ \A n \in DOMAIN w : e.tags[n] = w[n].values
      BY <1>5 DEF Unmarshal
  <2>2. ASSUME NEW i \in DOMAIN o
        PROVE  e.tags[o[i].name] = o[i].values
    <3>1. o[i].name \in DOMAIN w
        BY <1>4 DEF Names
    <3>3. w[o[i].name] = [array |-> o[i].array, values |-> o[i].values]
        BY <1>4
    <3>2. w[o[i].name].values = o[i].values
        BY <3>3
    <3> QED
        BY <2>1, <3>1, <3>2
  <2> QED
      BY <1>4, <2>1, <2>2
<1>8. \A i \in DOMAIN o : o[i].name \in Name /\ o[i].values \in SeqsUpTo(MaxValues, Value \cup {BadText})
  <2> SUFFICES ASSUME NEW i \in DOMAIN o
               PROVE  o[i].name \in Name
                      /\ o[i].values \in SeqsUpTo(MaxValues, Value \cup {BadText})
      OBVIOUS
  <2>1. o[i] \in Members
      BY <1>2 DEF SeqsUpTo
  <2>2. PICK n \in Name, x \in WireOf(MaxValues, Value \cup {BadText}) :
            o[i] = [name |-> n, array |-> x.array, values |-> x.values]
      BY <2>1 DEF Members
  <2>3. x.values \in SeqsUpTo(MaxValues, Value \cup {BadText})
    <3>1. CASE x \in {[array |-> TRUE, values |-> s] : s \in SeqsUpTo(MaxValues, Value \cup {BadText})}
        BY <3>1
    <3>2. CASE x \in {[array |-> FALSE, values |-> <<v>>] : v \in Value \cup {BadText}}
      <4>1. PICK v \in Value \cup {BadText} : x = [array |-> FALSE, values |-> <<v>>]
          BY <3>2
      <4>2. x.values = <<v>> /\ <<v>> \in [1..1 -> Value \cup {BadText}]
          BY <4>1
      <4>3. 1 \in 0..MaxValues
          BY DumpAssumption
      <4> QED
          BY <4>2, <4>3 DEF SeqsUpTo
    <3> QED
        BY <3>1, <3>2 DEF WireOf
  <2> QED
      BY <2>2, <2>3
<1>9. e.tags \in UNION {[N -> SeqsUpTo(MaxValues, Value)] : N \in SUBSET Name}
  <2>1. Names(o) \subseteq Name
      BY <1>8 DEF Names
  <2>2. ASSUME NEW n \in Names(o)
        PROVE  e.tags[n] \in SeqsUpTo(MaxValues, Value)
    <3>1. PICK i \in DOMAIN o : o[i].name = n
        BY DEF Names
    <3> DEFINE s == e.tags[n]
    <3>2. PICK k \in 0..MaxValues : s \in [1..k -> Value \cup {BadText}]
        BY <1>7, <1>8, <3>1 DEF SeqsUpTo
    <3>3. \A j \in 1..k : s[j] # BadText
      <4> SUFFICES ASSUME NEW j \in 1..k
                   PROVE  s[j] # BadText
          OBVIOUS
      <4>1. <<n, j>> \in Entries(e.tags)
          BY <1>7, <3>2 DEF Entries
      <4>2. [name |-> n, value |-> s[j]] \in Tags(e.tags)
          BY <4>1 DEF Tags
      <4> QED
          BY <1>6, <4>2 DEF ValidTags
    <3>4. s \in [1..k -> Value]
        BY <3>2, <3>3
    <3> QED
        BY <3>4 DEF SeqsUpTo
  <2>3. e.tags \in [Names(o) -> SeqsUpTo(MaxValues, Value)]
    <3>1. e.tags = [n \in Names(o) |-> e.tags[n]]
        BY <1>4, <1>5, <1>7 DEF Unmarshal
    <3> QED
        BY <2>2, <3>1
  <2> QED
      BY <2>1, <2>3
<1>10. e \in Events
    BY <1>1, <1>5, <1>9 DEF Events, e, EventOf
<1>11. Tags(e.tags) = UNION {{[name |-> m.name, value |-> m.values[i]] : i \in DOMAIN m.values} :
                                m \in {o[j] : j \in DOMAIN o}}
  <2> DEFINE said == UNION {{[name |-> m.name, value |-> m.values[i]] : i \in DOMAIN m.values} :
                               m \in {o[j] : j \in DOMAIN o}}
  <2>1. ASSUME NEW t \in Tags(e.tags)
        PROVE  t \in said
    <3>1. PICK x \in Entries(e.tags) : t = [name |-> x[1], value |-> e.tags[x[1]][x[2]]]
        BY DEF Tags
    <3>6. PICK n \in DOMAIN e.tags : x \in {<<n, i>> : i \in DOMAIN e.tags[n]}
        BY DEF Entries
    <3>2. PICK i \in DOMAIN e.tags[n] : x = <<n, i>>
        BY <3>6
    <3>3. PICK j \in DOMAIN o : o[j].name = n
        BY <1>7, <3>2 DEF Names
    <3>4. e.tags[n] = o[j].values
        BY <1>7, <3>3
    <3>5. t = [name |-> o[j].name, value |-> o[j].values[i]] /\ i \in DOMAIN o[j].values
        BY <3>1, <3>2, <3>3, <3>4
    <3> QED
        BY <3>5
  <2>2. ASSUME NEW t \in said
        PROVE  t \in Tags(e.tags)
    <3>4. PICK j \in DOMAIN o :
              t \in {[name |-> o[j].name, value |-> o[j].values[i]] : i \in DOMAIN o[j].values}
        OBVIOUS
    <3>1. PICK i \in DOMAIN o[j].values : t = [name |-> o[j].name, value |-> o[j].values[i]]
        BY <3>4
    <3>2. o[j].name \in DOMAIN e.tags /\ e.tags[o[j].name] = o[j].values
        BY <1>7 DEF Names
    <3>3. <<o[j].name, i>> \in Entries(e.tags)
        BY <3>2 DEF Entries
    <3> QED
        BY <3>1, <3>2, <3>3 DEF Tags
  <2> QED
      BY <2>1, <2>2
<1> QED
    BY <1>1, <1>5, <1>10, <1>11 DEF Says, e, o

\* What QUERY /events gives for an event parses.
LEMMA ServedParses ==
    ASSUME NEW l \in EventLines, Served(l)
    PROVE  Parses(l)
<1> DEFINE o == l.tags.members
<1>1. l.tags.form = "object" /\ ~Missing(l)
    BY DEF Served
<1>2. o \in SeqsUpTo(MaxMembers, Members)
  <2>1. l.tags \in [form : {"object"}, members : SeqsUpTo(MaxMembers, Members)]
                   \cup [form : {"other", "absent"}, members : {<<>>}]
      BY DEF EventLines
  <2> QED
      BY <1>1, <2>1
<1>3. ~DuplicateKeys(l)
  <2>1. PICK k \in 0..MaxMembers : o \in [1..k -> Members]
      BY <1>2 DEF SeqsUpTo
  <2>2. \A i, j \in DOMAIN o : i < j => o[i].name # o[j].name
      BY DEF Served
  <2>3. \A i, j \in DOMAIN o : i # j => i < j \/ j < i
      BY <2>1
  <2>4. l.repeated = "no"
      BY DEF Served
  <2> QED
      BY <2>2, <2>3, <2>4 DEF DuplicateKeys
<1>4. l.sequence >= 1
  <2>1. l.sequence \in Numbers \cup {Absent}
      BY DEF EventLines
  <2>2. l.sequence # Absent
      BY <1>1 DEF Missing
  <2>3. l.sequence > 0
      BY DEF Served
  <2>4. l.sequence \in Int
      BY <2>1, <2>2, DumpAssumption
  <2> QED
      BY <2>3, <2>4
<1> QED
    BY <1>1, <1>3, <1>4 DEF Parses, Served

-----------------------------------------------------------------------------
(* The invariant *)

LEMMA InitHolds == Init => IInv
<1> SUFFICES ASSUME Init
             PROVE  IInv
    OBVIOUS
<1> USE DEF Init
<1>1. TypeOK
    BY DumpAssumption DEF TypeOK
<1>2. NothingDropped /\ Counted /\ Resumes /\ OwnDumpsPass
    BY DEF NothingDropped, Counted, Resumes, OwnDumpsPass
<1> QED
    BY <1>1, <1>2 DEF IInv

\* The list of the events read grows by the event of the line, in the batch or in the
\* file.
LEMMA TakenKeeps ==
    ASSUME IInv, NEW l \in EventLines, Parses(l), Follows(l.sequence),
           sum' = [count |-> sum.count + 1,
                   first |-> IF sum.count = 0 THEN l.sequence ELSE sum.first,
                   last  |-> l.sequence],
           lines' = Append(lines, l),
           file' \o batch' = Append(Read, EventOf(l))
    PROVE  /\ sum' \in [count : Nat, first : Nat, last : Nat]
           /\ lines' \in Seq(EventLines)
           /\ NothingDropped' /\ Counted'
<1>1. /\ sum \in [count : Nat, first : Nat, last : Nat]
      /\ lines \in Seq(EventLines) /\ file \in Seq(Events) /\ batch \in Seq(Events)
    BY DEF IInv, TypeOK
<1>2. EventOf(l) \in Events /\ Says(l, EventOf(l)) /\ l.sequence \in Nat \ {0}
    BY ParsedSays
<1>3. sum' \in [count : Nat, first : Nat, last : Nat] /\ lines' \in Seq(EventLines)
    BY <1>1, <1>2
<1>4. NothingDropped'
  <2>1. Read \in Seq(Events) /\ Len(Read) = Len(lines)
        /\ \A i \in DOMAIN lines : Says(lines[i], Read[i])
      BY <1>1 DEF IInv, NothingDropped, Read
  <2>2. Len(Append(Read, EventOf(l))) = Len(lines')
      BY <1>1, <1>2, <2>1
  <2>3. ASSUME NEW i \in DOMAIN lines'
        PROVE  Says(lines'[i], Append(Read, EventOf(l))[i])
    <3>1. CASE i = Len(lines) + 1
      <4>1. lines'[i] = l /\ Append(Read, EventOf(l))[i] = EventOf(l)
          BY <1>1, <1>2, <2>1, <3>1
      <4> QED
          BY <1>2, <4>1
    <3>2. CASE i # Len(lines) + 1
      <4>1. i \in DOMAIN lines
          BY <1>1, <3>2
      <4>2. lines'[i] = lines[i] /\ Append(Read, EventOf(l))[i] = Read[i]
          BY <1>1, <1>2, <2>1, <4>1
      <4> QED
          BY <2>1, <4>1, <4>2
    <3> QED
        BY <3>1, <3>2
  <2> QED
      BY <2>2, <2>3 DEF NothingDropped
<1>5. Counted'
  <2>1. /\ sum.count = Len(lines)
        /\ \A i \in DOMAIN lines : /\ lines[i].sequence \in Nat \ {0}
                                   /\ lines[i].sequence = sum.first + i - 1
        /\ lines # <<>> => sum.last = sum.first + Len(lines) - 1
      BY DEF IInv, Counted
  <2>2. l.sequence = sum'.first + Len(lines)
    <3>1. CASE sum.count = 0
        BY <1>1, <1>2, <2>1, <3>1
    <3>2. CASE sum.count # 0
      <4>1. l.sequence = sum.last + 1 /\ lines # <<>>
          BY <1>1, <2>1, <3>2 DEF Follows
      <4> QED
          BY <1>1, <1>2, <2>1, <3>2, <4>1
    <3> QED
        BY <3>1, <3>2
  <2>3. sum'.count = Len(lines') /\ sum'.last = sum'.first + Len(lines') - 1
      BY <1>1, <1>2, <1>3, <2>1, <2>2
  <2>4. ASSUME NEW i \in DOMAIN lines'
        PROVE  /\ lines'[i].sequence \in Nat \ {0}
               /\ lines'[i].sequence = sum'.first + i - 1
    <3>1. CASE i = Len(lines) + 1
      <4>1. lines'[i] = l
          BY <1>1, <3>1
      <4>2. sum'.first \in Nat /\ Len(lines) \in Nat
          BY <1>1, <1>3
      <4>3. sum'.first + i - 1 = sum'.first + Len(lines)
          BY <3>1, <4>2
      <4> QED
          BY <1>2, <2>2, <4>1, <4>3
    <3>2. CASE i # Len(lines) + 1
      <4>1. i \in DOMAIN lines /\ lines'[i] = lines[i]
          BY <1>1, <3>2
      <4>3. sum.count # 0
        <5>1. Len(lines) # 0
            BY <1>1, <4>1
        <5> QED
            BY <2>1, <5>1
      <4>2. sum'.first = sum.first
          BY <4>3
      <4> QED
          BY <2>1, <4>1, <4>2
    <3> QED
        BY <3>1, <3>2
  <2> QED
      BY <2>3, <2>4 DEF Counted
<1> QED
    BY <1>3, <1>4, <1>5

LEMMA ReadLineHolds ==
    ASSUME IInv, NEW l \in EventLines, ReadLine(l)
    PROVE  IInv'
<1> DEFINE e == EventOf(l)
<1>1. /\ sum \in [count : Nat, first : Nat, last : Nat]
      /\ lines \in Seq(EventLines) /\ file \in Seq(Events) /\ batch \in Seq(Events)
      /\ Len(batch) < Batch /\ nextSeq \in Nat \ {0}
      /\ status = "reading" /\ own \in BOOLEAN /\ own' \in BOOLEAN
    BY DEF IInv, TypeOK, ReadLine
<1>2. CASE Parses(l) /\ Follows(l.sequence)
  <2>1. e \in Events /\ e.sequence \in Nat \ {0}
      BY <1>2, ParsedSays DEF EventOf
  <2>2. /\ sum' = [count |-> sum.count + 1,
                   first |-> IF sum.count = 0 THEN l.sequence ELSE sum.first,
                   last  |-> l.sequence]
        /\ lines' = Append(lines, l) /\ status' = "reading"
        /\ IF Len(batch) + 1 = Batch
           THEN Import(Append(batch, e))
           ELSE batch' = Append(batch, e) /\ UNCHANGED <<file, nextSeq>>
      BY <1>1, <1>2 DEF ReadLine
  <2> HIDE DEF e
  <2>3. /\ file' \in Seq(Events) /\ batch' \in Seq(Events) /\ Len(batch') < Batch
        /\ nextSeq' \in Nat \ {0}
        /\ file' \o batch' = Append(Read, e)
        /\ file' # <<>> => nextSeq' = file'[Len(file')].sequence + 1
    <3>1. CASE Len(batch) + 1 = Batch
      <4>6. Append(batch, e) # <<>>
          BY <1>1, <2>1
      <4>1. /\ file' = file \o Append(batch, e) /\ batch' = <<>>
            /\ nextSeq' = Append(batch, e)[Len(Append(batch, e))].sequence + 1
          BY <2>2, <3>1, <4>6 DEF Import
      <4>2. nextSeq' = e.sequence + 1
          BY <1>1, <2>1, <4>1
      <4>3. file' \in Seq(Events) /\ batch' \in Seq(Events) /\ Len(batch') < Batch
          BY <1>1, <2>1, <4>1, DumpAssumption
      <4>4. file' \o batch' = Append(Read, e)
        <5>1. Append(batch, e) \in Seq(Events)
            BY <1>1, <2>1
        <5>2. file' \o batch' = file \o Append(batch, e)
            BY <1>1, <4>1, <5>1
        <5>3. file \o Append(batch, e) = Append(file \o batch, e)
            BY <1>1, <2>1
        <5> QED
            BY <5>2, <5>3 DEF Read
      <4>5. file'[Len(file')] = e
          BY <1>1, <2>1, <4>1
      <4> QED
          BY <2>1, <4>2, <4>3, <4>4, <4>5
    <3>2. CASE Len(batch) + 1 # Batch
      <4>1. batch' = Append(batch, e) /\ file' = file /\ nextSeq' = nextSeq
          BY <2>2, <3>2
      <4>2. batch' \in Seq(Events) /\ Len(batch') < Batch
          BY <1>1, <2>1, <3>2, <4>1, DumpAssumption
      <4>3. file' \o batch' = Append(Read, e)
          BY <1>1, <2>1, <4>1 DEF Read
      <4> QED
          BY <1>1, <4>1, <4>2, <4>3 DEF IInv, Resumes
    <3> QED
        BY <3>1, <3>2
  <2>4. /\ sum' \in [count : Nat, first : Nat, last : Nat]
        /\ lines' \in Seq(EventLines)
        /\ NothingDropped' /\ Counted'
      BY <1>2, <2>2, <2>3, TakenKeeps DEF e
  <2>5. TypeOK'
      BY <1>1, <2>2, <2>3, <2>4 DEF TypeOK
  <2>6. Resumes' /\ OwnDumpsPass'
      BY <2>2, <2>3 DEF Resumes, OwnDumpsPass
  <2> QED
      BY <2>4, <2>5, <2>6 DEF IInv
<1>3. CASE ~(Parses(l) /\ Follows(l.sequence))
  <2>1. status' = "refused" /\ UNCHANGED <<sum, batch, file, nextSeq, lines>>
      BY <1>3 DEF ReadLine, Stops
  <2>2. OwnDumpsPass'
    <3> SUFFICES ASSUME own'
                 PROVE  FALSE
        BY DEF OwnDumpsPass
    <3>1. Served(l) /\ (lines # <<>> => l.sequence = lines[Len(lines)].sequence + 1)
        BY DEF ReadLine
    <3>2. Parses(l)
        BY <3>1, ServedParses
    <3>3. Follows(l.sequence)
      <4> SUFFICES ASSUME sum.count > 0
                   PROVE  l.sequence = sum.last + 1
          BY DEF Follows
      <4>1. /\ sum.count = Len(lines)
            /\ \A i \in DOMAIN lines : lines[i].sequence = sum.first + i - 1
            /\ lines # <<>> => sum.last = sum.first + Len(lines) - 1
          BY DEF IInv, Counted
      <4>2. lines # <<>> /\ Len(lines) \in DOMAIN lines
          BY <1>1, <4>1
      <4> QED
          BY <3>1, <4>1, <4>2
    <3> QED
        BY <1>3, <3>2, <3>3
  <2>3. TypeOK' /\ Resumes'
      BY <1>1, <2>1 DEF IInv, TypeOK, Resumes
  <2>4. NothingDropped'
    <3>1. file' = file /\ batch' = batch /\ lines' = lines
        BY <2>1
    <3>2. NothingDropped
        BY DEF IInv
    <3> QED
        BY <3>1, <3>2 DEF NothingDropped
  <2>5. Counted'
      BY <2>1 DEF IInv, Counted
  <2> QED
      BY <2>2, <2>3, <2>4, <2>5 DEF IInv
<1> QED
    BY <1>2, <1>3

LEMMA EndOfDumpHolds ==
    ASSUME IInv, EndOfDump
    PROVE  IInv'
<1>1. /\ sum \in [count : Nat, first : Nat, last : Nat]
      /\ lines \in Seq(EventLines) /\ file \in Seq(Events) /\ batch \in Seq(Events)
      /\ Len(batch) < Batch /\ nextSeq \in Nat \ {0} /\ own \in BOOLEAN
      /\ own' = own /\ lines' = lines /\ sum' = sum
    BY DEF IInv, TypeOK, EndOfDump, Stops
<1>2. CASE sum.count = 0
  <2>1. status' = "empty" /\ UNCHANGED <<batch, file, nextSeq>>
      BY <1>2 DEF EndOfDump, Stops
  <2>2. file' = file /\ batch' = batch
      BY <2>1
  <2>3. NothingDropped'
    <3>1. NothingDropped
        BY DEF IInv
    <3> QED
        BY <1>1, <2>2, <3>1 DEF NothingDropped
  <2>4. TypeOK'
      BY <1>1, <2>1 DEF TypeOK
  <2>5. Counted'
      BY <1>1 DEF IInv, Counted
  <2>6. Resumes' /\ OwnDumpsPass'
      BY <2>1 DEF IInv, Resumes, OwnDumpsPass
  <2> QED
      BY <2>3, <2>4, <2>5, <2>6 DEF IInv
<1>3. CASE sum.count # 0
  <2>1. /\ status' = "imported" /\ file' = file \o batch /\ batch' = <<>>
        /\ nextSeq' = IF batch = <<>> THEN nextSeq ELSE batch[Len(batch)].sequence + 1
      BY <1>3 DEF EndOfDump, Import
  <2>2. file' \o batch' = file \o batch
      BY <1>1, <2>1
  <2>3. NothingDropped'
    <3>1. NothingDropped
        BY DEF IInv
    <3> QED
        BY <1>1, <2>2, <3>1 DEF NothingDropped
  <2>4. nextSeq' \in Nat \ {0} /\ (file' # <<>> => nextSeq' = file'[Len(file')].sequence + 1)
    <3>1. CASE batch = <<>>
      <4>1. file' = file /\ nextSeq' = nextSeq
          BY <1>1, <2>1, <3>1
      <4> QED
          BY <1>1, <4>1 DEF IInv, Resumes
    <3>2. CASE batch # <<>>
      <4>1. Len(batch) \in Nat \ {0} /\ batch[Len(batch)] \in Events
          BY <1>1, <3>2
      <4>2. file'[Len(file')] = batch[Len(batch)]
          BY <1>1, <2>1, <3>2, <4>1
      <4>3. nextSeq' = batch[Len(batch)].sequence + 1
          BY <2>1, <3>2
      <4>4. batch[Len(batch)].sequence \in Nat \ {0}
          BY <4>1 DEF Events
      <4> QED
          BY <4>2, <4>3, <4>4
    <3> QED
        BY <3>1, <3>2
  <2>5. TypeOK'
      BY <1>1, <2>1, <2>4, DumpAssumption DEF TypeOK
  <2>6. lines # <<>>
      BY <1>1, <1>3 DEF IInv, Counted
  <2>7. Resumes' /\ OwnDumpsPass'
      BY <1>1, <2>1, <2>4, <2>6 DEF Resumes, OwnDumpsPass
  <2>8. Counted'
      BY <1>1 DEF IInv, Counted
  <2> QED
      BY <2>3, <2>5, <2>7, <2>8 DEF IInv
<1> QED
    BY <1>2, <1>3

\* A dump that stops otherwise, and a step that changes nothing.
LEMMA RestHolds ==
    ASSUME IInv, UnreadableLine \/ ImportFails \/ UNCHANGED vars
    PROVE  IInv'
<1>1. /\ UNCHANGED <<sum, batch, file, nextSeq, lines>>
      /\ status' = status \/ status' = "failed" \/ status' = "refused"
      /\ status' = "refused" => own' = FALSE \/ (status' = status /\ own' = own)
      /\ own' = FALSE \/ own' = own
    BY DEF UnreadableLine, ImportFails, Stops, vars
<1>2. file' = file /\ batch' = batch /\ lines' = lines
    BY <1>1
<1>3. NothingDropped'
  <2>1. NothingDropped
      BY DEF IInv
  <2> QED
      BY <1>2, <2>1 DEF NothingDropped
<1>4. TypeOK'
    BY <1>1 DEF IInv, TypeOK
<1>5. Counted'
    BY <1>1 DEF IInv, Counted
<1>6. Resumes' /\ OwnDumpsPass'
    BY <1>1 DEF IInv, Resumes, OwnDumpsPass
<1> QED
    BY <1>3, <1>4, <1>5, <1>6 DEF IInv

LEMMA Invariance == Spec => []IInv
<1>1. IInv /\ [Next]_vars => IInv'
    BY ReadLineHolds, EndOfDumpHolds, RestHolds DEF Next
<1> QED
    BY InitHolds, <1>1, PTL DEF Spec

\* What the file holds is what the summary counts.
LEMMA SummaryFollows == IInv => SummaryIsTrue
<1> SUFFICES ASSUME IInv
             PROVE  SummaryIsTrue
    OBVIOUS
<1>1. /\ sum \in [count : Nat, first : Nat, last : Nat]
      /\ lines \in Seq(EventLines) /\ file \in Seq(Events) /\ batch \in Seq(Events)
    BY DEF IInv, TypeOK
<1>2. Len(file \o batch) = Len(lines)
      /\ \A i \in DOMAIN lines : Says(lines[i], (file \o batch)[i])
    BY DEF IInv, NothingDropped
<1>3. \A i \in DOMAIN file : i \in DOMAIN lines /\ file[i].sequence = sum.first + i - 1
  <2> SUFFICES ASSUME NEW i \in DOMAIN file
               PROVE  i \in DOMAIN lines /\ file[i].sequence = sum.first + i - 1
      OBVIOUS
  <2>1. i \in DOMAIN lines /\ (file \o batch)[i] = file[i]
      BY <1>1, <1>2
  <2>2. file[i].sequence = lines[i].sequence
      BY <1>2, <2>1 DEF Says
  <2> QED
      BY <2>1, <2>2 DEF IInv, Counted
<1>4. \A i \in DOMAIN file : file[i].sequence = file[1].sequence + i - 1
  <2> SUFFICES ASSUME NEW i \in DOMAIN file
               PROVE  file[i].sequence = file[1].sequence + i - 1
      OBVIOUS
  <2>1. 1 \in DOMAIN file /\ i \in Nat /\ sum.first \in Nat
      BY <1>1
  <2>2. file[1].sequence = sum.first /\ file[i].sequence = sum.first + i - 1
      BY <1>3, <2>1
  <2> QED
      BY <2>1, <2>2
<1>5. ASSUME status = "imported"
      PROVE  /\ file # <<>> /\ batch = <<>>
             /\ sum = [count |-> Len(file), first |-> file[1].sequence,
                       last |-> file[Len(file)].sequence]
  <2>1. batch = <<>> /\ lines # <<>>
      BY <1>5 DEF IInv, Resumes
  <2>2. Len(file) = Len(lines) /\ file # <<>> /\ Len(file) \in Nat \ {0}
      BY <1>1, <1>2, <2>1
  <2>3. 1 \in DOMAIN file /\ Len(file) \in DOMAIN file
      BY <1>1, <2>2
  <2>4. sum.first = file[1].sequence /\ sum.first + Len(file) - 1 = file[Len(file)].sequence
    <3>1. file[1].sequence = sum.first + 1 - 1
        BY <1>3, <2>3
    <3>2. file[Len(file)].sequence = sum.first + Len(file) - 1
        BY <1>3, <2>3
    <3>3. sum.first \in Nat
        BY <1>1
    <3> QED
        BY <3>1, <3>2, <3>3
  <2>5. sum.count = Len(file) /\ sum.last = sum.first + Len(file) - 1
      BY <2>1, <2>2 DEF IInv, Counted
  <2> QED
      BY <1>1, <2>1, <2>2, <2>4, <2>5
<1>6. file # <<>> => nextSeq = file[Len(file)].sequence + 1
    BY DEF IInv, Resumes
<1> QED
    BY <1>4, <1>5, <1>6 DEF SummaryIsTrue

-----------------------------------------------------------------------------
(* What it gives *)

\* tamarackdb-init -import: every event it makes has the form of one the server wrote,
\* and it keeps fewer than a batch.
THEOREM TypeCorrect == Spec => []TypeOK
<1>1. IInv => TypeOK
    BY DEF IInv
<1> QED
    BY Invariance, <1>1, PTL

\* parseLine and writeEvents: the events are the lines, each with all its tags, for
\* dumps and batches of any length.
THEOREM NothingIsDropped == Spec => []NothingDropped
<1>1. IInv => NothingDropped
    BY DEF IInv
<1> QED
    BY Invariance, <1>1, PTL

\* writeEvents: the sequences of the file have no gap, wherever they begin, and the
\* summary of an import is what the file holds.
THEOREM SummaryHolds == Spec => []SummaryIsTrue
    BY Invariance, SummaryFollows, PTL

\* parseLine: no dump of the server's own answers is refused.
THEOREM OwnDumps == Spec => []OwnDumpsPass
<1>1. IInv => OwnDumpsPass
    BY DEF IInv
<1> QED
    BY Invariance, <1>1, PTL
=============================================================================
