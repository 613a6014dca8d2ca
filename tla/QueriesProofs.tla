--------------------------- MODULE QueriesProofs ---------------------------
(***************************************************************************)
(* The SQL of a query and Query.Matches agree, for all types, tags, limits *)
(* and positions, and so do the reads and checks built on them.            *)
(*                                                                         *)
(* That a client of pages misses nothing is not inductive: between two     *)
(* pages events are written and deleted.  What is kept is that no event up *)
(* to where the client is appears later (PageKnows), as a decision keeps   *)
(* that what was written since is what is past its position.               *)
(***************************************************************************)
EXTENDS Queries, FiniteSetTheorems, WellFoundedInduction, SequenceTheorems, TLAPS

PageKnows ==
    read.kind = "page" =>
        /\ read.from \in Nat /\ read.after \in Nat
        /\ read.limit \in Nat \ {0} /\ read.backwards \in BOOLEAN
        /\ read.from <= read.after
        /\ read.backwards \/ \A p \in read.seen : p <= read.after
        /\ read.after <= LastSequence \/ read.after = read.from
        /\ \A p \in Live : p > read.from /\ p <= read.after => p \in read.live

DecisionKnows ==
    read.kind = "decision" =>
        /\ read.position \in 0..LastSequence
        /\ \A p \in Live : p \in read.live <=> p <= read.position

IInv == TypeOK /\ TablesMirrorLog /\ PagesMissNothing /\ PageKnows /\ DecisionKnows

-----------------------------------------------------------------------------
(* Limits *)

Ahead(x, S, backwards) == {y \in S : IF backwards THEN y > x ELSE y < x}

LEMMA FirstOfDef ==
  ASSUME NEW S, NEW n, NEW b
  PROVE  FirstOf(n, S, b) = {x \in S : Cardinality(Ahead(x, S, b)) < n}
BY DEF FirstOf, Ahead

LEMMA AheadTransitive ==
  ASSUME NEW S \in SUBSET Int, NEW b \in BOOLEAN, NEW x \in S, NEW y \in Ahead(x, S, b)
  PROVE  Ahead(y, S, b) \subseteq Ahead(x, S, b) /\ y \notin Ahead(y, S, b)
<1>1. S \subseteq Int /\ x \in Int /\ y \in Int /\ (IF b THEN y > x ELSE y < x)
  BY DEF Ahead
<1>2. ASSUME NEW z \in Ahead(y, S, b) PROVE z \in Ahead(x, S, b) /\ z # y
  <2>1. z \in S /\ z \in Int /\ (IF b THEN z > y ELSE z < y)
    BY <1>1 DEF Ahead
  <2>2. IF b THEN z > x ELSE z < x
    BY <1>1, <2>1
  <2>3. z # y
    BY <1>1, <2>1
  <2> QED
    BY <2>1, <2>2, <2>3 DEF Ahead
<1> QED
  BY <1>2

\* What is before an element of the first n is among them.
LEMMA FirstOfClosed ==
  ASSUME NEW S \in SUBSET Int, IsFiniteSet(S), NEW n \in Int, NEW b \in BOOLEAN,
         NEW x \in FirstOf(n, S, b), NEW y \in Ahead(x, S, b)
  PROVE  y \in FirstOf(n, S, b)
<1>1. x \in S /\ y \in S /\ Cardinality(Ahead(x, S, b)) < n
  BY FirstOfDef DEF Ahead
<1>2. Ahead(y, S, b) \subseteq Ahead(x, S, b) /\ Ahead(x, S, b) \subseteq S
  BY <1>1, AheadTransitive DEF Ahead
<1>3. IsFiniteSet(Ahead(x, S, b)) /\ IsFiniteSet(Ahead(y, S, b))
  BY <1>2, FS_Subset
<1>4. Cardinality(Ahead(y, S, b)) <= Cardinality(Ahead(x, S, b))
  BY <1>2, <1>3, FS_Subset
<1>5. Cardinality(Ahead(y, S, b)) \in Nat /\ Cardinality(Ahead(x, S, b)) \in Nat
  BY <1>3, FS_CardinalityType
<1> QED
  BY <1>1, <1>4, <1>5, FirstOfDef

\* A limit that is not reached cuts nothing.
LEMMA FirstOfEnough ==
  ASSUME NEW S \in SUBSET Int, IsFiniteSet(S), NEW n \in Int, NEW b \in BOOLEAN, Cardinality(S) <= n
  PROVE  FirstOf(n, S, b) = S
<1>1. SUFFICES ASSUME NEW x \in S PROVE Cardinality(Ahead(x, S, b)) < n
  BY FirstOfDef
<1>2. Ahead(x, S, b) \subseteq S /\ x \notin Ahead(x, S, b)
  BY DEF Ahead
<1>3. IsFiniteSet(Ahead(x, S, b))
  BY <1>2, FS_Subset
<1>4. Cardinality(Ahead(x, S, b)) <= Cardinality(S) /\ Cardinality(Ahead(x, S, b)) # Cardinality(S)
  BY <1>2, <1>3, FS_Subset
<1>5. Cardinality(Ahead(x, S, b)) \in Nat /\ Cardinality(S) \in Nat
  BY <1>3, FS_CardinalityType
<1> QED
  BY <1>4, <1>5

\* Fewer rows than the limit are all the rows.
LEMMA FirstOfAll ==
  ASSUME NEW S \in SUBSET Int, IsFiniteSet(S), NEW n \in Int, NEW b \in BOOLEAN,
         Cardinality(FirstOf(n, S, b)) < n
  PROVE  FirstOf(n, S, b) = S
<1> DEFINE F == FirstOf(n, S, b)
           D == S \ F
           U == {Ahead(x, S, b) : x \in D}
<1>1. SUFFICES ASSUME D # {} PROVE FALSE
  BY FirstOfDef
<1>2. U # {} /\ U \subseteq SUBSET S
  BY <1>1 DEF Ahead
<1>3. U \subseteq FiniteSubsetsOf(S)
  BY <1>2, FS_FiniteSubsetsOfFinite
<1>4. PICK A \in U : \A B \in U : ~(<<B, A>> \in StrictSubsetOrdering(S))
  <2> HIDE DEF U
  <2> QED BY <1>2, <1>3, FS_StrictSubsetOrderingWellFounded, WFMin
<1>5. PICK x \in D : A = Ahead(x, S, b)
  OBVIOUS
<1>6. ASSUME NEW y \in Ahead(x, S, b) PROVE y \in F
  <2>1. y \in S /\ x \in S
    BY <1>5 DEF Ahead
  <2>2. Ahead(y, S, b) \subseteq Ahead(x, S, b) /\ y \notin Ahead(y, S, b)
    BY <2>1, <1>6, AheadTransitive
  <2>3. Ahead(y, S, b) # Ahead(x, S, b)
    BY <2>2, <1>6
  <2>4. <<Ahead(y, S, b), Ahead(x, S, b)>> \in StrictSubsetOrdering(S)
    <3>1. Ahead(y, S, b) \in SUBSET S /\ Ahead(x, S, b) \in SUBSET S
      BY DEF Ahead
    <3> QED BY <3>1, <2>2, <2>3 DEF StrictSubsetOrdering
  <2>5. Ahead(y, S, b) \notin U
    BY <2>4, <1>4, <1>5
  <2> QED BY <2>1, <2>5
<1>7. F \subseteq S /\ IsFiniteSet(F)
  BY FirstOfDef, FS_Subset
<1>8. Ahead(x, S, b) \subseteq F
  BY <1>6
<1>9. IsFiniteSet(Ahead(x, S, b)) /\ Cardinality(Ahead(x, S, b)) <= Cardinality(F)
  BY <1>7, <1>8, FS_Subset
<1>10. Cardinality(Ahead(x, S, b)) \in Nat /\ Cardinality(F) \in Nat
  BY <1>7, <1>9, FS_CardinalityType
<1>11. Cardinality(Ahead(x, S, b)) < n
  BY <1>9, <1>10
<1>12. x \in F
  BY <1>11, <1>5, FirstOfDef
<1> QED
  BY <1>12, <1>5

\* One row more than the limit is one that the limit cuts.
LEMMA FirstOfCuts ==
  ASSUME NEW S \in SUBSET Int, IsFiniteSet(S), NEW n \in Nat, NEW b \in BOOLEAN,
         Cardinality(S) > n
  PROVE  \E x \in S : x \notin FirstOf(n, S, b)
<1>0. PICK c \in BOOLEAN : c <=> ~b
  OBVIOUS
<1> DEFINE F == FirstOf(1, S, c)
<1>1. S # {} /\ Cardinality(S) \in Nat
  <2>1. Cardinality(S) \in Nat
    BY FS_CardinalityType
  <2>2. ASSUME S = {} PROVE FALSE
    BY <2>1, <2>2, FS_EmptySet
  <2> QED
    BY <2>1, <2>2
<1>2. F # {}
  <2>1. ASSUME F = {} PROVE FALSE
    <3>1. Cardinality(F) < 1
      BY <2>1, FS_EmptySet
    <3>2. F = S
      BY <3>1, <1>1, FirstOfAll
    <3> QED
      BY <2>1, <3>2, <1>1
  <2> QED
    BY <2>1
<1>3. PICK x \in F : TRUE
  BY <1>2
<1>4. x \in S /\ Cardinality(Ahead(x, S, c)) < 1
  BY <1>3, FirstOfDef
<1>5. Ahead(x, S, c) = {}
  <2>1. IsFiniteSet(Ahead(x, S, c))
    BY FS_Subset DEF Ahead
  <2>2. Cardinality(Ahead(x, S, c)) = 0
    BY <2>1, <1>4, FS_CardinalityType
  <2> QED
    BY <2>1, <2>2, FS_EmptySet
<1>6. Ahead(x, S, b) = S \ {x}
  <2>1. ASSUME NEW y \in S PROVE y \in Ahead(x, S, b) <=> y # x
    <3>1. y \in Int /\ x \in Int /\ y \notin Ahead(x, S, c)
      BY <1>4, <1>5
    <3> QED
      BY <3>1, <1>0 DEF Ahead
  <2> QED
    BY <2>1 DEF Ahead
<1>7. Cardinality(Ahead(x, S, b)) = Cardinality(S) - 1
  BY <1>4, <1>6, FS_RemoveElement
<1>8. ~(Cardinality(Ahead(x, S, b)) < n)
  BY <1>1, <1>7
<1> QED
  BY <1>4, <1>8, FirstOfDef

-----------------------------------------------------------------------------
(* Events and queries that were accepted *)

IsTagSet(s) ==
    /\ s = [n \in DOMAIN s |-> s[n]]
    /\ \A n \in DOMAIN s : s[n] # <<>>
    /\ Tags(s) \subseteq Pairs

LEMMA UnmarshalledTags ==
  ASSUME NEW w \in WireSets, WellFormed(w), NEW max, ValidTags(Unmarshal(w), max)
  PROVE  IsTagSet(Unmarshal(w))
<1> DEFINE s == Unmarshal(w)
<1>1. PICK N \in SUBSET Name : w \in [N -> Wire]
  BY DEF WireSets
<1>2. DOMAIN s = N /\ \A n \in N : s[n] = w[n].values
  BY <1>1 DEF Unmarshal
<1>3. s = [n \in DOMAIN s |-> s[n]]
  BY <1>1, <1>2 DEF Unmarshal
<1>4. \A n \in N : s[n] # <<>>
  BY <1>1, <1>2 DEF WellFormed
<1>5. ASSUME NEW n \in N, NEW i \in DOMAIN s[n] PROVE s[n][i] \in Value \cup {BadText}
  <2>1. w[n] \in Wire
    BY <1>1
  <2>2. CASE \E v \in Value \cup {BadText} : w[n] = [array |-> FALSE, values |-> <<v>>]
    BY <2>2, <1>2, <1>5
  <2>3. CASE \E q \in SeqsUpTo(MaxSent, Value \cup {BadText}) : w[n] = [array |-> TRUE, values |-> q]
    BY <2>3, <1>2, <1>5 DEF SeqsUpTo
  <2> QED
    BY <2>1, <2>2, <2>3 DEF Wire, WireOf
<1>6. ASSUME NEW t \in Tags(s) PROVE t \in Pairs
  <2>1. PICK x \in Entries(s) : t = [name |-> x[1], value |-> s[x[1]][x[2]]]
    BY <1>6 DEF Tags
  <2>2. PICK n \in N : x \in {<<n, i>> : i \in DOMAIN s[n]}
    BY <2>1, <1>2 DEF Entries
  <2>3. PICK i \in DOMAIN s[n] : x = <<n, i>>
    BY <2>2
  <2>4. t = [name |-> n, value |-> s[n][i]] /\ n \in Name
    BY <2>1, <2>3
  <2>5. s[n][i] # BadText
    BY <2>4, <1>6 DEF ValidTags
  <2> QED
    BY <2>4, <2>5, <1>5 DEF Pairs
<1> QED
  BY <1>2, <1>3, <1>4, <1>6 DEF IsTagSet

LEMMA EventsType ==
  ASSUME NEW e \in Events
  PROVE  /\ e.type \in Type /\ e.payload \in Payload
         /\ IsTagSet(e.identifiers) /\ IsTagSet(e.metadata)
<1>1. PICK w \in EventInputs : /\ WellFormed(w.identifiers) /\ WellFormed(w.metadata)
                               /\ e = EventData(w) /\ ValidEvent(e)
  BY DEF Events
<1>2. /\ e.type = w.type /\ e.payload = w.payload
      /\ e.identifiers = Unmarshal(w.identifiers) /\ e.metadata = Unmarshal(w.metadata)
  BY <1>1 DEF EventData, EventInputs
<1>3. /\ w.type \in Type \cup {BadText} /\ w.payload \in Payload \cup {NoPayload}
      /\ w.identifiers \in WireSets /\ w.metadata \in WireSets
  BY DEF EventInputs
<1>4. /\ e.type # BadText /\ e.payload # NoPayload
      /\ ValidTags(e.identifiers, MaxIdentifiers) /\ ValidTags(e.metadata, MaxMetadata)
  BY <1>1 DEF ValidEvent
<1> QED
  BY <1>1, <1>2, <1>3, <1>4, UnmarshalledTags

\* What a client decodes of a stored set is the set.
LEMMA RoundTrip ==
  ASSUME NEW s, IsTagSet(s)
  PROVE  WellFormed(MarshalCompact(s)) /\ Unmarshal(MarshalCompact(s)) = s
<1>1. DOMAIN MarshalCompact(s) = DOMAIN s
  BY DEF MarshalCompact
<1>2. \A n \in DOMAIN s : MarshalCompact(s)[n].values = s[n]
  BY DEF MarshalCompact
<1> QED
  BY <1>1, <1>2 DEF IsTagSet, WellFormed, Unmarshal

ItemTyped(i) ==
    /\ i.types.given <=> i.types.values # {}
    /\ i.identifiers.values \subseteq Pairs
    /\ i.metadata.values \subseteq Pairs

LEMMA QueriesType ==
  ASSUME NEW q \in Queries
  PROVE  /\ q.form \in {"all", "none", "items"}
         /\ q.form = "items" => \A i \in q.items : ItemTyped(i)
<1>1. CASE q \in {QueryAll, QueryNone}
  BY <1>1 DEF QueryAll, QueryNone
<1>2. CASE q \in {NewQuery(s) : s \in Lists}
  <2>1. PICK s \in Lists : q = NewQuery(s)
    BY <1>2
  <2>2. q.form = "items" /\ \A i \in q.items : i \in Items
    BY <2>1 DEF NewQuery, Lists, SeqsUpTo
  <2>3. ASSUME NEW i \in q.items PROVE ItemTyped(i)
    <3>1. i \in Items /\ ValidItem(i)
      BY <2>2, <2>3 DEF Queries, ValidQuery
    <3>2. i.types \in Axis(Type) /\ i.identifiers \in Axis(Pairs) /\ i.metadata \in Axis(Pairs)
      BY <3>1 DEF Items
    <3>3. i.types.given => i.types.values # {}
      BY <3>1 DEF ValidItem
    <3> QED
      BY <3>2, <3>3 DEF Axis, ItemTyped
  <2> QED
    BY <2>2, <2>3
<1> QED
  BY <1>1, <1>2 DEF Queries

-----------------------------------------------------------------------------
(* The SQL selects what Matches selects *)

LEMMA TaggedIsTags ==
  ASSUME NEW L, NEW F, NEW table, table = UNION {TagRows(p, F[p]) : p \in L},
         \A p \in L : Tags(F[p]) \subseteq Pairs,
         NEW t \in Pairs, NEW p \in L, NEW after, p > after
  PROVE  p \in Tagged(table, t, after) <=> t \in Tags(F[p])
<1>1. t = [name |-> t.name, value |-> t.value]
  BY DEF Pairs
<1>2. ASSUME t \in Tags(F[p]) PROVE p \in Tagged(table, t, after)
  <2> DEFINE x == [event_sequence |-> p, name |-> t.name, value |-> t.value]
  <2>1. x \in TagRows(p, F[p])
    BY <1>2 DEF TagRows
  <2>2. x \in table
    BY <2>1
  <2> QED
    BY <2>2 DEF Tagged
<1>3. ASSUME p \in Tagged(table, t, after) PROVE t \in Tags(F[p])
  <2>1. PICK y \in table : y.event_sequence = p /\ y.name = t.name /\ y.value = t.value
    BY <1>3 DEF Tagged
  <2>2. PICK r \in L : y \in TagRows(r, F[r])
    BY <2>1
  <2>3. PICK u \in Tags(F[r]) : y = [event_sequence |-> r, name |-> u.name, value |-> u.value]
    BY <2>2 DEF TagRows
  <2>4. r = p /\ u.name = t.name /\ u.value = t.value
    BY <2>1, <2>3
  <2>5. u = [name |-> u.name, value |-> u.value]
    BY <2>2, <2>3 DEF Pairs
  <2> QED
    BY <1>1, <2>3, <2>4, <2>5
<1> QED
  BY <1>2, <1>3

LEMMA LiveType ==
  ASSUME TypeOK
  PROVE  /\ Live \subseteq 1..LastSequence /\ LastSequence \in Nat /\ IsFiniteSet(Live)
         /\ Live \subseteq Nat
         /\ \A p \in Live : log[p] \in Events
<1>1. LastSequence \in Nat /\ floor \in 0..LastSequence
  BY DEF TypeOK, LastSequence
<1>2. Live \subseteq 1..LastSequence
  BY <1>1 DEF Live
<1>3. IsFiniteSet(Live)
  BY <1>1, FS_Interval DEF Live
<1> QED
  BY <1>1, <1>2, <1>3 DEF TypeOK

LEMMA SQLIsMatches ==
  ASSUME TypeOK, TablesMirrorLog, NEW q \in Queries, NEW after \in Nat
  PROVE  Select(q, after) = {p \in Live : p > after /\ Matches(q, log[p])}
<1>1. \A p \in Live : log[p] \in Events /\ p \in Nat
  BY LiveType
<1>2. ASSUME NEW row \in events, row.sequence > after, NEW i, ItemTyped(i)
      PROVE  ItemSQL(i, row, after) <=> ItemMatches(i, log[row.sequence])
  <2> DEFINE p == row.sequence
             e == log[p]
  <2>1. p \in Live /\ row.type = e.type
    BY DEF TablesMirrorLog
  <2>2. \A t \in i.identifiers.values :
            p \in Tagged(identifiers, t, after) <=> t \in Tags(e.identifiers)
    <3> DEFINE F == [r \in Live |-> log[r].identifiers]
    <3>1. identifiers = UNION {TagRows(r, F[r]) : r \in Live}
      BY DEF TablesMirrorLog
    <3>2. \A r \in Live : Tags(F[r]) \subseteq Pairs
      BY <1>1, EventsType DEF IsTagSet
    <3>3. F[p] = e.identifiers
      BY <2>1
    <3> HIDE DEF F
    <3> QED
      BY <1>2, <2>1, <3>1, <3>2, <3>3, TaggedIsTags DEF ItemTyped
  <2>3. \A t \in i.metadata.values :
            p \in Tagged(metadata, t, after) <=> t \in Tags(e.metadata)
    <3> DEFINE F == [r \in Live |-> log[r].metadata]
    <3>1. metadata = UNION {TagRows(r, F[r]) : r \in Live}
      BY DEF TablesMirrorLog
    <3>2. \A r \in Live : Tags(F[r]) \subseteq Pairs
      BY <1>1, EventsType DEF IsTagSet
    <3>3. F[p] = e.metadata
      BY <2>1
    <3> HIDE DEF F
    <3> QED
      BY <1>2, <2>1, <3>1, <3>2, <3>3, TaggedIsTags DEF ItemTyped
  <2> QED
    BY <1>2, <2>1, <2>2, <2>3 DEF ItemSQL, ItemMatches, ItemTyped
<1>3. ASSUME NEW row \in events, row.sequence > after
      PROVE  QuerySQL(q, row, after) <=> Matches(q, log[row.sequence])
  BY <1>2, <1>3, QueriesType DEF QuerySQL, Matches
<1>4. {row.sequence : row \in events} = Live
  BY DEF TablesMirrorLog
<1> QED
  BY <1>3, <1>4 DEF Select

-----------------------------------------------------------------------------
(* Writes *)

LEMMA BatchesType ==
  ASSUME NEW b \in SeqsUpTo(MaxSent, Events)
  PROVE  b \in Seq(Events)
BY SizesAssumption DEF SeqsUpTo

\* What a write does to the log.
LEMMA LogGrows ==
  ASSUME TypeOK, NEW b \in Seq(Events), AppendBatch(b), floor' = floor
  PROVE  /\ LastSequence' = LastSequence + Len(b)
         /\ Len(b) \in Nat /\ LastSequence \in Nat /\ DOMAIN b = 1..Len(b)
         /\ Live' = Live \cup {LastSequence + i : i \in DOMAIN b}
         /\ DOMAIN log' = 1..LastSequence'
         /\ \A p \in 1..LastSequence : log'[p] = log[p]
         /\ \A i \in DOMAIN b : log'[LastSequence + i] = b[i] /\ b[i] \in Events
         /\ \A p \in 1..LastSequence' : log'[p] \in Events
<1>1. /\ LastSequence \in Nat /\ Len(b) \in Nat /\ DOMAIN b = 1..Len(b)
      /\ \A i \in DOMAIN b : b[i] \in Events
  BY DEF TypeOK, LastSequence
<1>2. LastSequence' = LastSequence + Len(b)
  BY <1>1 DEF AppendBatch, LastSequence, TypeOK
<1>3. floor \in 0..LastSequence /\ \A p \in 1..LastSequence : log[p] \in Events
  BY DEF TypeOK
<1>4. Live' = (floor + 1)..(LastSequence + Len(b))
  BY <1>2 DEF Live
<1>5. ASSUME NEW p \in Int
      PROVE  p \in (floor + 1)..(LastSequence + Len(b)) <=>
                 p \in (floor + 1)..LastSequence \/ \E i \in DOMAIN b : p = LastSequence + i
  <2>1. CASE p <= LastSequence
    BY <2>1, <1>1, <1>3
  <2>2. CASE p > LastSequence
    <3>1. p = LastSequence + (p - LastSequence) /\ p - LastSequence \in Nat \ {0}
      BY <2>2, <1>1
    <3>2. p <= LastSequence + Len(b) <=> p - LastSequence \in 1..Len(b)
      BY <2>2, <1>1
    <3>3. \A i \in 1..Len(b) : p = LastSequence + i => i = p - LastSequence
      BY <1>1
    <3>4. p \in (floor + 1)..(LastSequence + Len(b)) <=> p <= LastSequence + Len(b)
      BY <2>2, <1>1, <1>3
    <3>5. p \notin (floor + 1)..LastSequence
      BY <2>2, <1>1, <1>3
    <3> QED
      BY <3>1, <3>2, <3>3, <3>4, <3>5, <1>1
  <2> QED
    BY <2>1, <2>2, <1>1
<1>6. Live' = Live \cup {LastSequence + i : i \in DOMAIN b}
  <2>1. \A i \in DOMAIN b : LastSequence + i \in Int
    BY <1>1
  <2>2. (floor + 1)..(LastSequence + Len(b)) \subseteq Int /\ (floor + 1)..LastSequence \subseteq Int
    OBVIOUS
  <2> QED
    BY <2>1, <2>2, <1>4, <1>5 DEF Live
<1>7. log' = [p \in 1..(LastSequence + Len(b)) |->
                  IF p <= LastSequence THEN log[p] ELSE b[p - LastSequence]]
  BY DEF AppendBatch
<1>8. \A p \in 1..LastSequence : log'[p] = log[p]
  BY <1>1, <1>7
<1>9. ASSUME NEW i \in DOMAIN b PROVE log'[LastSequence + i] = b[i]
  <2>1. PICK p \in 1..(LastSequence + Len(b)) :
            p = LastSequence + i /\ ~(p <= LastSequence) /\ p - LastSequence = i
    BY <1>1
  <2> QED
    BY <2>1, <1>7
<1>10. ASSUME NEW p \in 1..LastSequence' PROVE log'[p] \in Events
  <2>1. CASE p <= LastSequence
    BY <2>1, <1>1, <1>2, <1>3, <1>8
  <2>2. CASE p > LastSequence
    <3>1. p = LastSequence + (p - LastSequence) /\ p - LastSequence \in DOMAIN b
      BY <2>2, <1>1, <1>2
    <3> QED
      BY <3>1, <1>1, <1>9
  <2> QED
    BY <2>1, <2>2, <1>1, <1>2
<1> QED
  BY <1>1, <1>2, <1>6, <1>7, <1>8, <1>9, <1>10

LEMMA AppendKeepsTables ==
  ASSUME TypeOK, TablesMirrorLog, NEW b \in Seq(Events), AppendBatch(b), floor' = floor
  PROVE  TablesMirrorLog'
<1> DEFINE New == {LastSequence + i : i \in DOMAIN b}
           row(i) == EventRow(LastSequence + i, b[i])
<1>1. /\ Live' = Live \cup New
      /\ \A p \in Live : log'[p] = log[p]
      /\ \A i \in DOMAIN b : log'[LastSequence + i] = b[i] /\ b[i] \in Events
  BY LogGrows, LiveType
<1>2. \A i \in DOMAIN b : row(i).sequence = LastSequence + i
  BY DEF EventRow
<1>3. events' = events \cup {row(i) : i \in DOMAIN b}
  BY DEF AppendBatch
<1>4. {r.sequence : r \in events'} = Live'
  BY <1>1, <1>2, <1>3 DEF TablesMirrorLog
<1>5. ASSUME NEW r \in events'
      PROVE  LET e == log'[r.sequence]
             IN  /\ r.type = e.type /\ r.payload = e.payload
                 /\ WellFormed(r.identifiers) /\ Unmarshal(r.identifiers) = e.identifiers
                 /\ WellFormed(r.metadata) /\ Unmarshal(r.metadata) = e.metadata
  <2>1. CASE r \in events
    <3>1. r.sequence \in Live
      BY <2>1 DEF TablesMirrorLog
    <3> QED
      BY <2>1, <3>1, <1>1 DEF TablesMirrorLog
  <2>2. CASE \E i \in DOMAIN b : r = row(i)
    <3>1. PICK i \in DOMAIN b : r = row(i)
      BY <2>2
    <3>2. log'[r.sequence] = b[i] /\ b[i] \in Events
      BY <3>1, <1>1, <1>2
    <3>3. /\ r.type = b[i].type /\ r.payload = b[i].payload
          /\ r.identifiers = MarshalCompact(b[i].identifiers)
          /\ r.metadata = MarshalCompact(b[i].metadata)
      BY <3>1 DEF EventRow
    <3> QED
      BY <3>2, <3>3, EventsType, RoundTrip
  <2> QED
    BY <1>3, <2>1, <2>2
<1>6. identifiers' = UNION {TagRows(p, log'[p].identifiers) : p \in Live'}
  <2>1. UNION {TagRows(p, log'[p].identifiers) : p \in Live'}
          = (UNION {TagRows(p, log'[p].identifiers) : p \in Live})
            \cup (UNION {TagRows(p, log'[p].identifiers) : p \in New})
    BY <1>1
  <2>2. UNION {TagRows(p, log'[p].identifiers) : p \in Live} = identifiers
    BY <1>1 DEF TablesMirrorLog
  <2>3. UNION {TagRows(p, log'[p].identifiers) : p \in New}
          = UNION {TagRows(LastSequence + i, b[i].identifiers) : i \in DOMAIN b}
    BY <1>1
  <2> QED
    BY <2>1, <2>2, <2>3 DEF AppendBatch
<1>7. metadata' = UNION {TagRows(p, log'[p].metadata) : p \in Live'}
  <2>1. UNION {TagRows(p, log'[p].metadata) : p \in Live'}
          = (UNION {TagRows(p, log'[p].metadata) : p \in Live})
            \cup (UNION {TagRows(p, log'[p].metadata) : p \in New})
    BY <1>1
  <2>2. UNION {TagRows(p, log'[p].metadata) : p \in Live} = metadata
    BY <1>1 DEF TablesMirrorLog
  <2>3. UNION {TagRows(p, log'[p].metadata) : p \in New}
          = UNION {TagRows(LastSequence + i, b[i].metadata) : i \in DOMAIN b}
    BY <1>1
  <2> QED
    BY <2>1, <2>2, <2>3 DEF AppendBatch
<1> QED
  BY <1>4, <1>5, <1>6, <1>7 DEF TablesMirrorLog

-----------------------------------------------------------------------------
(* Pages *)

LEMMA SelectType ==
  ASSUME TypeOK, TablesMirrorLog, NEW q \in Queries, NEW after \in Nat
  PROVE  /\ Select(q, after) \in SUBSET Int /\ IsFiniteSet(Select(q, after))
         /\ Select(q, after) \subseteq Live
<1>1. Select(q, after) \subseteq Live
  BY SQLIsMatches
<1> QED
  BY <1>1, LiveType, FS_Subset

\* The lines a client gets are the first ones of all that the query selects.
FirstLines(got, S, b) ==
    /\ got \subseteq S
    /\ \A x \in got : \A y \in Ahead(x, S, b) : y \in got

LEMMA FirstOfIsFirstLines ==
  ASSUME NEW S \in SUBSET Int, IsFiniteSet(S), NEW n \in Int, NEW b \in BOOLEAN,
         NEW T, FirstLines(T, S, b)
  PROVE  FirstLines(FirstOf(n, T, b), S, b)
<1>1. T \in SUBSET Int /\ IsFiniteSet(T)
  BY FS_Subset DEF FirstLines
<1>2. FirstOf(n, T, b) \subseteq T
  BY FirstOfDef
<1>3. ASSUME NEW x \in FirstOf(n, T, b), NEW y \in Ahead(x, S, b)
      PROVE  y \in FirstOf(n, T, b)
  <2>1. y \in T
    BY <1>2, <1>3 DEF FirstLines
  <2>2. y \in Ahead(x, T, b)
    BY <1>3, <2>1 DEF Ahead
  <2> QED
    BY <1>1, <2>2, FirstOfClosed
<1> QED
  BY <1>2, <1>3 DEF FirstLines

\* What a page adds to what a client has.
LEMMA PageHolds ==
  ASSUME IInv, NEW q \in Queries, NEW from \in Nat, NEW after \in Nat, from <= after,
         NEW n \in Nat \ {0}, NEW b \in BOOLEAN, NEW seen,
         after <= LastSequence \/ after = from,
         \A p \in seen : p \in DOMAIN log /\ p > from /\ Matches(q, log[p]),
         IF b THEN seen = {} /\ after = from
              ELSE /\ \A p \in seen : p <= after
                   /\ \A m \in Live : m > from /\ m <= after /\ Matches(q, log[m]) => m \in seen,
         Page(q, from, after, n, b, seen)
  PROVE  IInv'
<1> DEFINE S     == Select(q, after)
           F     == Fetched(q, after, n, b)
           P     == FirstOf(n, F, b)
           match == {p \in Live : p > from /\ Matches(q, log[p])}
<1>1. /\ S \in SUBSET Int /\ IsFiniteSet(S) /\ S \subseteq Live
      /\ S = {p \in Live : p > after /\ Matches(q, log[p])}
  BY SelectType, SQLIsMatches DEF IInv
<1>2. FirstLines(F, S, b) /\ FirstLines(P, S, b) /\ \A k \in 0..n : FirstLines(FirstOf(k, P, b), S, b)
  <2>1. FirstLines(S, S, b)
    BY DEF FirstLines, Ahead
  <2>2. FirstLines(F, S, b)
    BY <1>1, <2>1, FirstOfIsFirstLines DEF Fetched
  <2>3. FirstLines(P, S, b)
    BY <1>1, <2>2, FirstOfIsFirstLines
  <2> QED
    BY <1>1, <2>2, <2>3, FirstOfIsFirstLines
<1>3. PICK got, more, cut, last :
        /\ more \in BOOLEAN /\ cut \in BOOLEAN
        /\ FirstLines(got, S, b)
        /\ IF cut THEN more ELSE got = P /\ (more <=> Cardinality(F) > n)
        /\ last \in got \cup {after} /\ \A p \in got : p <= last
        /\ read' = [kind |-> "page", query |-> q, limit |-> n, backwards |-> b,
                    from |-> from, after |-> last, seen |-> seen \cup got,
                    more |-> more, cut |-> cut, live |-> Live]
  <2>1. CASE \E last \in P \cup {after} :
               /\ \A p \in P : p <= last
               /\ read' = [kind |-> "page", query |-> q, limit |-> n, backwards |-> b,
                           from |-> from, after |-> last, seen |-> seen \cup P,
                           more |-> Cardinality(F) > n, cut |-> FALSE, live |-> Live]
    <3> HIDE DEF F, P
    <3>1. (Cardinality(F) > n) \in BOOLEAN
      OBVIOUS
    <3> QED
      BY <2>1, <3>1, <1>2
  <2>2. CASE \E k \in 0..n : \E last \in FirstOf(k, P, b) \cup {after} :
               /\ \A p \in FirstOf(k, P, b) : p <= last
               /\ read' = [kind |-> "page", query |-> q, limit |-> n, backwards |-> b,
                           from |-> from, after |-> last, seen |-> seen \cup FirstOf(k, P, b),
                           more |-> TRUE, cut |-> TRUE, live |-> Live]
    BY <2>2, <1>2
  <2> QED
    BY <2>1, <2>2 DEF Page
<1>4. UNCHANGED <<tables, pending, history>>
  BY DEF Page
<1>5. /\ Live' = Live /\ LastSequence' = LastSequence /\ log' = log
  BY <1>4 DEF tables, history, Live, LastSequence
<1>6. /\ read'.kind = "page" /\ read'.query = q /\ read'.limit = n /\ read'.backwards = b
      /\ read'.from = from /\ read'.after = last /\ read'.seen = seen \cup got
      /\ read'.more = more /\ read'.cut = cut /\ read'.live = Live
  BY <1>3
<1>7. /\ Live \subseteq 1..LastSequence /\ LastSequence \in Nat /\ DOMAIN log = 1..LastSequence
      /\ Live \subseteq Nat
  BY LiveType DEF IInv, TypeOK
<1>8. TypeOK'
  <2>1. read'.kind \in {"idle", "page", "decision"}
    BY <1>6
  <2>2. read'.query \in Queries /\ read'.live \subseteq 1..LastSequence'
    BY <1>5, <1>6, <1>7
  <2> QED
    BY <2>1, <2>2, <1>4 DEF IInv, TypeOK, tables, history, LastSequence
<1>9. TablesMirrorLog'
  BY <1>4, <1>5 DEF IInv, TablesMirrorLog, tables, history
<1>10. got \subseteq S /\ \A p \in got : p \in Nat /\ p > after /\ p <= LastSequence
  BY <1>1, <1>3, <1>7 DEF FirstLines
<1>11. last \in Nat /\ after <= last /\ (last = after \/ last \in got)
  BY <1>3, <1>10
<1>12. PageKnows'
  <2>1. last <= LastSequence \/ last = from
    BY <1>10, <1>11
  <2>2. b \/ \A p \in seen \cup got : p <= last
    <3>1. ASSUME ~b, NEW p \in seen PROVE p <= last
      <4>1. p \in Nat /\ p <= after
        BY <3>1, <1>7
      <4> QED
        BY <4>1, <1>11
    <3> QED
      BY <3>1, <1>3
  <2>3. from <= last
    BY <1>11
  <2> HIDE DEF S, F, P, match
  <2> QED
    BY <2>1, <2>2, <2>3, <1>5, <1>6, <1>11 DEF PageKnows
<1>13. \A p \in seen \cup got : p \in DOMAIN log /\ p > from /\ Matches(q, log[p])
  BY <1>1, <1>7, <1>10
<1>14. IF b
       THEN \A p \in seen \cup got, m \in match : m > p => m \in seen \cup got
       ELSE \A m \in match : m <= last => m \in seen \cup got
  <2>1. CASE b
    <3>1. seen = {} /\ match = S
      BY <2>1, <1>1
    <3> QED
      BY <2>1, <3>1, <1>3 DEF FirstLines, Ahead
  <2>2. CASE ~b
    <3>1. ASSUME NEW m \in match, m <= last, m > after PROVE m \in got
      <4>1. m \in S /\ m \in Nat
        BY <1>1, <1>7, <3>1
      <4>2. last \in got
        BY <3>1, <4>1, <1>11
      <4>3. m = last \/ m \in Ahead(last, S, b)
        BY <2>2, <3>1, <4>1, <1>11 DEF Ahead
      <4> QED
        BY <4>2, <4>3, <1>3 DEF FirstLines
    <3>2. \A m \in match : m <= after => m \in seen
      BY <2>2
    <3>3. \A m \in match : m <= after \/ m > after
      BY <1>7
    <3> QED
      BY <2>2, <3>1, <3>2, <3>3
  <2> QED
    BY <2>1, <2>2
<1>15. \A m \in match : m \in S \/ m \in seen
  <2>1. CASE b
    BY <2>1, <1>1
  <2>2. CASE ~b
    BY <2>2, <1>1, <1>7
  <2> QED
    BY <2>1, <2>2
<1>16. IsFiniteSet(F) /\ F \in SUBSET Int /\ F \subseteq S /\ Cardinality(F) \in Nat
  BY <1>1, <1>2, FS_Subset, FS_CardinalityType DEF FirstLines
<1>17. ~more => match \subseteq seen \cup got
  <2>1. SUFFICES ASSUME ~more PROVE S \subseteq got
    BY <1>15
  <2>2. ~cut /\ got = P /\ Cardinality(F) <= n
    BY <2>1, <1>3, <1>16
  <2>3. F = S
    BY <2>2, <1>1, <1>16, FirstOfAll DEF Fetched
  <2>4. P = F
    BY <2>2, <1>16, FirstOfEnough
  <2> QED
    BY <2>2, <2>3, <2>4
<1>18. more /\ ~cut => ~(match \subseteq seen \cup got)
  <2>1. SUFFICES ASSUME more, ~cut PROVE \E x \in match : x \notin seen \cup got
    OBVIOUS
  <2>2. got = P /\ Cardinality(F) > n
    BY <2>1, <1>3
  <2>3. PICK x \in F : x \notin P
    BY <2>2, <1>16, FirstOfCuts
  <2>4. x \in match /\ x > after /\ x \in Nat
    BY <1>1, <1>7, <1>16
  <2>5. x \notin seen
    BY <2>4, <1>7
  <2> QED
    BY <2>2, <2>3, <2>4, <2>5
<1>19. PagesMissNothing'
  <2> HIDE DEF S, F, P
  <2> QED
    BY <1>5, <1>6, <1>13, <1>14, <1>17, <1>18 DEF PagesMissNothing
<1>20. DecisionKnows'
  BY <1>6 DEF DecisionKnows
<1> QED
  BY <1>8, <1>9, <1>12, <1>19, <1>20 DEF IInv

-----------------------------------------------------------------------------
(* Reads go on over writes *)

LEMMA ReadSurvivesAppend ==
  ASSUME IInv, NEW b \in Seq(Events), AppendBatch(b), floor' = floor, read' = read
  PROVE  PagesMissNothing' /\ PageKnows' /\ DecisionKnows'
<1>1. /\ LastSequence \in Nat /\ LastSequence' \in Nat /\ LastSequence <= LastSequence'
      /\ DOMAIN log = 1..LastSequence /\ DOMAIN log' = 1..LastSequence'
      /\ \A p \in 1..LastSequence : log'[p] = log[p]
      /\ \A p \in Live' : p \in Live \/ p > LastSequence
      /\ Live \subseteq 1..LastSequence /\ Live' \subseteq Nat
  <2>1. /\ LastSequence' = LastSequence + Len(b)
        /\ Len(b) \in Nat /\ LastSequence \in Nat /\ DOMAIN b = 1..Len(b)
        /\ Live' = Live \cup {LastSequence + i : i \in DOMAIN b}
        /\ DOMAIN log' = 1..LastSequence'
        /\ \A p \in 1..LastSequence : log'[p] = log[p]
    BY LogGrows DEF IInv
  <2>2. \A i \in DOMAIN b : LastSequence + i > LastSequence /\ LastSequence + i \in Nat
    BY <2>1
  <2>3. Live \subseteq 1..LastSequence /\ Live \subseteq Nat /\ DOMAIN log = 1..LastSequence
    BY LiveType DEF IInv, TypeOK
  <2>4. LastSequence' \in Nat /\ LastSequence <= LastSequence'
    BY <2>1
  <2>5. \A p \in Live' : p \in Live \/ (p > LastSequence /\ p \in Nat)
    BY <2>1, <2>2
  <2>6. Live' \subseteq Nat
    BY <2>3, <2>5
  <2> QED
    BY <2>1, <2>3, <2>4, <2>5, <2>6
<1>2. read.kind # "idle" => read.live \subseteq 1..LastSequence
  BY DEF IInv, TypeOK
<1>3. PagesMissNothing'
  <2>1. SUFFICES ASSUME read.kind = "page" PROVE PagesMissNothing'
    BY DEF PagesMissNothing
  <2> DEFINE match == {p \in read.live : p > read.from /\ Matches(read.query, log[p])}
  <2>2. {p \in read'.live : p > read'.from /\ Matches(read'.query, log'[p])} = match
    BY <1>1, <1>2, <2>1
  <2>3. \A p \in read.seen : p \in DOMAIN log' /\ p > read.from /\ Matches(read.query, log'[p])
    <3>1. \A p \in read.seen : p \in DOMAIN log /\ p > read.from /\ Matches(read.query, log[p])
      BY <2>1 DEF IInv, PagesMissNothing
    <3> QED
      BY <3>1, <1>1
  <2> QED
    BY <2>1, <2>2, <2>3 DEF IInv, PagesMissNothing
<1>4. PageKnows'
  BY <1>1 DEF IInv, PageKnows
<1>5. DecisionKnows'
  BY <1>1, <1>2 DEF IInv, DecisionKnows
<1> QED
  BY <1>3, <1>4, <1>5

LEMMA NothingRead ==
  ASSUME read' = Idle
  PROVE  PagesMissNothing' /\ PageKnows' /\ DecisionKnows'
BY DEF Idle, PagesMissNothing, PageKnows, DecisionKnows

LEMMA TypeOKAppend ==
  ASSUME IInv, NEW b \in Seq(Events), AppendBatch(b), floor' = floor, read' = read \/ read' = Idle,
         pending' \in Seq(Events), LastSequence + Len(b) + Len(pending') <= MaxPositions
  PROVE  TypeOK'
<1>1. TablesMirrorLog'
  BY AppendKeepsTables DEF IInv
<1>2. /\ LastSequence' = LastSequence + Len(b)
      /\ Len(b) \in Nat /\ LastSequence \in Nat
      /\ DOMAIN log' = 1..LastSequence'
      /\ \A p \in 1..LastSequence' : log'[p] \in Events
  BY LogGrows DEF IInv
<1>3. /\ nextSeq' \in Nat \ {0} /\ floor' \in 0..LastSequence'
  BY <1>2 DEF AppendBatch, IInv, TypeOK
<1>4. Live' \subseteq 1..LastSequence'
  BY <1>2, <1>3 DEF Live
<1>5. ASSUME NEW p \in Live', NEW s, IsTagSet(s), NEW t \in TagRows(p, s)
      PROVE  t \in [event_sequence : 1..LastSequence', name : Name, value : Value]
  <2>1. PICK u \in Tags(s) : t = [event_sequence |-> p, name |-> u.name, value |-> u.value]
    BY <1>5 DEF TagRows
  <2>2. u \in Pairs
    BY <1>5 DEF IsTagSet
  <2> QED
    BY <2>1, <2>2, <1>4 DEF Pairs
<1>6. \A p \in Live' : IsTagSet(log'[p].identifiers) /\ IsTagSet(log'[p].metadata)
  BY <1>2, <1>4, EventsType
<1>7. \A t \in identifiers' \cup metadata' :
          t \in [event_sequence : 1..LastSequence', name : Name, value : Value]
  <2>1. ASSUME NEW t \in identifiers' \cup metadata'
        PROVE  \E p \in Live' : t \in TagRows(p, log'[p].identifiers) \cup TagRows(p, log'[p].metadata)
    BY <1>1 DEF TablesMirrorLog
  <2> QED
    BY <2>1, <1>5, <1>6
<1>8. /\ read'.kind \in {"idle", "page", "decision"}
      /\ read'.kind # "idle" => read'.query \in Queries /\ read'.live \subseteq 1..LastSequence'
  <2>1. 1..LastSequence \subseteq 1..LastSequence'
    BY <1>2
  <2> QED
    BY <2>1 DEF IInv, TypeOK, Idle
<1> QED
  BY <1>2, <1>3, <1>7, <1>8 DEF TypeOK

LEMMA AppendHolds ==
  ASSUME IInv, NEW b \in Seq(Events), AppendBatch(b), floor' = floor, read' = read \/ read' = Idle,
         pending' \in Seq(Events), LastSequence + Len(b) + Len(pending') <= MaxPositions
  PROVE  IInv'
BY AppendKeepsTables, ReadSurvivesAppend, NothingRead, TypeOKAppend DEF IInv

\* Nothing happens to the events.
LEMMA NoWriteHolds ==
  ASSUME IInv, UNCHANGED <<tables, history>>, read' = read \/ read' = Idle,
         pending' \in Seq(Events), LastSequence + Len(pending') <= MaxPositions
  PROVE  IInv'
<1>1. /\ Live' = Live /\ LastSequence' = LastSequence /\ log' = log
      /\ events' = events /\ identifiers' = identifiers /\ metadata' = metadata
      /\ nextSeq' = nextSeq /\ floor' = floor
  BY DEF tables, history, Live, LastSequence
<1>2. TypeOK'
  BY <1>1 DEF IInv, TypeOK, Idle
<1>3. TablesMirrorLog'
  BY <1>1 DEF IInv, TablesMirrorLog
<1>4. CASE read' = Idle
  BY <1>2, <1>3, <1>4, NothingRead DEF IInv
<1>5. CASE read' = read
  <2>1. PagesMissNothing'
    BY <1>1, <1>5 DEF IInv, PagesMissNothing
  <2>2. PageKnows' /\ DecisionKnows'
    BY <1>1, <1>5 DEF IInv, PageKnows, DecisionKnows
  <2> QED
    BY <1>2, <1>3, <2>1, <2>2 DEF IInv
<1> QED
  BY <1>4, <1>5

LEMMA DeleteHolds ==
  ASSUME IInv, DeleteAllEvents
  PROVE  IInv'
<1>1. /\ LastSequence' = LastSequence /\ log' = log /\ read' = read /\ LastSequence \in Nat
      /\ floor' = LastSequence /\ nextSeq' = nextSeq /\ pending' = pending
      /\ events' = {} /\ identifiers' = {} /\ metadata' = {}
  BY DEF DeleteAllEvents, LastSequence, IInv, TypeOK
<1>2. Live' = {}
  BY <1>1 DEF Live
<1>3. TypeOK'
  BY <1>1 DEF IInv, TypeOK
<1>4. TablesMirrorLog'
  BY <1>1, <1>2 DEF TablesMirrorLog
<1>5. PagesMissNothing'
  BY <1>1 DEF IInv, PagesMissNothing
<1>6. PageKnows' /\ DecisionKnows'
  BY <1>1, <1>2 DEF IInv, PageKnows, DecisionKnows
<1> QED
  BY <1>3, <1>4, <1>5, <1>6 DEF IInv

-----------------------------------------------------------------------------
(* The invariant *)

LEMMA InitHolds == Init => IInv
<1>1. SUFFICES ASSUME Init PROVE IInv
  OBVIOUS
<1>2. LastSequence = 0 /\ floor = 0 /\ Live = {} /\ pending = <<>> /\ log = <<>>
  BY <1>1 DEF Init, LastSequence, Live
<1>3. <<>> \in Seq(Events) /\ Len(pending) = 0
  BY <1>2
<1>4. DOMAIN log = {} /\ 1..LastSequence = {}
  BY <1>2
<1>5. TypeOK
  BY <1>1, <1>2, <1>3, <1>4, SizesAssumption DEF Init, Idle, TypeOK
<1>6. TablesMirrorLog
  BY <1>1, <1>2 DEF Init, TablesMirrorLog
<1> QED
  BY <1>1, <1>5, <1>6 DEF Init, Idle, IInv, PagesMissNothing, PageKnows, DecisionKnows

LEMMA ReadEventsHolds ==
  ASSUME IInv, NEW q \in Queries, NEW limit \in Limits \cup {Nil}, NEW b \in BOOLEAN,
         NEW after \in Afters \cup {Nil, -1}, ReadEvents(q, after, limit, b)
  PROVE  IInv'
<1> DEFINE from == IF after = Nil THEN 0 ELSE after
<1>1. from \in Nat
  BY SizesAssumption DEF ReadEvents
<1>2. PageLimit(limit) \in Nat \ {0}
  <2>1. CASE limit = Nil
    BY <2>1, SizesAssumption DEF PageLimit
  <2>2. CASE limit # Nil /\ limit \in 1..MaxEventsPerPage
    BY <2>2, SizesAssumption DEF PageLimit
  <2>3. CASE limit # Nil /\ limit \notin 1..MaxEventsPerPage
    BY <2>3 DEF PageLimit, ReadEvents
  <2> QED
    BY <2>1, <2>2, <2>3
<1>3. Page(q, from, from, PageLimit(limit), b, {})
  BY DEF ReadEvents
<1>4. \A m \in Live : m > from /\ m <= from => FALSE
  BY <1>1, LiveType DEF IInv
<1> HIDE DEF from
<1> QED
  BY <1>1, <1>2, <1>3, <1>4, PageHolds

LEMMA NextPageHolds ==
  ASSUME IInv, NextPage
  PROVE  IInv'
<1>1. /\ read.kind = "page" /\ ~read.backwards
      /\ Page(read.query, read.from, read.after, read.limit, FALSE, read.seen)
  BY DEF NextPage
<1>2. /\ read.from \in Nat /\ read.after \in Nat /\ read.limit \in Nat \ {0}
      /\ read.from <= read.after
      /\ read.after <= LastSequence \/ read.after = read.from
      /\ \A p \in read.seen : p <= read.after
      /\ \A p \in Live : p > read.from /\ p <= read.after => p \in read.live
  BY <1>1 DEF IInv, PageKnows
<1>3. read.query \in Queries
  BY <1>1 DEF IInv, TypeOK
<1>4. /\ \A p \in read.seen : p \in DOMAIN log /\ p > read.from /\ Matches(read.query, log[p])
      /\ \A m \in read.live : m > read.from /\ Matches(read.query, log[m]) /\ m <= read.after
            => m \in read.seen
  BY <1>1 DEF IInv, PagesMissNothing
<1>5. \A m \in Live : m > read.from /\ m <= read.after /\ Matches(read.query, log[m])
          => m \in read.seen
  BY <1>2, <1>4
<1>6. IF FALSE THEN read.seen = {} /\ read.after = read.from
               ELSE /\ \A p \in read.seen : p <= read.after
                    /\ \A m \in Live : m > read.from /\ m <= read.after
                                          /\ Matches(read.query, log[m]) => m \in read.seen
  BY <1>2, <1>5
<1> QED
  BY <1>1, <1>2, <1>3, <1>4, <1>6, PageHolds

LEMMA ReadTxEventsHolds ==
  ASSUME IInv, NEW q \in Queries, NEW limit, NEW b, ReadTxEvents(q, limit, b)
  PROVE  IInv'
<1>1. LastSequence \in Nat /\ pending \in Seq(Events) /\ LastSequence + Len(pending) <= MaxPositions
  BY LiveType DEF IInv, TypeOK
<1>2. UNCHANGED <<tables, history>>
  BY DEF ReadTxEvents
<1>3. CASE pending' = <<>> /\ read' = read
  <2>1. <<>> \in Seq(Events) /\ Len(<<>>) = 0
    OBVIOUS
  <2>2. Len(pending) \in Nat
    BY <1>1
  <2>3. LastSequence + 0 <= MaxPositions
    BY <1>1, <2>2, SizesAssumption
  <2>4. pending' \in Seq(Events) /\ LastSequence + Len(pending') <= MaxPositions
    BY <1>3, <2>1, <2>3
  <2> QED
    BY <1>2, <1>3, <2>4, NoWriteHolds
<1>4. CASE /\ pending' = pending
           /\ \E position \in 0..LastSequence :
                 /\ IsMaxSequence(position)
                 /\ read' = [kind |-> "decision", query |-> q, position |-> position, live |-> Live]
  <2>1. PICK position \in 0..LastSequence :
               /\ IsMaxSequence(position)
               /\ read' = [kind |-> "decision", query |-> q, position |-> position, live |-> Live]
    BY <1>4
  <2>2. /\ Live' = Live /\ LastSequence' = LastSequence /\ log' = log
        /\ events' = events /\ identifiers' = identifiers /\ metadata' = metadata
        /\ nextSeq' = nextSeq /\ floor' = floor
    BY <1>2 DEF tables, history, Live, LastSequence
  <2>3. /\ read'.kind = "decision" /\ read'.query = q /\ read'.position = position
        /\ read'.live = Live
    BY <2>1
  <2>4. TypeOK'
    BY <1>4, <2>2, <2>3, LiveType DEF IInv, TypeOK
  <2>5. TablesMirrorLog'
    BY <2>2 DEF IInv, TablesMirrorLog
  <2>6. \A p \in Live : p <= position
    BY <2>1 DEF IInv, TablesMirrorLog, IsMaxSequence
  <2>7. DecisionKnows'
    BY <2>2, <2>3, <2>6 DEF DecisionKnows
  <2>8. PagesMissNothing' /\ PageKnows'
    BY <2>3 DEF PagesMissNothing, PageKnows
  <2> QED
    BY <2>4, <2>5, <2>7, <2>8 DEF IInv
<1> QED
  BY <1>3, <1>4 DEF ReadTxEvents

LEMMA NextHolds == IInv /\ [Next]_vars => IInv'
<1>1. SUFFICES ASSUME IInv, [Next]_vars PROVE IInv'
  OBVIOUS
<1>2. /\ pending \in Seq(Events) /\ Len(pending) \in Nat /\ LastSequence \in Nat
      /\ LastSequence + Len(pending) <= MaxPositions /\ MaxPositions \in Nat
  BY <1>1, LiveType, SizesAssumption DEF IInv, TypeOK
<1>3. <<>> \in Seq(Events) /\ Len(<<>>) = 0
  OBVIOUS
<1>4. CASE UNCHANGED vars
  BY <1>1, <1>2, <1>4, NoWriteHolds DEF vars, LastSequence, tables
<1>5. ASSUME NEW b \in Batches, PostEvents(b) PROVE IInv'
  <2>1. b \in Seq(Events) /\ Len(b) \in Nat
    BY <1>5, BatchesType DEF Batches
  <2>2. pending' \in Seq(Events) /\ Len(pending') = Len(pending) + Len(b)
    BY <1>2, <1>5, <2>1 DEF PostEvents
  <2>3. LastSequence + Len(pending') <= MaxPositions
    BY <1>2, <1>5, <2>1, <2>2 DEF PostEvents, Room
  <2> QED
    BY <1>1, <1>5, <2>2, <2>3, NoWriteHolds DEF PostEvents
<1>6. ASSUME NEW b \in Batches, OtherCommit(b) PROVE IInv'
  <2>1. b \in Seq(Events) /\ Len(b) \in Nat
    BY <1>6, BatchesType DEF Batches
  <2>2. LastSequence + Len(b) + Len(pending) <= MaxPositions
    BY <1>2, <1>6, <2>1 DEF OtherCommit, Room
  <2>3. CASE AppendBatch(b)
    BY <1>1, <1>2, <1>6, <2>1, <2>2, <2>3, AppendHolds DEF OtherCommit
  <2>4. CASE AppendFails(b)
    BY <1>1, <1>2, <1>6, <2>4, NoWriteHolds DEF OtherCommit, AppendFails, tables, history
  <2> QED
    BY <1>6, <2>3, <2>4 DEF OtherCommit
<1>7. ASSUME Commit PROVE IInv'
  <2>1. pending' = <<>> /\ read' = Idle /\ floor' = floor
    BY <1>7 DEF Commit, TxOver
  <2>2. pending' \in Seq(Events) /\ Len(pending') = 0
    BY <1>3, <2>1
  <2>3. LastSequence + Len(pending) + Len(pending') <= MaxPositions
        /\ LastSequence + Len(pending') <= MaxPositions
    BY <1>2, <2>2
  <2>4. CASE AppendBatch(pending)
    BY <1>1, <1>2, <2>1, <2>2, <2>3, <2>4, AppendHolds
  <2>5. CASE AppendFails(pending)
    BY <1>1, <2>1, <2>2, <2>3, <2>5, NoWriteHolds DEF AppendFails, tables, history
  <2> QED
    BY <1>7, <2>4, <2>5 DEF Commit
<1>8. ASSUME TxEnds PROVE IInv'
  <2>1. pending' = <<>> /\ read' = Idle /\ UNCHANGED <<tables, history>>
    BY <1>8 DEF TxEnds, TxOver
  <2>2. pending' \in Seq(Events) /\ Len(pending') = 0
    BY <1>3, <2>1
  <2>3. LastSequence + Len(pending') <= MaxPositions
    BY <1>2, <2>2
  <2> QED
    BY <1>1, <2>1, <2>2, <2>3, NoWriteHolds
<1>9. ASSUME Leave PROVE IInv'
  BY <1>1, <1>2, <1>9, NoWriteHolds DEF Leave
<1>10. CASE Next
  BY <1>1, <1>5, <1>6, <1>7, <1>8, <1>9, <1>10, DeleteHolds, ReadEventsHolds, NextPageHolds,
     ReadTxEventsHolds DEF Next
<1> QED
  BY <1>1, <1>4, <1>10

-----------------------------------------------------------------------------
(* The log with the events of a transaction after it *)

After(n, I) == {n + i : i \in I}

Forwards(b)  == ~b
Backwards(b) == b

LEMMA FirstOfNone ==
  ASSUME NEW S, IsFiniteSet(S), NEW n \in Int, n <= 0, NEW b \in BOOLEAN
  PROVE  FirstOf(n, S, b) = {}
<1>1. ASSUME NEW x \in S PROVE Cardinality(Ahead(x, S, b)) \in Nat
  <2>1. IsFiniteSet(Ahead(x, S, b))
    BY FS_Subset DEF Ahead
  <2> QED
    BY <2>1, FS_CardinalityType
<1> QED
  BY <1>1, FirstOfDef

LEMMA FirstOfAtMost ==
  ASSUME NEW S \in SUBSET Int, IsFiniteSet(S), NEW n \in Nat, NEW b \in BOOLEAN
  PROVE  /\ IsFiniteSet(FirstOf(n, S, b))
         /\ Cardinality(FirstOf(n, S, b)) \in Nat
         /\ Cardinality(FirstOf(n, S, b)) <= n
<1> DEFINE F == FirstOf(n, S, b)
<1>1. F \subseteq S
  BY FirstOfDef
<1>2. IsFiniteSet(F) /\ F \in SUBSET Int
  BY <1>1, FS_Subset
<1>3. Cardinality(F) \in Nat
  BY <1>2, FS_CardinalityType
<1>4. ASSUME NEW x \in F PROVE x \in FirstOf(n, F, b)
  <2>1. Cardinality(Ahead(x, S, b)) < n
    BY FirstOfDef
  <2>2. IsFiniteSet(Ahead(x, S, b))
    BY FS_Subset DEF Ahead
  <2>3. Ahead(x, F, b) \subseteq Ahead(x, S, b)
    BY <1>1 DEF Ahead
  <2>4. IsFiniteSet(Ahead(x, F, b)) /\ Cardinality(Ahead(x, F, b)) <= Cardinality(Ahead(x, S, b))
    BY <2>2, <2>3, FS_Subset
  <2>5. Cardinality(Ahead(x, F, b)) \in Nat /\ Cardinality(Ahead(x, S, b)) \in Nat
    BY <2>2, <2>4, FS_CardinalityType
  <2>6. Cardinality(Ahead(x, F, b)) < n
    BY <2>1, <2>4, <2>5
  <2> QED
    BY <2>6, FirstOfDef
<1> HIDE DEF F
<1>5. ~(Cardinality(F) > n)
  BY <1>2, <1>4, FirstOfCuts
<1> QED
  BY <1>2, <1>3, <1>5 DEF F

\* The first of the first n are the first.
LEMMA FirstOfFirst ==
  ASSUME NEW S \in SUBSET Int, IsFiniteSet(S), NEW n \in Int, NEW m \in Int, m <= n, NEW b \in BOOLEAN
  PROVE  FirstOf(m, FirstOf(n, S, b), b) = FirstOf(m, S, b)
<1> DEFINE F == FirstOf(n, S, b)
<1>1. F \subseteq S
  BY FirstOfDef
<1>2. ASSUME NEW x \in F PROVE Ahead(x, F, b) = Ahead(x, S, b)
  <2>1. \A y \in Ahead(x, S, b) : y \in F
    BY FirstOfClosed
  <2> QED
    BY <1>1, <2>1 DEF Ahead
<1>3. ASSUME NEW x \in S, Cardinality(Ahead(x, S, b)) < m PROVE x \in F
  <2>1. IsFiniteSet(Ahead(x, S, b))
    BY FS_Subset DEF Ahead
  <2>2. Cardinality(Ahead(x, S, b)) \in Nat
    BY <2>1, FS_CardinalityType
  <2>3. Cardinality(Ahead(x, S, b)) < n
    BY <1>3, <2>2
  <2> QED
    BY <2>3, FirstOfDef
<1>4. FirstOf(m, F, b) = {x \in F : Cardinality(Ahead(x, F, b)) < m}
  BY FirstOfDef
<1>5. FirstOf(m, S, b) = {x \in S : Cardinality(Ahead(x, S, b)) < m}
  BY FirstOfDef
<1> QED
  BY <1>1, <1>2, <1>3, <1>4, <1>5

LEMMA AfterCounts ==
  ASSUME NEW n \in Int, NEW I \in SUBSET Int, IsFiniteSet(I)
  PROVE  IsFiniteSet(After(n, I)) /\ Cardinality(After(n, I)) = Cardinality(I)
<1> DEFINE f == [i \in I |-> n + i]
<1>1. f \in [I -> After(n, I)] /\ \A x \in After(n, I) : \E i \in I : f[i] = x
  BY DEF After
<1>2. \A i, j \in I : f[i] = f[j] => i = j
  OBVIOUS
<1>3. f \in Bijection(I, After(n, I))
  BY <1>1, <1>2 DEF Bijection, Injection, Surjection, IsInjective
<1> QED
  BY <1>3, FS_Bijection DEF ExistsBijection

\* A limit on a log A followed by the events I of a transaction.
LEMMA LimitForwards ==
  ASSUME NEW n \in Nat, NEW A \in SUBSET Int, IsFiniteSet(A), \A a \in A : a <= n,
         NEW I \in SUBSET Int, IsFiniteSet(I), \A i \in I : i > 0, NEW l \in Nat,
         NEW f \in BOOLEAN, Forwards(f)
  PROVE  FirstOf(l, A \cup After(n, I), f)
             = FirstOf(l, A, f) \cup After(n, FirstOf(l - Cardinality(A), I, f))
<1> USE DEF Forwards
<1> DEFINE V == A \cup After(n, I)
<1>1. /\ \A i \in I : n + i \in Int /\ n + i > n
      /\ \A a \in A : a \in Int /\ a <= n
      /\ A \cap After(n, I) = {}
  BY DEF After
<1>2. Cardinality(A) \in Nat
  BY FS_CardinalityType
<1>3. ASSUME NEW a \in A
      PROVE  Ahead(a, V, f) = Ahead(a, A, f)
  BY <1>1 DEF Ahead, After
<1>4. ASSUME NEW i \in I
      PROVE  Cardinality(Ahead(n + i, V, f)) < l
               <=> Cardinality(Ahead(i, I, f)) < l - Cardinality(A)
  <2>1. IsFiniteSet(Ahead(i, I, f)) /\ Ahead(i, I, f) \in SUBSET Int
    <3>1. Ahead(i, I, f) \subseteq I
      BY DEF Ahead
    <3> QED
      BY <3>1, FS_Subset
  <2>2. /\ IsFiniteSet(After(n, Ahead(i, I, f)))
        /\ Cardinality(After(n, Ahead(i, I, f))) = Cardinality(Ahead(i, I, f))
    BY <2>1, AfterCounts
  <2>3. Ahead(n + i, V, f) = A \cup After(n, Ahead(i, I, f))
    <3>1. \A j \in I : n + j < n + i <=> j < i
      OBVIOUS
    <3>2. \A a \in A : a < n + i
      BY <1>1
    <3> QED
      BY <3>1, <3>2 DEF Ahead, After
  <2> HIDE DEF V
  <2>4. A \cap After(n, Ahead(i, I, f)) = {}
    BY <1>1 DEF Ahead, After
  <2> DEFINE x == Cardinality(Ahead(n + i, V, f))
             y == Cardinality(Ahead(i, I, f))
             z == Cardinality(A)
             e == Cardinality({})
  <2>5. x = z + Cardinality(After(n, Ahead(i, I, f))) - e
    BY <2>2, <2>3, <2>4, FS_Union
  <2>6. x = z + y - e /\ y \in Nat /\ z \in Nat /\ e = 0
    BY <1>2, <2>1, <2>2, <2>5, FS_CardinalityType, FS_EmptySet
  <2> HIDE DEF x, y, z, e
  <2>7. x < l <=> y < l - z
    BY <2>6
  <2> QED
    BY <2>7 DEF x, y, z
<1>5. FirstOf(l, V, f) = {a \in A : Cardinality(Ahead(a, V, f)) < l}
                         \cup After(n, {i \in I : Cardinality(Ahead(n + i, V, f)) < l})
  BY FirstOfDef DEF After
<1>6. {a \in A : Cardinality(Ahead(a, V, f)) < l} = FirstOf(l, A, f)
  BY <1>3, FirstOfDef
<1>7. {i \in I : Cardinality(Ahead(n + i, V, f)) < l} = FirstOf(l - Cardinality(A), I, f)
  BY <1>4, FirstOfDef
<1> QED
  BY <1>5, <1>6, <1>7

LEMMA LimitBackwards ==
  ASSUME NEW n \in Nat, NEW A \in SUBSET Int, IsFiniteSet(A), \A a \in A : a <= n,
         NEW I \in SUBSET Int, IsFiniteSet(I), \A i \in I : i > 0, NEW l \in Nat,
         NEW r \in BOOLEAN, Backwards(r)
  PROVE  FirstOf(l, A \cup After(n, I), r)
             = FirstOf(l - Cardinality(I), A, r) \cup After(n, FirstOf(l, I, r))
<1> USE DEF Backwards
<1> DEFINE V == A \cup After(n, I)
<1>1. /\ \A i \in I : n + i \in Int /\ n + i > n
      /\ \A a \in A : a \in Int /\ a <= n
      /\ A \cap After(n, I) = {}
  BY DEF After
<1>2. Cardinality(I) \in Nat
  BY FS_CardinalityType
<1>3. ASSUME NEW i \in I
      PROVE  Cardinality(Ahead(n + i, V, r)) = Cardinality(Ahead(i, I, r))
  <2>1. IsFiniteSet(Ahead(i, I, r)) /\ Ahead(i, I, r) \in SUBSET Int
    <3>1. Ahead(i, I, r) \subseteq I
      BY DEF Ahead
    <3> QED
      BY <3>1, FS_Subset
  <2>2. Cardinality(After(n, Ahead(i, I, r))) = Cardinality(Ahead(i, I, r))
    <3>1. \A J \in SUBSET Int : IsFiniteSet(J) => Cardinality(After(n, J)) = Cardinality(J)
      BY AfterCounts
    <3> QED
      BY <2>1, <3>1
  <2>3. Ahead(n + i, V, r) = After(n, Ahead(i, I, r))
    <3>1. \A j \in I : n + j > n + i <=> j > i
      OBVIOUS
    <3>2. \A a \in A : ~(a > n + i)
      BY <1>1
    <3>3. Ahead(n + i, V, r) = {y \in V : y > n + i} /\ Ahead(i, I, r) = {j \in I : j > i}
      BY DEF Ahead
    <3>4. ASSUME NEW y \in V, y > n + i
          PROVE  \E j \in I : j > i /\ y = n + j
      <4>1. PICK j \in I : y = n + j
        BY <3>2, <3>4 DEF After
      <4> QED
        BY <3>1, <3>4, <4>1
    <3>5. ASSUME NEW j \in I, j > i
          PROVE  n + j \in V /\ n + j > n + i
      BY <3>1, <3>5 DEF After
    <3> HIDE DEF V
    <3> QED
      BY <3>3, <3>4, <3>5 DEF After
  <2> QED
    BY <2>2, <2>3
<1>4. ASSUME NEW a \in A
      PROVE  Cardinality(Ahead(a, V, r)) < l
               <=> Cardinality(Ahead(a, A, r)) < l - Cardinality(I)
  <2>1. Ahead(a, V, r) = Ahead(a, A, r) \cup After(n, I)
    BY <1>1 DEF Ahead, After
  <2> HIDE DEF V
  <2>2. IsFiniteSet(Ahead(a, A, r)) /\ Ahead(a, A, r) \cap After(n, I) = {}
    BY <1>1, FS_Subset DEF Ahead
  <2>3. IsFiniteSet(After(n, I)) /\ Cardinality(After(n, I)) = Cardinality(I)
    BY AfterCounts
  <2> DEFINE B == Ahead(a, A, r)
             C == After(n, I)
             x == Cardinality(Ahead(a, V, r))
             y == Cardinality(B)
             z == Cardinality(I)
             e == Cardinality({})
  <2>4. IsFiniteSet(B) /\ IsFiniteSet(C) /\ B \cap C = {} /\ Ahead(a, V, r) = B \cup C
    BY <2>1, <2>2, <2>3
  <2> HIDE DEF B, C
  <2>5. Cardinality(B \cup C) = Cardinality(B) + Cardinality(C) - Cardinality(B \cap C)
    BY <2>4, FS_Union
  <2>6. Cardinality(C) = z
    BY <2>3 DEF C
  <2>7. x = y + z - e /\ y \in Nat /\ z \in Nat /\ e = 0
    BY <1>2, <2>4, <2>5, <2>6, FS_CardinalityType, FS_EmptySet
  <2> HIDE DEF x, y, z, e
  <2>8. x < l <=> y < l - z
    BY <2>7
  <2> QED
    BY <2>8 DEF x, y, z, B
<1>5. FirstOf(l, V, r) = {a \in A : Cardinality(Ahead(a, V, r)) < l}
                         \cup After(n, {i \in I : Cardinality(Ahead(n + i, V, r)) < l})
  BY FirstOfDef DEF After
<1>6. {a \in A : Cardinality(Ahead(a, V, r)) < l} = FirstOf(l - Cardinality(I), A, r)
  BY <1>4, FirstOfDef
<1>7. {i \in I : Cardinality(Ahead(n + i, V, r)) < l} = FirstOf(l, I, r)
  BY <1>3, FirstOfDef
<1> QED
  BY <1>5, <1>6, <1>7

\* Forwards: first the log, then what the limit leaves of the transaction's.
LEMMA SplitForwards ==
  ASSUME NEW n \in Nat, NEW A \in SUBSET Int, IsFiniteSet(A), \A a \in A : a <= n,
         NEW I \in SUBSET Int, IsFiniteSet(I), \A i \in I : i > 0, NEW l \in Nat,
         NEW f \in BOOLEAN, Forwards(f)
  PROVE  LET first == FirstOf(l, FirstOf(l, A, f), f)
         IN  FirstOf(l, A \cup After(n, I), f)
                 = first \cup After(n, FirstOf(l - Cardinality(first), I, f))
<1> DEFINE C == FirstOf(l, A, f)
<1>1. FirstOf(l, C, f) = C
  BY FirstOfFirst
<1>2. IsFiniteSet(C) /\ Cardinality(C) \in Nat /\ Cardinality(C) <= l /\ C \subseteq A
  BY FirstOfAtMost, FirstOfDef
<1>3. Cardinality(A) \in Nat /\ Cardinality(C) <= Cardinality(A)
  BY <1>2, FS_CardinalityType, FS_Subset
<1>4. FirstOf(l, A \cup After(n, I), f) = C \cup After(n, FirstOf(l - Cardinality(A), I, f))
  BY LimitForwards
<1>5. FirstOf(l - Cardinality(C), I, f) = FirstOf(l - Cardinality(A), I, f)
  <2>1. CASE Cardinality(C) < l
    BY <2>1, FirstOfAll
  <2>2. CASE ~(Cardinality(C) < l)
    <3>1. /\ l - Cardinality(C) \in Int /\ l - Cardinality(C) <= 0
          /\ l - Cardinality(A) \in Int /\ l - Cardinality(A) <= 0
      <4> HIDE DEF C
      <4> QED
        BY <1>2, <1>3, <2>2
    <3> QED
      BY <3>1, FirstOfNone
  <2> QED
    BY <2>1, <2>2
<1> QED
  BY <1>1, <1>4, <1>5

\* Backwards: first the transaction's, then what the limit leaves of the log.
LEMMA SplitBackwards ==
  ASSUME NEW n \in Nat, NEW A \in SUBSET Int, IsFiniteSet(A), \A a \in A : a <= n,
         NEW I \in SUBSET Int, IsFiniteSet(I), \A i \in I : i > 0, NEW l \in Nat,
         NEW r \in BOOLEAN, Backwards(r), NEW C, C = FirstOf(l, A, r)
  PROVE  LET first == FirstOf(l, I, r)
         IN  FirstOf(l, A \cup After(n, I), r)
                 = FirstOf(l - Cardinality(first), C, r) \cup After(n, first)
<1> DEFINE F == FirstOf(l, I, r)
<1>1. IsFiniteSet(F) /\ Cardinality(F) \in Nat /\ Cardinality(F) <= l /\ F \subseteq I
  BY FirstOfAtMost, FirstOfDef
<1>2. Cardinality(I) \in Nat /\ Cardinality(F) <= Cardinality(I)
  BY <1>1, FS_CardinalityType, FS_Subset
<1>3. FirstOf(l, A \cup After(n, I), r) = FirstOf(l - Cardinality(I), A, r) \cup After(n, F)
  BY LimitBackwards
<1>4. l - Cardinality(F) \in Int /\ l - Cardinality(F) <= l
  <2> HIDE DEF F
  <2> QED
    BY <1>1
<1>5. FirstOf(l - Cardinality(F), FirstOf(l, A, r), r) = FirstOf(l - Cardinality(F), A, r)
  BY <1>4, FirstOfFirst
<1>6. FirstOf(l - Cardinality(F), A, r) = FirstOf(l - Cardinality(I), A, r)
  <2>1. CASE Cardinality(F) < l
    BY <2>1, FirstOfAll
  <2>2. CASE ~(Cardinality(F) < l)
    <3>1. /\ l - Cardinality(F) \in Int /\ l - Cardinality(F) <= 0
          /\ l - Cardinality(I) \in Int /\ l - Cardinality(I) <= 0
      <4> HIDE DEF F
      <4> QED
        BY <1>1, <1>2, <2>2
    <3> QED
      BY <3>1, FirstOfNone
  <2> QED
    BY <2>1, <2>2
<1> QED
  BY <1>3, <1>5, <1>6

LEMMA PendingType ==
  ASSUME TypeOK, NEW q
  PROVE  /\ Pending(q) \in SUBSET Int /\ IsFiniteSet(Pending(q))
         /\ \A i \in Pending(q) : i > 0
<1>1. Len(pending) \in Nat /\ DOMAIN pending = 1..Len(pending)
  BY DEF TypeOK
<1>2. Pending(q) \subseteq 1..Len(pending)
  BY <1>1 DEF Pending
<1>3. IsFiniteSet(1..Len(pending))
  BY <1>1, FS_Interval
<1> QED
  BY <1>1, <1>2, <1>3, FS_Subset

LEMMA OwnReads == IInv => ReadsOwnWrites
<1> SUFFICES ASSUME IInv, NEW q \in Queries, NEW limit \in {Nil} \cup {k \in Limits : k > 0},
                    NEW b \in BOOLEAN, ReadCount(q, limit, b) <= MaxEventsPerTxRead
             PROVE  LET own(I) == {LastSequence + i : i \in I}
                        view   == {p \in Live : Matches(q, log[p])} \cup own(Pending(q))
                        sent   == Sent(q, limit, b)
                    IN  sent.committed \cup own(sent.pending) = Take(limit, view, b)
  BY DEF ReadsOwnWrites
<1> DEFINE L == LastSequence
           A == {p \in Live : Matches(q, log[p])}
           I == Pending(q)
           C == Committed(q, limit, b)
           V == A \cup After(L, I)
           m == Smaller(limit, MaxEventsPerTxRead + 1)
           n == ReadCount(q, limit, b)
<1>1. /\ L \in Nat /\ A \in SUBSET Int /\ IsFiniteSet(A)
      /\ \A a \in A : a <= L /\ a > 0
  <2>1. Live \subseteq 1..L /\ L \in Nat /\ IsFiniteSet(Live)
    BY LiveType DEF IInv
  <2>2. A \subseteq Live
    OBVIOUS
  <2> HIDE DEF A, L
  <2>3. IsFiniteSet(A)
    BY <2>1, <2>2, FS_Subset
  <2>4. \A a \in A : a \in 1..L
    BY <2>1, <2>2
  <2> QED
    BY <2>1, <2>3, <2>4
<1>2. I \in SUBSET Int /\ IsFiniteSet(I) /\ \A i \in I : i > 0
  BY PendingType DEF IInv
<1>3. m \in Nat /\ MaxEventsPerTxRead \in Nat /\ (limit # Nil => limit \in Nat \ {0})
  <2>1. MaxEventsPerTxRead \in Nat /\ Limits \subseteq Int
    BY SizesAssumption
  <2>2. limit # Nil => limit \in Nat \ {0}
    <3>1. ASSUME NEW k \in Int, k > 0 PROVE k \in Nat \ {0}
      BY <3>1
    <3>2. limit # Nil => limit \in Int /\ limit > 0
      BY <2>1
    <3> QED
      BY <3>1, <3>2
  <2> QED
    BY <2>1, <2>2 DEF Smaller
<1>4. C = FirstOf(m, A, b)
  <2>1. m # Nil
    BY <1>3, SizesAssumption
  <2>2. CASE q.form = "none"
    <3>1. A = {}
      BY <2>2 DEF Matches
    <3>2. FirstOf(m, A, b) = {}
      BY <3>1 DEF FirstOf
    <3> QED
      BY <2>2, <3>2 DEF Committed, ReadDecision
  <2>3. CASE q.form # "none"
    <3>1. Select(q, 0) = {p \in Live : p > 0 /\ Matches(q, log[p])}
      BY SQLIsMatches DEF IInv
    <3>2. Select(q, 0) = A
      BY <1>1, <3>1
    <3> HIDE DEF A
    <3> QED
      BY <2>1, <2>3, <3>2 DEF Committed, ReadDecision, Take
  <2> QED
    BY <2>2, <2>3
<1>5. IsFiniteSet(C) /\ Cardinality(C) \in Nat /\ C \subseteq A
  BY <1>1, <1>3, <1>4, FirstOfAtMost, FirstOfDef
<1>6. Cardinality(I) \in Nat /\ Cardinality(A) \in Nat
  BY <1>1, <1>2, FS_CardinalityType
<1> HIDE DEF A, C, I, m
<1>7. n = Smaller(limit, Cardinality(C) + Cardinality(I)) /\ n <= MaxEventsPerTxRead
  BY DEF ReadCount, C, I
<1> HIDE DEF n
<1>8. n \in Nat
  BY <1>3, <1>5, <1>6, <1>7 DEF Smaller
<1>9. C = FirstOf(n, A, b) /\ FirstOf(n, V, b) = Take(limit, V, b)
  <2>1. CASE limit # Nil /\ limit <= Cardinality(C) + Cardinality(I)
    <3>1. n = limit
      BY <1>3, <1>5, <1>6, <1>7, <2>1 DEF Smaller
    <3>2. m = limit
      BY <1>3, <1>7, <2>1, <3>1 DEF Smaller, m
    <3> QED
      BY <1>4, <2>1, <3>1, <3>2 DEF Take
  <2>2. CASE ~(limit # Nil /\ limit <= Cardinality(C) + Cardinality(I))
    <3> DEFINE c == Cardinality(C)
               i == Cardinality(I)
    <3>1. n = c + i
      BY <1>3, <1>5, <1>6, <1>7, <2>2 DEF Smaller
    <3>2. c < m
      <4>1. c \in Nat /\ i \in Nat
        BY <1>5, <1>6
      <4> HIDE DEF c, i
      <4>2. c < MaxEventsPerTxRead + 1
        BY <1>3, <1>7, <3>1, <4>1
      <4>3. limit # Nil => c < limit
        BY <1>3, <2>2, <4>1 DEF c, i
      <4> QED
        BY <4>2, <4>3 DEF Smaller, m
    <3>3. C = A
      BY <1>1, <1>3, <1>4, <3>2, FirstOfAll
    <3>4. IsFiniteSet(V) /\ Cardinality(V) = c + i /\ V \in SUBSET Int
      <4> DEFINE B == After(L, I)
      <4>1. IsFiniteSet(B) /\ Cardinality(B) = i
        BY <1>1, <1>2, AfterCounts
      <4>2. A \cap B = {} /\ B \in SUBSET Int
        BY <1>1, <1>2 DEF After
      <4> HIDE DEF B
      <4>3. IsFiniteSet(A \cup B) /\ Cardinality(A \cup B) = Cardinality(A) + Cardinality(B) - Cardinality(A \cap B)
        BY <1>1, <4>1, FS_Union
      <4>4. Cardinality(A \cap B) = 0
        BY <4>2, FS_EmptySet
      <4>5. Cardinality(A \cup B) = c + i
        BY <1>6, <3>3, <4>1, <4>3, <4>4
      <4> QED
        BY <1>1, <4>2, <4>3, <4>5 DEF B
    <3>5. Cardinality(A) <= n /\ Cardinality(V) <= n /\ (limit # Nil => Cardinality(V) <= limit)
      <4>1. c \in Nat /\ i \in Nat
        BY <1>5, <1>6
      <4> QED
        BY <1>3, <2>2, <3>1, <3>3, <3>4, <4>1
    <3> HIDE DEF V
    <3>6. FirstOf(n, A, b) = A /\ FirstOf(n, V, b) = V
      BY <1>1, <1>8, <3>4, <3>5, FirstOfEnough
    <3>7. limit # Nil => FirstOf(limit, V, b) = V
      BY <1>3, <3>4, <3>5, FirstOfEnough
    <3> QED
      BY <3>3, <3>6, <3>7 DEF Take
  <2> QED
    BY <2>1, <2>2
<1>10. Sent(q, limit, b).committed \cup After(L, Sent(q, limit, b).pending) = FirstOf(n, V, b)
  <2>1. CASE Forwards(b)
    <3> DEFINE first == FirstOf(n, C, b)
    <3>1. b = FALSE
      BY <2>1 DEF Forwards
    <3>2. Sent(q, limit, b) = [committed |-> first,
                               pending   |-> FirstOf(n - Cardinality(first), I, b)]
      BY <3>1 DEF Sent, n, C, I
    <3>3. FirstOf(n, V, b) = first \cup After(L, FirstOf(n - Cardinality(first), I, b))
      BY <1>1, <1>2, <1>8, <1>9, <2>1, SplitForwards
    <3> QED
      BY <3>2, <3>3
  <2>2. CASE Backwards(b)
    <3> DEFINE first == FirstOf(n, I, b)
    <3>1. b = TRUE
      BY <2>2 DEF Backwards
    <3>2. Sent(q, limit, b) = [committed |-> FirstOf(n - Cardinality(first), C, b),
                               pending   |-> first]
      BY <3>1 DEF Sent, n, C, I
    <3>3. FirstOf(n, V, b) = FirstOf(n - Cardinality(first), C, b) \cup After(L, first)
      <4>1. L \in Nat /\ A \in SUBSET Int /\ IsFiniteSet(A) /\ \A a \in A : a <= L
        BY <1>1
      <4> HIDE DEF L
      <4>2. FirstOf(n, A \cup After(L, I), b)
                = FirstOf(n - Cardinality(FirstOf(n, I, b)), C, b) \cup After(L, FirstOf(n, I, b))
        BY <1>2, <1>8, <1>9, <2>2, <4>1, SplitBackwards
      <4> QED
        BY <4>2
    <3> QED
      BY <3>2, <3>3
  <2> QED
    BY <2>1, <2>2 DEF Forwards, Backwards
<1> QED
  BY <1>9, <1>10 DEF After, A, I

-----------------------------------------------------------------------------
(* The theorems *)

\* IInv is an invariant of Spec.
THEOREM Invariance == Spec => []IInv
BY InitHolds, NextHolds, PTL DEF Spec

\* The counter, the log and the tag tables stay within their types.
THEOREM TypeCorrect == Spec => []TypeOK
<1>1. IInv => TypeOK
  BY DEF IInv
<1> QED
  BY <1>1, Invariance, PTL

(***************************************************************************)
(* The three tables of SQLite hold the events written and not deleted.     *)
(***************************************************************************)
THEOREM TablesHoldTheLog == Spec => []TablesMirrorLog
<1>1. IInv => TablesMirrorLog
  BY DEF IInv
<1> QED
  BY <1>1, Invariance, PTL

(***************************************************************************)
(* A client of pages misses no event and gets no other one.                *)
(***************************************************************************)
THEOREM PagesAreComplete == Spec => []PagesMissNothing
<1>1. IInv => PagesMissNothing
  BY DEF IInv
<1> QED
  BY <1>1, Invariance, PTL

(***************************************************************************)
(* The check of a decision at commit finds exactly what Matches does.      *)
(***************************************************************************)
THEOREM ChecksAreExact == Spec => []ConditionsAgree
<1>1. ASSUME IInv PROVE ConditionsAgree
  <2>1. SUFFICES ASSUME read.kind = "decision"
        PROVE CheckCondition(read.query, read.position) <=>
                  \A p \in Live \ read.live : ~Matches(read.query, log[p])
    BY DEF ConditionsAgree
  <2>2. /\ read.query \in Queries /\ read.position \in Nat /\ LastSequence \in Nat
        /\ \A p \in Live : p \in Nat /\ p <= LastSequence
        /\ \A p \in Live : p \in read.live <=> p <= read.position
    BY <1>1, <2>1, LiveType DEF IInv, TypeOK, DecisionKnows
  <2>3. Select(read.query, read.position) = {p \in Live \ read.live : Matches(read.query, log[p])}
    BY <1>1, <2>2, SQLIsMatches DEF IInv
  <2>4. LastSequence = read.position => Live \ read.live = {}
    BY <2>2
  <2>5. read.query.form = "none" => \A p \in Live : ~Matches(read.query, log[p])
    BY DEF Matches
  <2> QED
    BY <2>3, <2>4, <2>5 DEF CheckCondition, FailIfEventsMatch
<1> QED
  BY <1>1, Invariance, PTL

(***************************************************************************)
(* A read in a transaction sends the log as it would be after the commit,  *)
(* cut by the limit (readTxEvents, writeTxEvents).                         *)
(***************************************************************************)
THEOREM OwnEventsAreRead == Spec => []ReadsOwnWrites
BY Invariance, OwnReads, PTL

-----------------------------------------------------------------------------

\* The two ways to answer a query, on any state of the tables.
SQLAgrees ==
    \A q \in Queries, after \in Nat :
        Select(q, after) = {p \in Live : p > after /\ Matches(q, log[p])}

(***************************************************************************)
(* query.go: Matches "follows the same rules as the SQL internal/store     *)
(* runs".  After any writes and deletes, and whatever the limits, every    *)
(* query that validation lets through selects from the tables what Matches *)
(* finds among the events as they came.                                    *)
(***************************************************************************)
THEOREM TwoAnswersAgree == Spec => []SQLAgrees
<1>1. IInv => SQLAgrees
  BY SQLIsMatches DEF IInv, SQLAgrees
<1> QED
  BY <1>1, Invariance, PTL

\* No item before this one has its key: dedupeQueryItems keeps it.
IsFirst(s, k) == \A j \in 1..(k - 1) : Key(s[j]) # Key(s[k])

\* Of the items with one key, one comes first.
LEMMA FirstOfKey ==
  ASSUME NEW n \in Nat, NEW s, NEW i \in 1..n
  PROVE  \E k \in 1..n : Key(s[k]) = Key(s[i]) /\ IsFirst(s, k)
<1> DEFINE S == {k \in 1..n : Key(s[k]) = Key(s[i])}
           U == {1..k : k \in S}
<1>1. U # {} /\ U \subseteq SUBSET (1..n)
  <2>1. i \in S
    OBVIOUS
  <2>2. \A k \in S : 1..k \subseteq 1..n
    OBVIOUS
  <2> QED
    BY <2>1, <2>2
<1>2. IsFiniteSet(1..n)
  BY FS_Interval
<1>3. U \subseteq FiniteSubsetsOf(1..n)
  BY <1>1, <1>2, FS_FiniteSubsetsOfFinite
<1>4. PICK A \in U : \A B \in U : ~(<<B, A>> \in StrictSubsetOrdering(1..n))
  <2> HIDE DEF U
  <2> QED
    BY <1>1, <1>3, FS_StrictSubsetOrderingWellFounded, WFMin
<1>5. PICK k \in S : A = 1..k
  OBVIOUS
<1>6. ASSUME NEW j \in 1..(k - 1), Key(s[j]) = Key(s[k]) PROVE FALSE
  <2>1. j \in S /\ 1..j \in U
    BY <1>6
  <2>2. k \in 1..k /\ k \notin 1..j /\ 1..j \subseteq 1..k /\ 1..j \in SUBSET (1..n) /\ 1..k \in SUBSET (1..n)
    OBVIOUS
  <2>3. <<1..j, 1..k>> \in StrictSubsetOrdering(1..n)
    BY <2>2 DEF StrictSubsetOrdering
  <2> QED
    BY <2>1, <2>3, <1>4, <1>5
<1> QED
  BY <1>6 DEF IsFirst

(***************************************************************************)
(* dedupeQueryItems drops an item that was there before, compared without  *)
(* what Validate alone can see: whether an axis was left out or empty.  A  *)
(* query that is then let through matches what the items the client sent   *)
(* match, each of them.                                                    *)
(***************************************************************************)
THEOREM DedupeKeepsTheQuery ==
  ASSUME NEW s \in Lists, ValidQuery(NewQuery(s)), NEW e \in Events
  PROVE  Matches(NewQuery(s), e) <=> \E i \in DOMAIN s : ItemMatches(s[i], e)
<1> DEFINE q == NewQuery(s)
<1>1. PICK n \in Nat : s \in [1..n -> Items]
  BY DEF Lists, SeqsUpTo
<1>2. /\ q.form = "items"
      /\ q.items = {s[i] : i \in {j \in DOMAIN s : \A k \in 1..(j - 1) : Key(s[k]) # Key(s[j])}}
  BY DEF NewQuery
<1>3. ASSUME Matches(q, e) PROVE \E i \in DOMAIN s : ItemMatches(s[i], e)
  BY <1>2, <1>3 DEF Matches
<1>4. ASSUME NEW i \in DOMAIN s, ItemMatches(s[i], e) PROVE Matches(q, e)
  <2>1. i \in 1..n
    BY <1>1
  <2>2. PICK k \in 1..n : Key(s[k]) = Key(s[i]) /\ IsFirst(s, k)
    BY <1>1, <2>1, FirstOfKey
  <2>3. s[k] \in q.items
    BY <1>1, <1>2, <2>2 DEF IsFirst
  <2>4. s[k] \in Items /\ s[i] \in Items /\ ValidItem(s[k])
    BY <1>1, <1>2, <2>3 DEF ValidQuery
  <2>5. /\ s[k].types.values = s[i].types.values
        /\ s[k].identifiers.values = s[i].identifiers.values
        /\ s[k].metadata.values = s[i].metadata.values
    BY <2>2 DEF Key
  <2>6. s[k].types.given => s[i].types.given
    <3>1. s[k].types.given => s[k].types.values # {}
      BY <2>4 DEF ValidItem
    <3>2. ~s[i].types.given => s[i].types.values = {}
      BY <2>4 DEF Items, Axis
    <3> QED
      BY <3>1, <3>2, <2>5
  <2>7. ItemMatches(s[k], e)
    BY <1>4, <2>5, <2>6 DEF ItemMatches
  <2> QED
    BY <1>2, <2>3, <2>7 DEF Matches
<1> QED
  BY <1>3, <1>4
=============================================================================
