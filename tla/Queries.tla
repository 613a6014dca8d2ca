------------------------------ MODULE Queries ------------------------------
(***************************************************************************)
(* The events in SQLite, and the reads of them: what the store makes of a  *)
(* batch of events, what it answers to a query, page by page or as one     *)
(* decision, and what the check of a decision at commit finds later.       *)
(*                                                                         *)
(* A query is answered twice in this program, by Query.Matches in memory   *)
(* and by the SQL of package store on three tables.  "log" and "floor" are *)
(* history: the events of each write as the server received them, for the  *)
(* properties to compare with the tables.  No guard reads them.            *)
(*                                                                         *)
(* Each action is one SQLite transaction.  A request that Validate refuses *)
(* changes nothing: Events and Requests are what is left after it.         *)
(***************************************************************************)
EXTENDS Integers, FiniteSets, Sequences, TagSets

CONSTANTS Type, Name, Value,    \* texts the naming rules allow
          Payload, NoPayload,   \* payloads, each its size in bytes; none given
          MaxIdentifiers, MaxMetadata, MaxEventSize,
          MaxQueryItems, MaxQueryItemValues, MaxEventsPerTxRead,
          DefaultEventsPerPage, MaxEventsPerPage,
          Nil,                  \* a key left out of a request
          Afters, Limits,       \* what requests ask for
          MaxSent,              \* bound: items in a query, values of a name, events of a write
          MaxTerms,             \* bound: types and tags in a query
          MaxPositions          \* bound: events ever written

ASSUME SizesAssumption ==
    /\ Payload \subseteq Nat /\ NoPayload \notin Payload
    /\ Limits \subseteq Int /\ Afters \subseteq Int /\ Nil \notin Int
    /\ DefaultEventsPerPage \in Nat \ {0} /\ MaxEventsPerPage \in Nat \ {0}
    /\ MaxEventsPerTxRead \in Nat /\ MaxSent \in Nat /\ MaxPositions \in Nat

VARIABLES events,       \* the table events
          identifiers,  \* the table identifiers
          metadata,     \* the table metadata
          nextSeq,      \* Store.nextSeq
          pending,      \* the pending events of the open transaction
          read,         \* the read a client goes on with, or Idle
          log,          \* history: the event written at each position
          floor         \* history: the last position DeleteAllEvents deleted

tables  == <<events, identifiers, metadata, nextSeq>>
history == <<log, floor>>
vars    == <<tables, pending, read, history>>

-----------------------------------------------------------------------------
(***************************************************************************)
(* Events, with two sets of tags.                                          *)
(***************************************************************************)
Wire == WireOf(MaxSent, Value \cup {BadText})

WireSets == UNION {[N -> Wire] : N \in SUBSET Name}

EventInputs == [type : Type \cup {BadText}, identifiers : WireSets, metadata : WireSets,
                payload : Payload \cup {NoPayload}]

\* EventData.Size, with names, values and types of one byte.
Size(e) == 1 + e.payload + 2 * Cardinality(Entries(e.identifiers))
             + 2 * Cardinality(Entries(e.metadata))

\* EventInput.Validate, then the limit on the size.
ValidEvent(e) ==
    /\ e.type # BadText
    /\ ValidTags(e.identifiers, MaxIdentifiers)
    /\ ValidTags(e.metadata, MaxMetadata)
    /\ e.payload # NoPayload
    /\ Size(e) <= MaxEventSize

EventData(w) == [w EXCEPT !.identifiers = Unmarshal(@), !.metadata = Unmarshal(@)]

\* What POST /tx/{txId}/events hands on of all a client may send.
Events ==
    {e \in {EventData(w) : w \in {x \in EventInputs : WellFormed(x.identifiers)
                                                       /\ WellFormed(x.metadata)}} :
        ValidEvent(e)}

-----------------------------------------------------------------------------
(***************************************************************************)
(* Queries.  Validate tells an axis left out from an empty array, so an    *)
(* axis is its values and whether it was given.  The order of the values,  *)
(* and that of the items, matter to nobody: both are sets.                 *)
(***************************************************************************)
Axis(S) == {a \in [given : BOOLEAN, values : SUBSET S] : ~a.given => a.values = {}}

Pairs == [name : Name, value : Value]

Items == [types : Axis(Type), identifiers : Axis(Pairs), metadata : Axis(Pairs)]

Terms(i) == ({"type"} \X i.types.values) \cup ({"identifier"} \X i.identifiers.values)
                \cup ({"metadata"} \X i.metadata.values)

QueryAll  == [form |-> "all", items |-> {}]
QueryNone == [form |-> "none", items |-> {}]

\* queryItemKey: an axis left out and an empty array have one key.
Key(i) == <<i.types.values, i.identifiers.values, i.metadata.values>>

\* NewQuery, with dedupeQueryItems: of items with one key, the first stays.
NewQuery(s) ==
    [form  |-> "items",
     items |-> {s[i] : i \in {j \in DOMAIN s : \A k \in 1..(j - 1) : Key(s[k]) # Key(s[j])}}]

ValidItem(i) ==
    /\ i.types.given \/ i.identifiers.given \/ i.metadata.given
    /\ \A a \in {i.types, i.identifiers, i.metadata} : a.given => a.values # {}
    /\ Cardinality(Terms(i)) <= MaxQueryItemValues

ValidQuery(q) ==
    q.form = "items" =>
        /\ q.items # {}
        /\ Cardinality(q.items) <= MaxQueryItems
        /\ \A i \in q.items : ValidItem(i)

\* A list of items a client may send: MaxTerms bounds its terms in all.
Lists == {s \in SeqsUpTo(MaxSent, Items) :
             Cardinality(UNION {{i} \X Terms(s[i]) : i \in DOMAIN s}) <= MaxTerms}

\* What is left to run of all a client may ask.
Queries == {q \in {QueryAll, QueryNone} \cup {NewQuery(s) : s \in Lists} : ValidQuery(q)}

\* Mutant of ItemMatches: one identifier of the item is enough.
ItemMatchesAny(i, e) ==
    /\ i.types.given => e.type \in i.types.values
    /\ i.identifiers.values # {} => i.identifiers.values \cap Tags(e.identifiers) # {}
    /\ i.metadata.values \subseteq Tags(e.metadata)

ItemMatches(i, e) ==
    /\ i.types.given => e.type \in i.types.values
    /\ i.identifiers.values \subseteq Tags(e.identifiers)
    /\ i.metadata.values \subseteq Tags(e.metadata)

\* Query.Matches
Matches(q, e) ==
    \/ q.form = "all"
    \/ q.form = "items" /\ \E i \in q.items : ItemMatches(i, e)

-----------------------------------------------------------------------------
(***************************************************************************)
(* The SQL.                                                                *)
(***************************************************************************)
\* SELECT event_sequence FROM table WHERE name = ? AND value = ? AND
\* event_sequence > ?
Tagged(table, t, after) ==
    {x.event_sequence : x \in {y \in table : /\ y.name = t.name
                                             /\ y.value = t.value
                                             /\ y.event_sequence > after}}

\* Mutant of ItemSQL: the first event after the bound is left out.
ItemSQLBound(i, row, after) ==
    /\ i.types.values # {} => row.type \in i.types.values
    /\ \A t \in i.identifiers.values : row.sequence \in Tagged(identifiers, t, after + 1)
    /\ \A t \in i.metadata.values : row.sequence \in Tagged(metadata, t, after + 1)

\* queryItemToSQL
ItemSQL(i, row, after) ==
    /\ i.types.values # {} => row.type \in i.types.values
    /\ \A t \in i.identifiers.values : row.sequence \in Tagged(identifiers, t, after)
    /\ \A t \in i.metadata.values : row.sequence \in Tagged(metadata, t, after)

\* queryToSQL: "0" for none and for no item at all.
QuerySQL(q, row, after) ==
    \/ q.form = "all"
    \/ q.form = "items" /\ \E i \in q.items : ItemSQL(i, row, after)

\* buildEventsSQL, without its order: the positions it selects.
Select(q, after) ==
    {row.sequence : row \in {r \in events : r.sequence > after /\ QuerySQL(q, r, after)}}

\* ORDER BY sequence, LIMIT n: the positions with fewer than n before them.
FirstOf(n, S, backwards) ==
    {x \in S : Cardinality({y \in S : IF backwards THEN y > x ELSE y < x}) < n}

\* The same with a limit that may be left out.
Take(n, S, backwards) == IF n = Nil THEN S ELSE FirstOf(n, S, backwards)

LastSequence == nextSeq - 1

\* SELECT coalesce(max(sequence), 0)
IsMaxSequence(n) ==
    /\ \A row \in events : row.sequence <= n
    /\ n = 0 \/ \E row \in events : row.sequence = n

-----------------------------------------------------------------------------
(***************************************************************************)
(* Writes.                                                                 *)
(***************************************************************************)
\* insertIdentifiersBatch and insertMetadataBatch, for one event.
TagRows(seq, s) ==
    {[event_sequence |-> seq, name |-> t.name, value |-> t.value] : t \in Tags(s)}

EventRow(seq, e) ==
    [sequence |-> seq, type |-> e.type, payload |-> e.payload,
     identifiers |-> MarshalCompact(e.identifiers), metadata |-> MarshalCompact(e.metadata)]

\* The write of a transaction, this one or another's: insertEvents gives the
\* batch b the positions from the counter on.
AppendBatch(b) ==
    /\ events' = events \cup {EventRow(LastSequence + i, b[i]) : i \in DOMAIN b}
    /\ identifiers' = identifiers \cup
           UNION {TagRows(LastSequence + i, b[i].identifiers) : i \in DOMAIN b}
    /\ metadata' = metadata \cup
           UNION {TagRows(LastSequence + i, b[i].metadata) : i \in DOMAIN b}
    /\ nextSeq' = nextSeq + Len(b)
    /\ log' = [p \in 1..(LastSequence + Len(b)) |->
                  IF p <= LastSequence THEN log[p] ELSE b[p - LastSequence]]

\* Room is kept for the pending events.
Room(b) == LastSequence + Len(pending) + Len(b) <= MaxPositions

\* Mutant of AppendFails: the reserved positions are not given back.
AppendFailsNoRelease(b) ==
    /\ nextSeq' = nextSeq + Len(b)
    /\ UNCHANGED <<events, identifiers, metadata, log>>

\* A statement or the commit fails: rolled back, and releaseSequences.
AppendFails(b) == UNCHANGED <<tables, log>>

DeleteAllEvents ==
    /\ events' = {} /\ identifiers' = {} /\ metadata' = {}
    /\ floor' = LastSequence
    /\ UNCHANGED <<nextSeq, pending, read, log>>

-----------------------------------------------------------------------------
(***************************************************************************)
(* Pages, for any client.  In "read", "seen" is the lines the client got,  *)
(* "after" where it goes on, and "live" (history) the positions in the log *)
(* at the last answer.                                                     *)
(***************************************************************************)
Idle == [kind |-> "idle"]

Live == (floor + 1)..LastSequence

\* Mutant of Fetched: no row past the limit is asked for.
FetchedNoExtra(q, after, n, backwards) == FirstOf(n, Select(q, after), backwards)

\* buildReadSQL: one row past the limit tells whether more match.
Fetched(q, after, n, backwards) == FirstOf(n + 1, Select(q, after), backwards)

(***************************************************************************)
(* Store.Read, then writePage: the client gets every line and the trailer, *)
(* or loses the connection after k lines, and without the trailer it does  *)
(* not know whether more match.  It goes on after the last line it got.    *)
(***************************************************************************)
Page(q, from, after, n, backwards, seen) ==
    LET fetched == Fetched(q, after, n, backwards)
        page    == FirstOf(n, fetched, backwards)
        Answer(got, last, more, cut) ==
            read' = [kind |-> "page", query |-> q, limit |-> n, backwards |-> backwards,
                     from |-> from, after |-> last, seen |-> seen \cup got,
                     more |-> more, cut |-> cut, live |-> Live]
        Got(got, more, cut) ==
            \E last \in got \cup {after} :
                (\A p \in got : p <= last) /\ Answer(got, last, more, cut)
    IN  /\ \/ Got(page, Cardinality(fetched) > n, FALSE)
           \/ \E k \in 0..n : Got(FirstOf(k, page, backwards), TRUE, TRUE)
        /\ UNCHANGED <<tables, pending, history>>

\* parseReadRequest, for the limit: Nil is a request refused.
PageLimit(limit) ==
    CASE limit = Nil                      -> DefaultEventsPerPage
      [] limit \in 1..MaxEventsPerPage    -> limit
      [] limit \notin 1..MaxEventsPerPage /\ limit # Nil -> Nil

\* QUERY /events
ReadEvents(q, after, limit, backwards) ==
    /\ read = Idle /\ pending = <<>>
    /\ after # Nil => after >= 0 /\ ~backwards
    /\ PageLimit(limit) # Nil
    /\ LET from == IF after = Nil THEN 0 ELSE after
       IN  Page(q, from, from, PageLimit(limit), backwards, {})

\* The same request again, after the last line.  Backwards has no next page.
NextPage ==
    /\ read.kind = "page" /\ read.more /\ ~read.backwards
    /\ Page(read.query, read.from, read.after, read.limit, FALSE, read.seen)

-----------------------------------------------------------------------------
(***************************************************************************)
(* The open transaction: its reads of the log and of its own events.       *)
(***************************************************************************)
\* Registry.WriteEvents.  A client of pages and a transaction share nothing:
\* one goes on at a time.
PostEvents(b) ==
    /\ read.kind # "page"
    /\ Room(b)
    /\ pending' = pending \o b
    /\ UNCHANGED <<tables, read, history>>

\* Store.ReadDecision, for the events.
ReadDecision(q, limit, backwards) ==
    IF q.form = "none" THEN {} ELSE Take(limit, Select(q, 0), backwards)

Smaller(limit, n) == IF limit = Nil \/ limit > n THEN n ELSE limit

(***************************************************************************)
(* What a transaction's read finds: the committed events by SQL, no more   *)
(* than one past maxEventsPerTxRead, its pending ones by Matches...        *)
(***************************************************************************)
Committed(q, limit, backwards) ==
    ReadDecision(q, Smaller(limit, MaxEventsPerTxRead + 1), backwards)

Pending(q) == {i \in DOMAIN pending : Matches(q, pending[i])}

ReadCount(q, limit, backwards) ==
    Smaller(limit, Cardinality(Committed(q, limit, backwards)) + Cardinality(Pending(q)))

(***************************************************************************)
(* ... and what writeTxEvents sends of it, the limit on both together.     *)
(***************************************************************************)
Sent(q, limit, backwards) ==
    LET n         == ReadCount(q, limit, backwards)
        committed == Committed(q, limit, backwards)
        own       == Pending(q)
        first     == IF backwards THEN FirstOf(n, own, TRUE) ELSE FirstOf(n, committed, FALSE)
        left      == n - Cardinality(first)
    IN  IF backwards
        THEN [committed |-> FirstOf(left, committed, TRUE), pending |-> first]
        ELSE [committed |-> first, pending |-> FirstOf(left, own, FALSE)]

\* Registry.ReadEvents opens a condition on the whole query, at the position
\* of its snapshot.  A read over maxEventsPerTxRead ends the transaction.
ReadTxEvents(q, limit, backwards) ==
    /\ read = Idle
    /\ limit # Nil => limit > 0
    /\ \/ /\ ReadCount(q, limit, backwards) <= MaxEventsPerTxRead
          /\ \E position \in 0..LastSequence :
                 /\ IsMaxSequence(position)
                 /\ read' = [kind |-> "decision", query |-> q, position |-> position, live |-> Live]
          /\ UNCHANGED pending
       \/ /\ ReadCount(q, limit, backwards) > MaxEventsPerTxRead
          /\ pending' = <<>>
          /\ UNCHANGED read
    /\ UNCHANGED <<tables, history>>

\* checkFailIfEventsMatchSQL
FailIfEventsMatch(q, after) == Select(q, after) # {}

\* checkCondition, with resolveWithoutQuery.
CheckCondition(q, after) ==
    \/ q.form = "none"
    \/ LastSequence = after
    \/ ~FailIfEventsMatch(q, after)

\* When the transaction is over, so is what its decision rests on.
TxOver ==
    /\ pending' = <<>>
    /\ read' = Idle

\* The transaction writes what it holds, if its decision holds.
Commit ==
    /\ read.kind # "page"
    /\ read.kind = "decision" => CheckCondition(read.query, read.position)
    /\ AppendBatch(pending) \/ AppendFails(pending)
    /\ TxOver
    /\ UNCHANGED floor

\* A conflict, an error, or a client that abandons it.
TxEnds ==
    /\ read.kind = "decision" \/ pending # <<>>
    /\ TxOver
    /\ UNCHANGED <<tables, history>>

\* The client of a page goes on to something else.
Leave ==
    /\ read.kind = "page"
    /\ read' = Idle
    /\ UNCHANGED <<tables, pending, history>>

\* The write of another transaction.
OtherCommit(b) ==
    /\ Room(b)
    /\ AppendBatch(b) \/ AppendFails(b)
    /\ UNCHANGED <<pending, read, floor>>

-----------------------------------------------------------------------------
Init ==
    /\ events = {} /\ identifiers = {} /\ metadata = {} /\ nextSeq = 1
    /\ pending = <<>> /\ read = Idle
    /\ log = <<>> /\ floor = 0

Batches == SeqsUpTo(MaxSent, Events)

Next ==
    \/ \E b \in Batches : PostEvents(b) \/ OtherCommit(b)
    \/ Commit \/ TxEnds
    \/ DeleteAllEvents
    \/ \E q \in Queries, limit \in Limits \cup {Nil}, backwards \in BOOLEAN :
           \/ ReadTxEvents(q, limit, backwards)
           \/ \E after \in Afters \cup {Nil, -1} : ReadEvents(q, after, limit, backwards)
    \/ NextPage \/ Leave

Spec == Init /\ [][Next]_vars

-----------------------------------------------------------------------------
TypeOK ==
    /\ nextSeq \in Nat \ {0} /\ LastSequence + Len(pending) <= MaxPositions
    /\ floor \in 0..LastSequence
    /\ DOMAIN log = 1..LastSequence /\ \A p \in 1..LastSequence : log[p] \in Events
    /\ pending \in Seq(Events)
    /\ \A t \in identifiers \cup metadata :
           t \in [event_sequence : 1..LastSequence, name : Name, value : Value]
    /\ read.kind \in {"idle", "page", "decision"}
    /\ read.kind # "idle" => read.query \in Queries /\ read.live \subseteq 1..LastSequence

(***************************************************************************)
(* sqlite.go, schema.go: an event is kept three times, its row with its    *)
(* tags "again, in the compact object shape", and a row of a tag table for *)
(* each tag.  At every moment the three hold the events written and not    *)
(* deleted, no other one and no tag more or less, and a client that        *)
(* decodes the tags of a row finds those that were sent.                   *)
(***************************************************************************)
TablesMirrorLog ==
    /\ {row.sequence : row \in events} = Live
    /\ \A row \in events :
           LET e == log[row.sequence]
           IN  /\ row.type = e.type /\ row.payload = e.payload
               /\ WellFormed(row.identifiers) /\ Unmarshal(row.identifiers) = e.identifiers
               /\ WellFormed(row.metadata) /\ Unmarshal(row.metadata) = e.metadata
    /\ identifiers = UNION {TagRows(p, log[p].identifiers) : p \in Live}
    /\ metadata = UNION {TagRows(p, log[p].metadata) : p \in Live}

(***************************************************************************)
(* A client that reads forwards page after page, each from the last line   *)
(* it got, while events are written or all deleted and connections break,  *)
(* has every matching event still in the log up to where it is, and        *)
(* nothing else; a trailer with no more means that it has them all, one    *)
(* with more that another is there.  Backwards it has the latest ones.     *)
(***************************************************************************)
PagesMissNothing ==
    read.kind = "page" =>
        LET match == {p \in read.live : p > read.from /\ Matches(read.query, log[p])}
        IN  /\ \A p \in read.seen : p \in DOMAIN log /\ p > read.from /\ Matches(read.query, log[p])
            /\ IF read.backwards
               THEN \A p \in read.seen, m \in match : m > p => m \in read.seen
               ELSE \A m \in match : m <= read.after => m \in read.seen
            /\ ~read.more => match \subseteq read.seen
            /\ read.more /\ ~read.cut => ~(match \subseteq read.seen)

(***************************************************************************)
(* query.go: Matches "follows the same rules as the SQL internal/store     *)
(* runs".  So a transaction that reads before it commits sees the log as   *)
(* it will be: its own events after those of the log, cut by the limit at  *)
(* the right end, forwards or backwards.                                   *)
(***************************************************************************)
ReadsOwnWrites ==
    read = Idle =>
        \A q \in Queries, limit \in {Nil} \cup {n \in Limits : n > 0}, backwards \in BOOLEAN :
            LET own(I) == {LastSequence + i : i \in I}
                view   == {p \in Live : Matches(q, log[p])} \cup own(Pending(q))
                sent   == Sent(q, limit, backwards)
            IN  ReadCount(q, limit, backwards) <= MaxEventsPerTxRead =>
                    sent.committed \cup own(sent.pending) = Take(limit, view, backwards)

(***************************************************************************)
(* AppendCondition: the check at commit, by the counter or by SQL bounded  *)
(* by the position, fails exactly when an event that matches the query was *)
(* written after the read, however few events the limit let through.       *)
(***************************************************************************)
ConditionsAgree ==
    read.kind = "decision" =>
        (CheckCondition(read.query, read.position) <=>
             \A p \in Live \ read.live : ~Matches(read.query, log[p]))
=============================================================================
