----------------------------- MODULE Decisions -----------------------------
(***************************************************************************)
(* What a transaction rests its decisions on: events of the log, and       *)
(* projections.  Definitions only; Registry.tla is the state machine.      *)
(*                                                                         *)
(* A query is the set of the kinds of events it matches, so "none" is the  *)
(* empty set.  An event is its position, its kind and the transaction that *)
(* wrote it.  A version stands for the uuid of a stored projection, and    *)
(* NoVersion for a projection that does not exist.                         *)
(***************************************************************************)
EXTENDS Naturals, FiniteSets, Sequences

CONSTANTS Tx,      \* transactions, each one begun at most once
          Kind,    \* what a query can tell apart of an event
          Key      \* projections, by type and id

None == {}

Event == [seq : Nat \ {0}, kind : Kind, by : Tx]

\* The committed events a query matches (dcb.Query.Matches, and its SQL).
Matching(q, evs) == {e \in evs : e.kind \in q}

\* SELECT coalesce(max(sequence), 0) FROM events
IsLast(n, evs) ==
    /\ \A e \in evs : e.seq <= n
    /\ n = 0 \/ \E e \in evs : e.seq = n

MaxSequence(evs) == CHOOSE n \in {0} \cup {e.seq : e \in evs} : IsLast(n, evs)

(***************************************************************************)
(* An Append Condition: a query and the position it was read at.  "seen"   *)
(* is history: the committed events that matched in the snapshot of the    *)
(* read.  No guard reads it; DecisionsHold compares it with the log.       *)
(***************************************************************************)
Condition == [query : SUBSET Kind, after : Nat, seen : SUBSET Event]

\* tx.ReadEvents: what a read of q opens.  A read of "none" has no position.
Opened(q, evs) ==
    [query |-> q,
     after |-> IF q = None THEN 0 ELSE MaxSequence(evs),
     seen  |-> Matching(q, evs)]

\* Mutant of NoneAfter: the first event after the position is left out.
NoneAfterNext(c, evs) == \A e \in Matching(c.query, evs) : e.seq <= c.after + 1

\* checkFailIfEventsMatchSQL: no event after the position matches.
NoneAfter(c, evs) == \A e \in Matching(c.query, evs) : e.seq <= c.after

\* Mutant of Holds: the shortcut also takes a position one behind the counter.
HoldsOneBehind(c, evs, lastAssigned) ==
    \/ c.query = None
    \/ c.after + 1 >= lastAssigned
    \/ NoneAfter(c, evs)

\* checkCondition: the counter often answers (resolveWithoutQuery), SQL
\* answers otherwise.
Holds(c, evs, lastAssigned) ==
    \/ c.query = None
    \/ c.after = lastAssigned
    \/ NoneAfter(c, evs)

-----------------------------------------------------------------------------

NoVersion == 0

\* projectionState.  read is readVersion, NoVersion when readFound is false.
ProjectionState == [touched : BOOLEAN, read : Nat, found : BOOLEAN, written : BOOLEAN]

Untouched == [touched |-> FALSE, read |-> NoVersion, found |-> FALSE, written |-> FALSE]

\* GetProjection: the first read remembers the stored version; later reads see
\* the transaction's own writes.
Fetched(s, stored) ==
    IF s.touched THEN s
    ELSE [Untouched EXCEPT !.touched = TRUE, !.read = stored, !.found = stored # NoVersion]

\* WriteProjections: when a write of one projection breaks no rule...
Allowed(op, s) ==
    CASE op = "create"  -> ~s.found
      [] op = "replace" -> s.found
      [] op = "delete"  -> s.touched
      [] op = "none"    -> TRUE

\* ... and what it does.
Written(op, s) ==
    IF op = "none" THEN s
    ELSE [s EXCEPT !.touched = TRUE, !.written = TRUE, !.found = op # "delete"]

Operations == {"create", "replace", "delete", "none"}

\* What one write asks of the store for each projection: op, if the stored
\* version is still at.
StoreWrites == [Key -> [op : Operations, at : Nat]]

\* netProjections: everything a transaction did to a projection, as one
\* operation.  Only read, or absent at both ends, it needs none.
NetOperation(s) ==
    [op |-> CASE ~s.written                         -> "none"
              [] s.written /\ s.found /\ s.read = NoVersion  -> "create"
              [] s.written /\ s.found /\ s.read # NoVersion  -> "replace"
              [] s.written /\ ~s.found /\ s.read # NoVersion -> "delete"
              [] s.written /\ ~s.found /\ s.read = NoVersion -> "none",
     at |-> s.read]

NetProjections(states) == [k \in Key |-> NetOperation(states[k])]

NothingWritten(w) == \A k \in Key : w[k].op = "none"

\* Mutant of VersionsHold: a create replaces what is there.
VersionsHoldNoCreate(w, versions) ==
    \A k \in Key : w[k].op \in {"replace", "delete"} => versions[k] = w[k].at

\* store.writeProjections: a create needs the key free (at is NoVersion), a
\* replace or a delete needs its version; every row written gets a new uuid.
VersionsHold(w, versions) == \A k \in Key : w[k].op # "none" => versions[k] = w[k].at

NewVersions(w, versions, fresh) ==
    [k \in Key |-> CASE w[k].op = "none"   -> versions[k]
                     [] w[k].op = "delete" -> NoVersion
                     [] OTHER              -> fresh]
=============================================================================
