------------------------------ MODULE TagSets ------------------------------
(***************************************************************************)
(* The tags of an event, its identifiers or its metadata: for each name,   *)
(* its values.  Package dcb.  A client may send one value as a string, or  *)
(* as an array of one; the order of the names is lost when they are        *)
(* decoded, and nobody reads it.                                           *)
(***************************************************************************)
EXTENDS Naturals, FiniteSets, Sequences

CONSTANT BadText    \* a text the naming rules refuse

SeqsUpTo(n, S) == UNION {[1..k -> S] : k \in 0..n}

\* What one name may come with: a string, or an array of up to n values.
WireOf(n, S) == {[array |-> TRUE, values |-> s] : s \in SeqsUpTo(n, S)}
                \cup {[array |-> FALSE, values |-> <<v>>] : v \in S}

\* unmarshalCompact refuses an empty array...
WellFormed(w) == \A n \in DOMAIN w : w[n].values # <<>>

\* ... and forgets how the values came.
Unmarshal(w) == [n \in DOMAIN w |-> w[n].values]

\* Mutant of MarshalCompact: of the values of a name, one is kept.
MarshalCompactFirst(s) == [n \in DOMAIN s |-> [array |-> FALSE, values |-> <<s[n][1]>>]]

\* marshalCompact: a single value is a string, more are an array.
MarshalCompact(s) == [n \in DOMAIN s |-> [array |-> Len(s[n]) # 1, values |-> s[n]]]

\* The pairs of a set, one by one, and as the set a query is asked about.
Entries(s) == UNION {{<<n, i>> : i \in DOMAIN s[n]} : n \in DOMAIN s}
Tags(s)    == {[name |-> x[1], value |-> s[x[1]][x[2]]] : x \in Entries(s)}

DuplicateExists(s) == \E x, y \in Entries(s) :
                          x[1] = y[1] /\ x[2] # y[2] /\ s[x[1]][x[2]] = s[y[1]][y[2]]

\* EventData.Validate, for one of its two sets.
ValidTags(s, max) ==
    /\ \A t \in Tags(s) : t.value # BadText
    /\ Cardinality(Entries(s)) <= max
    /\ ~DuplicateExists(s)
=============================================================================
