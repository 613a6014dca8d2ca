------------------------------- MODULE Calls -------------------------------
(***************************************************************************)
(* The calls of clients, from their arrival at the HTTP layer to their     *)
(* answer: the requests on a transaction, and POST /projections outside    *)
(* one.  Packages api and tx, over the projections of package store.       *)
(*                                                                         *)
(* A client may have several requests under way on one transaction: it     *)
(* does when it gave up waiting and calls again.  A call is two steps,     *)
(* acquire, and its work up to release and the answer.  Between them any   *)
(* other call finds the transaction busy.                                  *)
(*                                                                         *)
(* Registry.tla has the queue, the log of events and the limits on the     *)
(* registry; here the log is two choices, a condition that fails and a     *)
(* read that is too large.  A message of an error is left out.             *)
(***************************************************************************)
EXTENDS Naturals, FiniteSets, Sequences

CONSTANTS Tx,                   \* ids of transactions, each begun at most once
          Key, BadKey,          \* a type and an id; one the naming rules refuse
          Payload, NoPayload,   \* payloads; the key left out of a request
          BigPayload,           \* one that goes over maxProjectionSize
          MaxProjectionsPerWrite, MaxProjectionsPerTx, MaxReadsPerTx, MaxEventsPerTx,
          MaxItems,             \* bound: items in one request
          MaxVersion            \* bound: versions the model hands out

ASSUME CallsAssumption ==
    /\ BadKey \notin Key
    /\ NoPayload # BigPayload /\ {NoPayload, BigPayload} \cap Payload = {}
    /\ MaxProjectionsPerWrite \in Nat /\ MaxProjectionsPerTx \in Nat
    /\ MaxReadsPerTx \in Nat /\ MaxEventsPerTx \in Nat
    /\ MaxItems \in Nat /\ MaxVersion \in Nat

VARIABLES stored,       \* the table projections
          lastVersion,  \* the last version handed out
          txs,          \* Registry.txs: the ids
          begun,        \* the ids ever begun
          tx,           \* what each transaction holds
          call,         \* the call that uses each transaction, if one does
          over,         \* history: the transactions whose answers said they are over
          base, told,   \* history: each projection as a transaction first took it, and
                        \* as its client knows it after the writes it was answered for
          lost          \* history: a write of POST /projections whose response was lost

registry == <<txs, begun, tx, call>>
history  == <<over, base, told, lost>>
vars     == <<stored, lastVersion, registry, history>>

-----------------------------------------------------------------------------
(***************************************************************************)
(* Bodies.  One list holds the creates of a body, then its replaces, then  *)
(* its deletes, the order the code goes through them.  A request on a      *)
(* transaction carries no version.                                         *)
(***************************************************************************)
NoVersion == 0

Items(versions) ==
    [op : {"create"}, key : Key \cup {BadKey}, version : {NoVersion},
     payload : Payload \cup {NoPayload, BigPayload}]
    \cup
    [op : {"replace"}, key : Key \cup {BadKey}, version : versions,
     payload : Payload \cup {NoPayload, BigPayload}]
    \cup
    [op : {"delete"}, key : Key \cup {BadKey}, version : versions, payload : {NoPayload}]

Place(op) == CASE op = "create" -> 1 [] op = "replace" -> 2 [] op = "delete" -> 3

Lists(versions) ==
    {s \in UNION {[1..n -> Items(versions)] : n \in 0..MaxItems} :
        \A m, n \in DOMAIN s : m < n => Place(s[m].op) <= Place(s[n].op)}

\* readBody and decode: what is wrong with a body before it is looked at.
Decoded(body) ==
    CASE body = "cut"       -> "gone"
      [] body = "large"     -> "PayloadTooLarge"
      [] body = "malformed" -> "InvalidRequest"
      [] body = "whole"     -> "OK"

\* Validate of a create, of a replace, and of a delete or a key.
Valid(i, versioned) ==
    /\ i.key # BadKey
    /\ versioned /\ i.op # "create" => i.version # NoVersion
    /\ i.op # "delete" => i.payload # NoPayload

OverSize(i) == i.payload = BigPayload

\* The first item at fault gives the error, if there is one; an item is looked at
\* before its size is.
FirstFault(s, invalid) ==
    LET faults == invalid \cup {n \in DOMAIN s : OverSize(s[n])}
    IN  IF faults = {} THEN "OK"
        ELSE IF \E n \in invalid : \A m \in faults : n <= m THEN "InvalidRequest"
        ELSE "PayloadTooLarge"

\* validateTxProjections
ValidateTxProjections(s) == FirstFault(s, {n \in DOMAIN s : ~Valid(s[n], FALSE)})

\* validateWriteProjections, with the projections named twice.
ValidateWriteProjections(s) ==
    IF Len(s) > MaxProjectionsPerWrite THEN "InvalidRequest"
    ELSE FirstFault(s, {n \in DOMAIN s : \/ ~Valid(s[n], TRUE)
                                         \/ \E m \in 1..(n - 1) : s[m].key = s[n].key})

-----------------------------------------------------------------------------
(***************************************************************************)
(* The store.  The uuids of the rows of one write count as one version: a  *)
(* version is only ever compared with those of its own projection.         *)
(***************************************************************************)
Absent == [version |-> NoVersion, payload |-> NoPayload]

Rows == {Absent} \cup [version : 1..MaxVersion, payload : Payload]

\* writeProjections: ON CONFLICT DO NOTHING, AND version = ?, and each
\* statement must touch a row, or nothing is written.
Holds(w, table) ==
    \A i \in w : IF i.op = "create" THEN table[i.key] = Absent
                 ELSE table[i.key].version = i.version /\ table[i.key] # Absent

\* Mutant of Row: a replace leaves the version as it was.
RowSameVersion(i, version) ==
    CASE i.op = "create"  -> [version |-> version, payload |-> i.payload]
      [] i.op = "replace" -> [version |-> i.version, payload |-> i.payload]
      [] i.op = "delete"  -> Absent

Row(i, version) ==
    IF i.op = "delete" THEN Absent ELSE [version |-> version, payload |-> i.payload]

Written(w, table, version) ==
    [k \in Key |-> IF \E i \in w : i.key = k
                   THEN Row(CHOOSE i \in w : i.key = k, version)
                   ELSE table[k]]

Versioned(w) == \E i \in w : i.op # "delete"

Write(w) ==
    /\ Versioned(w) => lastVersion < MaxVersion
    /\ stored' = Written(w, stored, lastVersion + 1)
    /\ lastVersion' = IF Versioned(w) THEN lastVersion + 1 ELSE lastVersion

-----------------------------------------------------------------------------
(* Transactions *)

\* projectionState.  read is the version when it was first read, NoVersion if
\* it did not exist, or was created without a read.
State == [read : 0..MaxVersion, found : BOOLEAN, payload : Payload \cup {NoPayload},
          written : BOOLEAN]

NewTransaction == [open |-> FALSE, reads |-> 0, events |-> 0, projections |-> <<>>, written |-> 0]

\* GetProjection, the first time: what the store has.
Fetched(row) ==
    [read |-> row.version, found |-> row # Absent, payload |-> row.payload, written |-> FALSE]

Unread == [Fetched(Absent) EXCEPT !.written = TRUE]

\* WriteProjections: the rules, for the states p of a transaction.
Allowed(i, p) ==
    CASE i.op = "create"  -> i.key \in DOMAIN p => ~p[i.key].found
      [] i.op = "replace" -> i.key \in DOMAIN p /\ p[i.key].found
      [] i.op = "delete"  -> i.key \in DOMAIN p

Put(s, i) == [s EXCEPT !.found = i.op # "delete", !.payload = i.payload, !.written = TRUE]

Wrote(p, w) ==
    [k \in DOMAIN p \cup {i.key : i \in w} |->
        LET s == IF k \in DOMAIN p THEN p[k] ELSE Unread
        IN  IF \E i \in w : i.key = k THEN Put(s, CHOOSE i \in w : i.key = k) ELSE s]

\* How many projections a transaction has written after w: one written again
\* counts once.
Count(t, w) ==
    tx[t].written
    + Cardinality({i.key : i \in w} \ {k \in DOMAIN tx[t].projections : tx[t].projections[k].written})

\* netProjections, of one projection: read and found tell the operation.
NetOperation(k, s) ==
    [op      |-> IF s.read = NoVersion THEN "create" ELSE IF s.found THEN "replace" ELSE "delete",
     key     |-> k, version |-> s.read, payload |-> s.payload]

\* Mutant of NetProjections: one absent at both ends is left in.
NetProjectionsAbsent(p) ==
    {NetOperation(k, p[k]) : k \in {j \in DOMAIN p : p[j].written}}

\* netProjections: one only read, or absent at both ends, needs none.
NetProjections(p) ==
    {NetOperation(k, p[k]) :
        k \in {j \in DOMAIN p : p[j].written /\ (p[j].read # NoVersion \/ p[j].found)}}

-----------------------------------------------------------------------------
(* Calls *)

\* What the body of each call on a transaction may say, with what its check
\* finds.
Whole ==
    {[do |-> "readEvents", check |-> x] : x \in {"OK", "InvalidRequest"}}
    \cup {[do |-> "writeEvents", check |-> x, events |-> n] :
            x \in {"OK", "InvalidRequest", "PayloadTooLarge"}, n \in 0..1}
    \cup {[do |-> "getProjection", key |-> k,
           check |-> IF k = BadKey THEN "InvalidRequest" ELSE "OK"] : k \in Key \cup {BadKey}}
    \cup {[do |-> "writeProjections", items |-> s, check |-> ValidateTxProjections(s)] :
            s \in Lists({NoVersion})}

\* The bodies the work of a call gets.
Accepted(do) == {x \in Whole : x.do = do /\ x.check = "OK"}

\* What a handler makes of a body: a call of the registry, or the error that
\* txFail is given.  Only the work looks at what an accepted body says.
Handled(do, check) ==
    IF check = "OK" THEN [do |-> do, check |-> check] ELSE [do |-> "reject", check |-> check]

Calls ==
    {Handled(x.do, x.check) : x \in Whole}
    \cup {Handled("any", Decoded(body)) : body \in {"cut", "large", "malformed"}}
    \cup {Handled(do, "OK") : do \in {"commit", "abandon"}}

NoCall == [do |-> "none"]

busy == {t \in txs : call[t] # NoCall}

\* What a client takes from an answer: any error ends the transaction, except
\* these, and so does a commit or a DELETE.
Final(do, code) ==
    \/ code \notin {"OK", "ProjectionNotFound", "TransactionBusy", "Unauthorized"}
    \/ code = "OK" /\ do \in {"commit", "abandon"}

Answer(t, do, code) == over' = IF Final(do, code) THEN over \cup {t} ELSE over

\* Mutant of Refusal: a request turned down gets its own error, busy or not.
RefusalOwnError(t, x) ==
    CASE t \notin txs /\ x.do = "abandon" -> "OK"
      [] t \notin txs /\ x.do # "abandon" -> "TransactionNotFound"
      [] t \in txs /\ x.do = "reject"     -> x.check
      [] t \in txs /\ x.do # "reject"     -> "TransactionBusy"

\* The error of acquire, and what becomes of it.
Refusal(t, x) ==
    CASE t \notin txs /\ x.do = "abandon" -> "OK"
      [] t \notin txs /\ x.do # "abandon" -> "TransactionNotFound"
      [] t \in txs                        -> "TransactionBusy"

\* The handlers of the calls on a transaction, up to acquire.  A client has
\* the id from Begin.  One that leaves before its body is read has asked for
\* nothing.
Acquire(t, x) ==
    \/ x.check = "gone" /\ UNCHANGED vars
    \/ /\ x.check # "gone"
       /\ IF t \in txs \ busy
          THEN call' = [call EXCEPT ![t] = x] /\ UNCHANGED over
          ELSE UNCHANGED call /\ Answer(t, x.do, Refusal(t, x))
       /\ UNCHANGED <<stored, lastVersion, txs, begun, tx, base, told, lost>>

\* withAuth: the transaction is not even looked for.
Unauthorized(t) ==
    /\ Answer(t, "none", "Unauthorized")
    /\ UNCHANGED <<stored, lastVersion, registry, base, told, lost>>

\* handleTxBegin.  Registry.tla has the pause and the limit.
Begin(t) ==
    /\ t \notin begun
    /\ begun' = begun \cup {t} /\ txs' = txs \cup {t}
    /\ UNCHANGED <<stored, lastVersion, tx, call, history>>

-----------------------------------------------------------------------------
(***************************************************************************)
(* The work of a call.                                                     *)
(***************************************************************************)
Works(t, do) == t \in txs /\ call[t].do = do

\* release, after a call that ends well.
Release(t, code, new) ==
    /\ Answer(t, call[t].do, code)
    /\ call' = [call EXCEPT ![t] = NoCall]
    /\ tx' = [tx EXCEPT ![t] = new]
    /\ UNCHANGED <<txs, begun>>

Forget(t) ==
    /\ txs' = txs \ {t}
    /\ tx' = [tx EXCEPT ![t] = NewTransaction]
    /\ base' = [base EXCEPT ![t] = <<>>]
    /\ told' = [told EXCEPT ![t] = <<>>]

\* Mutant of End: without release, the call still uses what is gone.
EndBusy(t, code) ==
    /\ Answer(t, call[t].do, code)
    /\ Forget(t)
    /\ UNCHANGED <<begun, call>>

\* end and release: the transaction is over.
End(t, code) ==
    /\ Answer(t, call[t].do, code)
    /\ call' = [call EXCEPT ![t] = NoCall]
    /\ Forget(t)
    /\ UNCHANGED begun

\* do: a rule broken, a limit, or a failure of the store.
Fails(t, code) == End(t, code) /\ UNCHANGED <<stored, lastVersion, lost>>

\* Reject.
Reject(t) == Works(t, "reject") /\ Fails(t, call[t].check)

\* ReadEvents.  The answer may be cut; the condition is open all the same.
ReadEvents(t) ==
    /\ Works(t, "readEvents")
    /\ \/ /\ ~tx[t].open /\ tx[t].reads + 1 <= MaxReadsPerTx
          /\ Release(t, "OK", [tx[t] EXCEPT !.open = TRUE])
          /\ UNCHANGED <<stored, lastVersion, base, told, lost>>
       \/ Fails(t, "InvalidRequest")      \* a rule, or maxEventsPerTxRead
       \/ Fails(t, "InternalError")

\* WriteEvents.
WriteEvents(t) ==
    /\ Works(t, "writeEvents")
    /\ \E x \in Accepted("writeEvents") :
          IF tx[t].open /\ tx[t].events + x.events <= MaxEventsPerTx
          THEN /\ Release(t, "OK", [tx[t] EXCEPT !.open = FALSE, !.events = @ + x.events,
                                                 !.reads = @ + 1])
               /\ UNCHANGED <<stored, lastVersion, base, told, lost>>
          ELSE Fails(t, "InvalidRequest")

Set(f, k, value) == [j \in DOMAIN f \cup {k} |-> IF j = k THEN value ELSE f[j]]

\* GetProjection, in a transaction.
GetProjection(t) ==
    /\ Works(t, "getProjection")
    /\ \E x \in Accepted("getProjection") :
          LET k == x.key
              p == tx[t].projections
          IN  \/ /\ k \in DOMAIN p
                 /\ Release(t, IF p[k].found THEN "OK" ELSE "ProjectionNotFound", tx[t])
                 /\ UNCHANGED <<stored, lastVersion, base, told, lost>>
              \/ /\ k \notin DOMAIN p
                 /\ Release(t, IF stored[k] # Absent THEN "OK" ELSE "ProjectionNotFound",
                            [tx[t] EXCEPT !.projections = Set(p, k, Fetched(stored[k]))])
                 /\ base' = [base EXCEPT ![t] = Set(@, k, stored[k])]
                 /\ told' = [told EXCEPT ![t] = Set(@, k, stored[k].payload)]
                 /\ UNCHANGED <<stored, lastVersion, lost>>
              \/ k \notin DOMAIN p /\ Fails(t, "InternalError")

\* WriteProjections, of the items of a list.
WriteList(t, s) ==
    LET p == tx[t].projections
        w == {s[n] : n \in DOMAIN s}
    IN  IF /\ ~tx[t].open
           /\ Len(s) > 0
           /\ \A m, n \in DOMAIN s : s[m].key = s[n].key => m = n
           /\ \A i \in w : Allowed(i, p)
           /\ Count(t, w) <= MaxProjectionsPerTx
        THEN /\ Release(t, "OK", [tx[t] EXCEPT !.projections = Wrote(p, w), !.written = Count(t, w)])
             /\ base' = [base EXCEPT ![t] =
                            [k \in DOMAIN Wrote(p, w) |-> IF k \in DOMAIN p THEN @[k] ELSE Absent]]
             /\ told' = [told EXCEPT ![t] =
                            [k \in DOMAIN Wrote(p, w) |->
                                IF \E i \in w : i.key = k
                                THEN (CHOOSE i \in w : i.key = k).payload
                                ELSE @[k]]]
             /\ UNCHANGED <<stored, lastVersion, lost>>
        ELSE Fails(t, "InvalidRequest")

WriteProjections(t) ==
    /\ Works(t, "writeProjections")
    /\ \E x \in Accepted("writeProjections") : WriteList(t, x.items)

\* Commit: at once with nothing to write, else in its turn.
CommitWrites(t) ==
    LET w == NetProjections(tx[t].projections)
    IN  /\ Works(t, "commit")
        /\ \/ /\ ~tx[t].open
              /\ IF w = {} THEN UNCHANGED <<stored, lastVersion>>
                           ELSE Holds(w, stored) /\ Write(w)
              /\ End(t, "OK")
              /\ UNCHANGED lost
           \/ tx[t].open /\ Fails(t, "InvalidRequest")
           \/ /\ ~tx[t].open /\ (w # {} \/ tx[t].events > 0)
              /\ ~Holds(w, stored) \/ tx[t].reads > 0
              /\ Fails(t, "ConcurrencyException")
           \/ /\ ~tx[t].open /\ (w # {} \/ tx[t].events > 0)
              /\ Fails(t, "InternalError")    \* or no turn, or no space

\* Abandon.
AbandonEnds(t) == Works(t, "abandon") /\ Fails(t, "OK")

\* lock: the idle timeout.
Expire(t) ==
    /\ t \in txs \ busy
    /\ Forget(t)
    /\ UNCHANGED <<stored, lastVersion, begun, call, over, lost>>

-----------------------------------------------------------------------------
(* Outside a transaction *)

Posts == {s \in Lists(0..MaxVersion) : s # <<>> /\ ValidateWriteProjections(s) = "OK"}

\* POST /projections, up to its turn and its write.  The versions a client
\* sends are ones it got.  Any other outcome writes nothing.
PostProjections(s) ==
    LET w == {s[n] : n \in DOMAIN s}
    IN  /\ \A i \in w : i.version <= lastVersion
        /\ Holds(w, stored)
        /\ Write(w)
        /\ lost' \in {lost, w}
        /\ UNCHANGED <<registry, over, base, told>>

\* DELETE /projections, and DELETE /projections/{type} for the keys of a type.
DeleteProjections(K) ==
    /\ stored' = [k \in Key |-> IF k \in K THEN Absent ELSE stored[k]]
    /\ UNCHANGED <<lastVersion, registry, history>>

Init ==
    /\ stored = [k \in Key |-> Absent] /\ lastVersion = 0
    /\ txs = {} /\ begun = {}
    /\ tx = [t \in Tx |-> NewTransaction]
    /\ call = [t \in Tx |-> NoCall] /\ over = {}
    /\ base = [t \in Tx |-> <<>>] /\ told = [t \in Tx |-> <<>>]
    /\ lost = {}

Work(t) ==
    \/ Reject(t) \/ ReadEvents(t) \/ WriteEvents(t) \/ GetProjection(t)
    \/ WriteProjections(t) \/ CommitWrites(t) \/ AbandonEnds(t)

Next ==
    \/ \E t \in Tx : Begin(t) \/ Expire(t)
    \/ \E t \in begun : Unauthorized(t) \/ (\E x \in Calls : Acquire(t, x)) \/ Work(t)
    \/ \E s \in Posts : PostProjections(s)
    \/ \E K \in SUBSET Key : DeleteProjections(K)

Spec == Init /\ [][Next]_vars

-----------------------------------------------------------------------------
Maps(range) == UNION {[K -> range] : K \in SUBSET Key}

Transaction == [open : BOOLEAN, reads : 0..MaxReadsPerTx, events : 0..MaxEventsPerTx,
                projections : Maps(State), written : 0..MaxProjectionsPerTx]

TypeOK ==
    /\ stored \in [Key -> Rows]
    /\ lastVersion \in 0..MaxVersion
    /\ txs \subseteq begun /\ begun \subseteq Tx /\ over \subseteq begun
    /\ tx \in [Tx -> Transaction]
    /\ call \in [Tx -> Calls \cup {NoCall}]
    /\ \A t \in Tx : call[t] # NoCall => t \in txs
    /\ base \in [Tx -> Maps(Rows)]
    /\ told \in [Tx -> Maps(Payload \cup {NoPayload})]
    /\ lost \subseteq Items(0..MaxVersion)

(***************************************************************************)
(* http-api.md: "Any error ends the transaction, except 404                *)
(* ProjectionNotFound and 409 TransactionBusy"; api/tx.go keeps to it for  *)
(* an error found before the transaction is reached.  So a client that got *)
(* an error, or the answer to a commit, knows that its transaction holds   *)
(* nothing any more, whatever its other calls do.  An id is never given    *)
(* out again, so that stays so.  A request without the token is not one on *)
(* a transaction.                                                          *)
(***************************************************************************)
ErrorsEnd == over \cap txs = {}

(***************************************************************************)
(* tx.netProjections: the one operation a commit makes of all a            *)
(* transaction did to a projection does what the writes the client was     *)
(* told of do one after the other, and the transaction reads what they     *)
(* left.  It is written if every projection it changes is still the one    *)
(* the transaction first took, and refused if not.  A projection absent at *)
(* both ends is left alone, and not looked at.                             *)
(***************************************************************************)
NetIsSequence ==
    \A t \in txs :
        LET p       == tx[t].projections
            w       == NetProjections(p)
            changed == {k \in DOMAIN p : p[k].written}
            net     == {k \in changed : base[t][k] # Absent \/ told[t][k] # NoPayload}
        IN  /\ DOMAIN base[t] = DOMAIN p /\ DOMAIN told[t] = DOMAIN p
            /\ \A k \in DOMAIN p : told[t][k] = IF p[k].found THEN p[k].payload ELSE NoPayload
            /\ tx[t].written = Cardinality(changed)
            /\ Holds(w, stored) <=> \A k \in net : stored[k] = base[t][k]
            /\ \A k \in Key :
                   Written(w, stored, lastVersion + 1)[k].payload =
                       IF k \in net THEN told[t][k] ELSE stored[k].payload

(***************************************************************************)
(* store.writeProjections: a write of POST /projections that replaced or   *)
(* deleted anything is never applied twice.  Sent again as is after its    *)
(* response was lost, it is refused for ever, whatever transactions and    *)
(* other clients create, replace and delete meanwhile: no version comes    *)
(* back.  Writes that only create are NeverAppliedTwice's.                 *)
(***************************************************************************)
AppliedOnce ==
    (\E i \in lost : i.op # "create") => ~Holds(lost, stored)

(***************************************************************************)
(* http-api.md:350: "A write whose response is lost can be sent again as   *)
(* is: it's never applied twice", of every POST /projections.              *)
(***************************************************************************)
NeverAppliedTwice == lost # {} => ~Holds(lost, stored)
=============================================================================
