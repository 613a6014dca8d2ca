---------------------------- MODULE CallsProofs ----------------------------
(***************************************************************************)
(* Theorems about Calls, for any transactions, projections, payloads and   *)
(* limits.                                                                 *)
(*                                                                         *)
(* Versions only grow, so a row of an old version never comes back: a      *)
(* projection with the version a transaction read is the one it read, and  *)
(* what a write replaced is not there to be replaced again.                *)
(***************************************************************************)
EXTENDS Calls, FiniteSetTheorems, TLAPS

Changed(p) == {k \in DOMAIN p : p[k].written}

\* What a transaction holds of a projection, beside what it first took and
\* what its client was told.
Tracks(t, k) ==
    LET s == tx[t].projections[k]
        b == base[t][k]
    IN  /\ s.read = b.version /\ b.version <= lastVersion
        /\ IF s.found THEN s.payload \in Payload ELSE s.payload = NoPayload
        /\ told[t][k] = IF s.found THEN s.payload ELSE NoPayload
        /\ stored[k].version = b.version => stored[k] = b

Own(t) ==
    LET p == tx[t].projections
    IN  /\ DOMAIN base[t] = DOMAIN p /\ DOMAIN told[t] = DOMAIN p
        /\ IsFiniteSet(DOMAIN p)
        /\ tx[t].written = Cardinality(Changed(p))
        /\ tx[t].open => tx[t].reads < MaxReadsPerTx
        /\ \A k \in DOMAIN p : Tracks(t, k)

VersionsGrow == \A k \in Key : stored[k].version <= lastVersion

LostIsPast ==
    \A i \in lost : i.op # "create" =>
        /\ i.key \in Key /\ i.version <= lastVersion
        /\ stored[i.key] = Absent \/ stored[i.key].version > i.version

IInv ==
    /\ TypeOK
    /\ ErrorsEnd
    /\ VersionsGrow
    /\ LostIsPast
    /\ \A t \in Tx : Own(t)

\* A write, a delete, or nothing: each row stays, goes, or gets a new version.
StoreMoves ==
    /\ stored' \in [Key -> Rows]
    /\ lastVersion' \in 0..MaxVersion /\ lastVersion' >= lastVersion
    /\ \A k \in Key : \/ stored'[k] = stored[k]
                      \/ stored'[k] = Absent
                      \/ stored'[k].version > lastVersion /\ stored'[k].version <= lastVersion'

\* An item the code may write.
Good(i) ==
    /\ i.op \in {"create", "replace", "delete"}
    /\ i.key \in Key
    /\ i.op # "delete" => i.payload \in Payload
    /\ i.op = "delete" => i.payload = NoPayload

-----------------------------------------------------------------------------
(* Items, rows and writes *)

LEMMA RowFacts ==
    /\ Absent \in Rows /\ Absent.version = 0 /\ Absent.payload = NoPayload
    /\ \A r \in Rows : r.version \in 0..MaxVersion
    /\ \A r \in Rows : r.version = 0 => r = Absent
    /\ \A r \in Rows : r # Absent => r.payload \in Payload
    /\ \A r \in Rows : r.payload \in Payload \cup {NoPayload}
BY CallsAssumption DEF Rows, Absent, NoVersion

LEMMA GoodItems ==
    ASSUME NEW s, NEW V,
           s \in Lists(V),
           ValidateTxProjections(s) = "OK" \/ ValidateWriteProjections(s) = "OK"
    PROVE  /\ \A n \in DOMAIN s : Good(s[n]) /\ s[n] \in Items(V)
           /\ IsFiniteSet(DOMAIN s)
<1>1. PICK n \in 0..MaxItems : s \in [1..n -> Items(V)]
    BY DEF Lists
<1>2. n \in Nat /\ DOMAIN s = 1..n
    BY <1>1, CallsAssumption
<1>3. IsFiniteSet(DOMAIN s)
    BY <1>2, FS_Interval
<1>4. PICK invalid : /\ FirstFault(s, invalid) = "OK"
                     /\ \E versioned \in BOOLEAN :
                            \A m \in DOMAIN s : m \notin invalid => Valid(s[m], versioned)
  <2>1. CASE ValidateTxProjections(s) = "OK"
    BY <2>1 DEF ValidateTxProjections
  <2>2. CASE ValidateWriteProjections(s) = "OK"
    <3>1. ~(Len(s) > MaxProjectionsPerWrite)
        BY <2>2 DEF ValidateWriteProjections
    <3> QED
        BY <2>2, <3>1 DEF ValidateWriteProjections
  <2> QED
    BY <2>1, <2>2
<1>5. invalid \cup {m \in DOMAIN s : OverSize(s[m])} = {}
    BY <1>4 DEF FirstFault
<1>6. ASSUME NEW m \in DOMAIN s
      PROVE  Good(s[m]) /\ s[m] \in Items(V)
  <2>1. s[m] \in Items(V)
    BY <1>1, <1>2, <1>6
  <2>2. s[m].key # BadKey /\ (s[m].op # "delete" => s[m].payload # NoPayload)
    BY <1>4, <1>5 DEF Valid
  <2>3. s[m].payload # BigPayload
    BY <1>5 DEF OverSize
  <2> QED
    BY <2>1, <2>2, <2>3 DEF Items, Good
<1> QED
    BY <1>3, <1>6

LEMMA WriteMoves ==
    ASSUME TypeOK, VersionsGrow, NEW w, \A i \in w : Good(i), Write(w)
    PROVE  /\ StoreMoves
           /\ \A i \in w : stored'[i.key] = Absent \/ stored'[i.key].version > lastVersion
<1> DEFINE v == lastVersion + 1
<1>1. lastVersion \in Nat /\ MaxVersion \in Nat /\ stored \in [Key -> Rows]
    BY CallsAssumption DEF TypeOK
<1>2. lastVersion' \in 0..MaxVersion /\ lastVersion' >= lastVersion
      /\ (Versioned(w) => lastVersion' = v /\ v \in 1..MaxVersion)
    BY <1>1 DEF Write, TypeOK
<1>3. ASSUME NEW k \in Key
      PROVE  /\ stored'[k] \in Rows
             /\ \/ stored'[k] = stored[k] /\ ~\E i \in w : i.key = k
                \/ stored'[k] = Absent
                \/ stored'[k].version = v /\ lastVersion' = v
  <2>1. stored'[k] = IF \E i \in w : i.key = k THEN Row(CHOOSE i \in w : i.key = k, v) ELSE stored[k]
    BY DEF Write, Written
  <2>2. CASE ~\E i \in w : i.key = k
    BY <1>1, <2>1, <2>2
  <2>3. CASE \E i \in w : i.key = k
    <3> DEFINE i == CHOOSE i \in w : i.key = k
    <3>1. i \in w /\ Good(i)
        BY <2>3
    <3> HIDE DEF i
    <3>2. stored'[k] = Row(i, v)
        BY <2>1, <2>3 DEF i
    <3>3. CASE i.op = "delete"
        BY <3>2, <3>3, RowFacts DEF Row
    <3>4. CASE i.op # "delete"
      <4>1. Versioned(w)
        BY <3>1, <3>4 DEF Versioned
      <4>2. stored'[k] = [version |-> v, payload |-> i.payload]
        BY <3>2, <3>4 DEF Row
      <4>3. i.payload \in Payload
        BY <3>1, <3>4 DEF Good
      <4> QED
        BY <1>2, <4>1, <4>2, <4>3 DEF Rows
    <3> QED
        BY <3>3, <3>4
  <2> QED
    BY <2>2, <2>3
<1>4. stored' = [k \in Key |-> stored'[k]]
    BY DEF Write, Written
<1>5. stored' \in [Key -> Rows]
    BY <1>3, <1>4
<1>6. StoreMoves
    BY <1>1, <1>2, <1>3, <1>5 DEF StoreMoves
<1>7. ASSUME NEW i \in w
      PROVE  stored'[i.key] = Absent \/ stored'[i.key].version > lastVersion
  <2>1. i.key \in Key
    BY DEF Good
  <2> QED
    BY <1>1, <1>3, <2>1
<1> QED
    BY <1>6, <1>7

LEMMA StillMoves == ASSUME TypeOK, UNCHANGED <<stored, lastVersion>> PROVE StoreMoves
BY CallsAssumption DEF TypeOK, StoreMoves

\* What a write, a delete or nothing leaves true.
LEMMA MovesKeep ==
    ASSUME IInv, StoreMoves
    PROVE  /\ VersionsGrow'
           /\ lost' = lost => LostIsPast'
           /\ \A t \in Tx : UNCHANGED <<tx[t], base[t], told[t]>> => Own(t)'
<1> USE DEF IInv
<1>1. lastVersion \in Nat /\ lastVersion' \in Nat /\ lastVersion' >= lastVersion
      /\ stored \in [Key -> Rows] /\ stored' \in [Key -> Rows]
    BY CallsAssumption DEF TypeOK, StoreMoves
<1>2. ASSUME NEW k \in Key
      PROVE  /\ stored[k] \in Rows /\ stored'[k] \in Rows
             /\ stored[k].version \in Nat /\ stored'[k].version \in Nat
             /\ stored[k].version <= lastVersion
    BY <1>1, RowFacts, CallsAssumption DEF VersionsGrow
<1>3. VersionsGrow'
  <2> SUFFICES ASSUME NEW k \in Key PROVE stored'[k].version <= lastVersion'
    BY DEF VersionsGrow
  <2> QED
    BY <1>1, <1>2, RowFacts DEF StoreMoves
<1>4. ASSUME lost' = lost PROVE LostIsPast'
  <2> SUFFICES ASSUME NEW i \in lost, i.op # "create"
               PROVE  /\ i.key \in Key /\ i.version <= lastVersion'
                      /\ stored'[i.key] = Absent \/ stored'[i.key].version > i.version
    BY <1>4 DEF LostIsPast
  <2>1. /\ i.key \in Key /\ i.version <= lastVersion
        /\ stored[i.key] = Absent \/ stored[i.key].version > i.version
    BY DEF LostIsPast
  <2>2. i.version \in Nat
    BY CallsAssumption DEF TypeOK, Items
  <2> QED
    BY <1>1, <1>2, <2>1, <2>2 DEF StoreMoves
<1>5. ASSUME NEW t \in Tx, UNCHANGED <<tx[t], base[t], told[t]>>
      PROVE  Own(t)'
  <2>1. Own(t)
    OBVIOUS
  <2> SUFFICES ASSUME NEW k \in DOMAIN tx[t].projections PROVE Tracks(t, k)'
    BY <1>5, <2>1 DEF Own, Changed
  <2>2. k \in Key /\ base[t][k] \in Rows
    BY <2>1 DEF Own, TypeOK, Transaction, Maps
  <2>3. Tracks(t, k)
    BY <2>1 DEF Own
  <2>4. base[t][k].version \in Nat
    BY <2>2, RowFacts, CallsAssumption
  <2>5. stored'[k].version = base[t][k].version => stored'[k] = base[t][k]
    BY <1>1, <1>2, <2>2, <2>3, <2>4, RowFacts DEF Tracks, StoreMoves
  <2> QED
    BY <1>1, <1>5, <2>3, <2>4, <2>5 DEF Tracks
<1> QED
    BY <1>3, <1>4, <1>5

-----------------------------------------------------------------------------
(* Maps *)

LEMMA MapSet ==
    ASSUME NEW R, NEW f \in Maps(R), NEW k \in Key, NEW v \in R
    PROVE  /\ Set(f, k, v) \in Maps(R)
           /\ DOMAIN Set(f, k, v) = DOMAIN f \cup {k}
           /\ Set(f, k, v)[k] = v
<1>1. PICK K \in SUBSET Key : f \in [K -> R]
    BY DEF Maps
<1>2. Set(f, k, v) \in [K \cup {k} -> R]
    BY <1>1 DEF Set
<1>3. Set(f, k, v) \in Maps(R)
    BY <1>2 DEF Maps
<1> QED
    BY <1>3 DEF Set

LEMMA NothingMapped ==
    /\ \A R : <<>> \in Maps(R)
    /\ DOMAIN <<>> = {}
<1>1. DOMAIN <<>> = {}
    OBVIOUS
<1>2. ASSUME NEW R PROVE <<>> \in [{} -> R]
    OBVIOUS
<1> QED
    BY <1>1, <1>2 DEF Maps

LEMMA NewIsTransaction ==
    /\ NewTransaction \in Transaction
    /\ NewTransaction.projections = <<>> /\ ~NewTransaction.open /\ NewTransaction.written = 0
BY NothingMapped, CallsAssumption DEF NewTransaction, Transaction

-----------------------------------------------------------------------------
(* What the ends of calls leave true *)

LEMMA OneChanges ==
    ASSUME IInv, StoreMoves, NEW t \in Tx, TypeOK', ErrorsEnd', LostIsPast', Own(t)',
           \A u \in Tx \ {t} : UNCHANGED <<tx[u], base[u], told[u]>>
    PROVE  IInv'
<1>1. VersionsGrow' /\ \A u \in Tx \ {t} : Own(u)'
    BY MovesKeep
<1> QED
    BY <1>1 DEF IInv

LEMMA ForgottenOwns ==
    ASSUME TypeOK, NEW t \in Tx, Forget(t)
    PROVE  /\ Own(t)'
           /\ tx' \in [Tx -> Transaction]
           /\ base' \in [Tx -> Maps(Rows)] /\ told' \in [Tx -> Maps(Payload \cup {NoPayload})]
           /\ \A u \in Tx \ {t} : UNCHANGED <<tx[u], base[u], told[u]>>
<1>1. tx'[t] = NewTransaction /\ base'[t] = <<>> /\ told'[t] = <<>>
    BY DEF TypeOK, Forget
<1>2. Changed(<<>>) = {} /\ IsFiniteSet({}) /\ Cardinality({}) = 0
    BY NothingMapped, FS_EmptySet DEF Changed
<1>3. Own(t)'
    BY <1>1, <1>2, NothingMapped, NewIsTransaction DEF Own
<1> QED
    BY <1>3, NothingMapped, NewIsTransaction DEF TypeOK, Forget

LEMMA EndKeeps ==
    ASSUME IInv, StoreMoves, NEW t \in Tx, NEW code, End(t, code), t \in txs, lost' = lost
    PROVE  IInv'
<1> USE DEF IInv
<1>1. Forget(t) /\ txs' = txs \ {t} /\ begun' = begun /\ over' \subseteq over \cup {t}
      /\ call' = [call EXCEPT ![t] = NoCall]
    BY DEF End, Forget, Answer
<1>2. /\ Own(t)'
      /\ tx' \in [Tx -> Transaction]
      /\ base' \in [Tx -> Maps(Rows)] /\ told' \in [Tx -> Maps(Payload \cup {NoPayload})]
      /\ \A u \in Tx \ {t} : UNCHANGED <<tx[u], base[u], told[u]>>
    BY <1>1, ForgottenOwns
<1>3. call' \in [Tx -> Calls \cup {NoCall}] /\ \A u \in Tx : call'[u] # NoCall => u \in txs'
    BY <1>1 DEF TypeOK
<1>4. TypeOK'
    BY <1>1, <1>2, <1>3 DEF TypeOK, StoreMoves
<1>5. ErrorsEnd'
    BY <1>1 DEF ErrorsEnd
<1>6. LostIsPast'
    BY MovesKeep
<1> QED
    BY <1>2, <1>4, <1>5, <1>6, OneChanges

LEMMA FailsKeeps ==
    ASSUME IInv, NEW t \in Tx, NEW code, Fails(t, code), t \in txs
    PROVE  IInv'
<1>1. End(t, code) /\ lost' = lost /\ UNCHANGED <<stored, lastVersion>>
    BY DEF Fails
<1>2. StoreMoves
    BY <1>1, StillMoves DEF IInv
<1> QED
    BY <1>1, <1>2, EndKeeps

LEMMA ReleaseKeeps ==
    ASSUME IInv, NEW t \in Tx, NEW code, NEW new \in Transaction, Release(t, code, new), t \in txs,
           NEW b \in Maps(Rows), NEW d \in Maps(Payload \cup {NoPayload}),
           base' = [base EXCEPT ![t] = b], told' = [told EXCEPT ![t] = d],
           code \in {"OK", "ProjectionNotFound"}, call[t].do \notin {"commit", "abandon"},
           UNCHANGED <<stored, lastVersion, lost>>, Own(t)'
    PROVE  IInv'
<1> USE DEF IInv
<1>1. over' = over
    BY DEF Release, Answer, Final
<1>2. call' = [call EXCEPT ![t] = NoCall] /\ tx' = [tx EXCEPT ![t] = new]
      /\ txs' = txs /\ begun' = begun
    BY DEF Release
<1>3. TypeOK'
    BY <1>1, <1>2 DEF TypeOK
<1>4. StoreMoves
    BY StillMoves
<1>5. LostIsPast'
    BY <1>4, MovesKeep
<1>6. \A u \in Tx \ {t} : UNCHANGED <<tx[u], base[u], told[u]>>
    BY <1>2 DEF TypeOK
<1> QED
    BY <1>1, <1>2, <1>3, <1>4, <1>5, <1>6, OneChanges DEF ErrorsEnd

\* A release that leaves the projections of its transaction alone.
LEMMA ReleaseSame ==
    ASSUME IInv, NEW t \in Tx, NEW code, NEW new \in Transaction, Release(t, code, new), t \in txs,
           new.projections = tx[t].projections, new.written = tx[t].written,
           new.open => new.reads < MaxReadsPerTx,
           code \in {"OK", "ProjectionNotFound"}, call[t].do \notin {"commit", "abandon"},
           UNCHANGED <<stored, lastVersion, base, told, lost>>
    PROVE  IInv'
<1> USE DEF IInv
<1>1. /\ base[t] \in Maps(Rows) /\ told[t] \in Maps(Payload \cup {NoPayload})
      /\ base' = [base EXCEPT ![t] = base[t]] /\ told' = [told EXCEPT ![t] = told[t]]
    BY DEF TypeOK
<1>2. tx'[t] = new
    BY DEF Release, TypeOK
<1>3. Own(t)'
    BY <1>2 DEF Own, Tracks
<1> QED
    BY <1>1, <1>3, ReleaseKeeps

-----------------------------------------------------------------------------
(* Each step *)

LEMMA BeginKeeps == ASSUME IInv, NEW t \in Tx, Begin(t) PROVE IInv'
<1> USE DEF IInv
<1>1. TypeOK' /\ UNCHANGED <<stored, lastVersion, lost, tx, base, told>>
    BY DEF Begin, history, TypeOK
<1>2. ErrorsEnd'
    BY DEF Begin, history, ErrorsEnd, TypeOK
<1>3. StoreMoves
    BY <1>1, StillMoves
<1>4. VersionsGrow' /\ LostIsPast' /\ \A u \in Tx : Own(u)'
    BY <1>1, <1>3, MovesKeep
<1> QED
    BY <1>1, <1>2, <1>4

LEMMA ExpireKeeps == ASSUME IInv, NEW t \in Tx, Expire(t) PROVE IInv'
<1> USE DEF IInv
<1>1. Forget(t) /\ UNCHANGED <<stored, lastVersion, begun, call, over, lost>>
      /\ call[t] = NoCall /\ txs' = txs \ {t}
    BY DEF Expire, busy, Forget
<1>2. StoreMoves
    BY <1>1, StillMoves
<1>3. /\ Own(t)'
      /\ tx' \in [Tx -> Transaction]
      /\ base' \in [Tx -> Maps(Rows)] /\ told' \in [Tx -> Maps(Payload \cup {NoPayload})]
      /\ \A u \in Tx \ {t} : UNCHANGED <<tx[u], base[u], told[u]>>
    BY <1>1, ForgottenOwns
<1>4. TypeOK'
    BY <1>1, <1>3 DEF TypeOK
<1>5. ErrorsEnd'
    BY <1>1 DEF ErrorsEnd
<1>6. LostIsPast'
    BY <1>1, <1>2, MovesKeep
<1> QED
    BY <1>2, <1>3, <1>4, <1>5, <1>6, OneChanges

LEMMA UnauthorizedKeeps == ASSUME IInv, NEW t \in Tx, Unauthorized(t) PROVE IInv'
<1> USE DEF IInv
<1>1. UNCHANGED <<stored, lastVersion, lost, tx, base, told, txs, begun, call, over>>
    BY DEF Unauthorized, registry, Answer, Final
<1>2. StoreMoves
    BY <1>1, StillMoves
<1>3. VersionsGrow' /\ LostIsPast' /\ \A u \in Tx : Own(u)'
    BY <1>1, <1>2, MovesKeep
<1> QED
    BY <1>1, <1>3 DEF TypeOK, ErrorsEnd

LEMMA StutterKeeps == ASSUME IInv, UNCHANGED vars PROVE IInv'
<1> USE DEF IInv
<1>1. UNCHANGED <<stored, lastVersion, lost, tx, base, told, txs, begun, call, over>>
    BY DEF vars, registry, history
<1>2. StoreMoves
    BY <1>1, StillMoves
<1>3. VersionsGrow' /\ LostIsPast' /\ \A u \in Tx : Own(u)'
    BY <1>1, <1>2, MovesKeep
<1> QED
    BY <1>1, <1>3 DEF TypeOK, ErrorsEnd

LEMMA AcquireKeeps == ASSUME IInv, NEW t \in begun, NEW x \in Calls, Acquire(t, x) PROVE IInv'
<1> USE DEF IInv
<1>1. CASE x.check = "gone"
    BY <1>1, StutterKeeps DEF Acquire
<1>2. CASE x.check # "gone"
  <2>1. UNCHANGED <<stored, lastVersion, txs, begun, tx, base, told, lost>> /\ t \in Tx
    BY <1>2 DEF Acquire, TypeOK
  <2>2. StoreMoves
    BY <2>1, StillMoves
  <2>3. VersionsGrow' /\ LostIsPast' /\ \A u \in Tx : Own(u)'
    BY <2>1, <2>2, MovesKeep
  <2>4. CASE t \in txs \ busy
    <3>1. call' = [call EXCEPT ![t] = x] /\ over' = over
        BY <1>2, <2>4 DEF Acquire
    <3> QED
        BY <2>1, <2>3, <2>4, <3>1 DEF TypeOK, ErrorsEnd
  <2>5. CASE t \notin txs \ busy
    <3>1. call' = call /\ Answer(t, x.do, Refusal(t, x))
        BY <1>2, <2>5 DEF Acquire
    <3>2. t \in txs => over' = over
        BY <3>1 DEF Refusal, Answer, Final
    <3>3. over' \subseteq over \cup {t}
        BY <3>1 DEF Answer
    <3> QED
        BY <2>1, <2>3, <3>1, <3>2, <3>3 DEF TypeOK, ErrorsEnd
  <2> QED
    BY <2>4, <2>5
<1> QED
    BY <1>1, <1>2

LEMMA RejectKeeps == ASSUME IInv, NEW t \in Tx, Reject(t) PROVE IInv'
BY FailsKeeps DEF Reject, Works

LEMMA AbandonKeeps == ASSUME IInv, NEW t \in Tx, AbandonEnds(t) PROVE IInv'
BY FailsKeeps DEF AbandonEnds, Works

LEMMA ReadEventsKeeps == ASSUME IInv, NEW t \in Tx, ReadEvents(t) PROVE IInv'
<1> USE DEF IInv
<1>1. t \in txs /\ call[t].do = "readEvents"
    BY DEF ReadEvents, Works
<1>2. CASE Fails(t, "InvalidRequest") \/ Fails(t, "InternalError")
    BY <1>1, <1>2, FailsKeeps
<1>3. CASE /\ ~tx[t].open /\ tx[t].reads + 1 <= MaxReadsPerTx
           /\ Release(t, "OK", [tx[t] EXCEPT !.open = TRUE])
           /\ UNCHANGED <<stored, lastVersion, base, told, lost>>
  <2> DEFINE new == [tx[t] EXCEPT !.open = TRUE]
  <2>1. /\ new \in Transaction /\ new.projections = tx[t].projections
        /\ new.written = tx[t].written /\ new.reads = tx[t].reads
    BY DEF TypeOK, Transaction
  <2>2. tx[t].reads < MaxReadsPerTx
    BY <1>3, CallsAssumption DEF TypeOK, Transaction
  <2> QED
    BY <1>1, <1>3, <2>1, <2>2, ReleaseSame
<1> QED
    BY <1>2, <1>3 DEF ReadEvents

LEMMA WriteEventsKeeps == ASSUME IInv, NEW t \in Tx, WriteEvents(t) PROVE IInv'
<1> USE DEF IInv
<1>1. t \in txs /\ call[t].do = "writeEvents"
    BY DEF WriteEvents, Works
<1>2. PICK x \in Accepted("writeEvents") :
          IF tx[t].open /\ tx[t].events + x.events <= MaxEventsPerTx
          THEN /\ Release(t, "OK", [tx[t] EXCEPT !.open = FALSE, !.events = @ + x.events,
                                                 !.reads = @ + 1])
               /\ UNCHANGED <<stored, lastVersion, base, told, lost>>
          ELSE Fails(t, "InvalidRequest")
    BY DEF WriteEvents
<1>3. x.events \in 0..1
    BY DEF Accepted, Whole
<1>4. CASE tx[t].open /\ tx[t].events + x.events <= MaxEventsPerTx
  <2> DEFINE new == [tx[t] EXCEPT !.open = FALSE, !.events = @ + x.events, !.reads = @ + 1]
  <2>1. tx[t] \in Transaction /\ tx[t].reads < MaxReadsPerTx
    BY <1>4 DEF TypeOK, Own
  <2>2. /\ new \in Transaction /\ new.projections = tx[t].projections
        /\ new.written = tx[t].written /\ new.open = FALSE
    <3>1. tx[t].reads + 1 \in 0..MaxReadsPerTx /\ tx[t].events + x.events \in 0..MaxEventsPerTx
        BY <1>3, <1>4, <2>1, CallsAssumption DEF Transaction
    <3> QED
        BY <2>1, <3>1 DEF Transaction
  <2>3. Release(t, "OK", new) /\ UNCHANGED <<stored, lastVersion, base, told, lost>>
    BY <1>2, <1>4
  <2> HIDE DEF new
  <2> QED
    BY <1>1, <2>2, <2>3, ReleaseSame
<1>5. CASE ~(tx[t].open /\ tx[t].events + x.events <= MaxEventsPerTx)
    BY <1>1, <1>2, <1>5, FailsKeeps
<1> QED
    BY <1>4, <1>5

LEMMA DeleteProjectionsKeeps ==
    ASSUME IInv, NEW K \in SUBSET Key, DeleteProjections(K) PROVE IInv'
<1> USE DEF IInv
<1>1. UNCHANGED <<lastVersion, lost, tx, base, told, txs, begun, call, over>>
    BY DEF DeleteProjections, registry, history
<1>2. StoreMoves
    BY <1>1, RowFacts, CallsAssumption DEF DeleteProjections, StoreMoves, TypeOK
<1>3. VersionsGrow' /\ LostIsPast' /\ \A u \in Tx : Own(u)'
    BY <1>1, <1>2, MovesKeep
<1> QED
    BY <1>1, <1>2, <1>3 DEF TypeOK, ErrorsEnd, StoreMoves

LEMMA PostProjectionsKeeps == ASSUME IInv, NEW s \in Posts, PostProjections(s) PROVE IInv'
<1> USE DEF IInv
<1> DEFINE w == {s[n] : n \in DOMAIN s}
<1>1. \A i \in w : Good(i) /\ i \in Items(0..MaxVersion)
    BY GoodItems DEF Posts
<1>2. /\ UNCHANGED <<tx, base, told, txs, begun, call, over>> /\ Write(w) /\ lost' \in {lost, w}
      /\ \A i \in w : i.version <= lastVersion
    BY DEF PostProjections, registry
<1>3. StoreMoves /\ \A i \in w : stored'[i.key] = Absent \/ stored'[i.key].version > lastVersion
    BY <1>1, <1>2, WriteMoves
<1>4. VersionsGrow' /\ \A u \in Tx : Own(u)'
    BY <1>2, <1>3, MovesKeep
<1>5. LostIsPast'
  <2>1. CASE lost' = lost
    BY <1>3, <2>1, MovesKeep
  <2>2. CASE lost' = w
    <3> SUFFICES ASSUME NEW i \in w, i.op # "create"
                 PROVE  /\ i.key \in Key /\ i.version <= lastVersion'
                        /\ stored'[i.key] = Absent \/ stored'[i.key].version > i.version
        BY <2>2 DEF LostIsPast
    <3>1. i.key \in Key /\ i.version \in Nat
        BY <1>1, CallsAssumption DEF Good, Items, NoVersion
    <3>2. lastVersion \in Nat /\ lastVersion' \in Nat /\ lastVersion' >= lastVersion
        BY <1>3, CallsAssumption DEF TypeOK, StoreMoves
    <3>3. stored'[i.key].version \in Nat
        BY <1>3, <3>1, RowFacts, CallsAssumption DEF StoreMoves
    <3> QED
        BY <1>2, <1>3, <3>1, <3>2, <3>3
  <2> QED
    BY <1>2, <2>1, <2>2
<1>6. TypeOK'
    BY <1>1, <1>2, <1>3 DEF TypeOK, StoreMoves
<1> QED
    BY <1>2, <1>4, <1>5, <1>6 DEF ErrorsEnd

LEMMA GetProjectionKeeps == ASSUME IInv, NEW t \in Tx, GetProjection(t) PROVE IInv'
<1> USE DEF IInv
<1> DEFINE p == tx[t].projections
<1>1. t \in txs /\ call[t].do = "getProjection"
    BY DEF GetProjection, Works
<1>2. PICK x \in Accepted("getProjection") :
          LET k == x.key IN
              \/ /\ k \in DOMAIN p
                 /\ Release(t, IF p[k].found THEN "OK" ELSE "ProjectionNotFound", tx[t])
                 /\ UNCHANGED <<stored, lastVersion, base, told, lost>>
              \/ /\ k \notin DOMAIN p
                 /\ Release(t, IF stored[k] # Absent THEN "OK" ELSE "ProjectionNotFound",
                            [tx[t] EXCEPT !.projections = Set(p, k, Fetched(stored[k]))])
                 /\ base' = [base EXCEPT ![t] = Set(@, k, stored[k])]
                 /\ told' = [told EXCEPT ![t] = Set(@, k, stored[k].payload)]
                 /\ UNCHANGED <<stored, lastVersion, lost>>
              \/ k \notin DOMAIN p /\ Fails(t, "InternalError")
    BY DEF GetProjection
<1> DEFINE k == x.key
<1>3. k \in Key
    BY DEF Accepted, Whole
<1>4. tx[t] \in Transaction /\ p \in Maps(State) /\ Own(t) /\ stored[k] \in Rows
      /\ base[t] \in Maps(Rows) /\ told[t] \in Maps(Payload \cup {NoPayload})
    BY <1>3 DEF TypeOK, Transaction
<1> HIDE DEF k
<1>5. CASE /\ k \in DOMAIN p
           /\ Release(t, IF p[k].found THEN "OK" ELSE "ProjectionNotFound", tx[t])
           /\ UNCHANGED <<stored, lastVersion, base, told, lost>>
  <2>1. tx[t].open => tx[t].reads < MaxReadsPerTx
    BY <1>4 DEF Own
  <2> QED
    BY <1>1, <1>4, <1>5, <2>1, ReleaseSame
<1>6. CASE k \notin DOMAIN p /\ Fails(t, "InternalError")
    BY <1>1, <1>6, FailsKeeps
<1>7. CASE /\ k \notin DOMAIN p
           /\ Release(t, IF stored[k] # Absent THEN "OK" ELSE "ProjectionNotFound",
                      [tx[t] EXCEPT !.projections = Set(p, k, Fetched(stored[k]))])
           /\ base' = [base EXCEPT ![t] = Set(@, k, stored[k])]
           /\ told' = [told EXCEPT ![t] = Set(@, k, stored[k].payload)]
           /\ UNCHANGED <<stored, lastVersion, lost>>
  <2> DEFINE f   == Fetched(stored[k])
             q   == Set(p, k, f)
             b   == Set(base[t], k, stored[k])
             d   == Set(told[t], k, stored[k].payload)
             new == [tx[t] EXCEPT !.projections = q]
  <2>1. /\ f \in State /\ f.read = stored[k].version /\ f.found = (stored[k] # Absent)
        /\ f.payload = stored[k].payload /\ f.written = FALSE
    BY <1>4, RowFacts DEF Fetched, State
  <2>2. stored[k].payload \in Payload \cup {NoPayload}
    BY <1>4, RowFacts
  <2> HIDE DEF f
  <2>3. /\ q \in Maps(State) /\ DOMAIN q = DOMAIN p \cup {k} /\ q[k] = f
        /\ \A j \in DOMAIN p \ {k} : q[j] = p[j]
    <3>1. p \in Maps(State) /\ f \in State
        BY <1>4, <2>1
    <3>2. q \in Maps(State)
        BY <1>3, <3>1, MapSet
    <3> HIDE DEF p
    <3> QED
        BY <3>2 DEF Set
  <2>4. /\ b \in Maps(Rows) /\ DOMAIN b = DOMAIN base[t] \cup {k} /\ b[k] = stored[k]
        /\ \A j \in DOMAIN base[t] \ {k} : b[j] = base[t][j]
    <3>1. b \in Maps(Rows)
        BY <1>3, <1>4, MapSet
    <3> QED
        BY <3>1 DEF Set
  <2>5. /\ d \in Maps(Payload \cup {NoPayload}) /\ DOMAIN d = DOMAIN told[t] \cup {k}
        /\ d[k] = stored[k].payload
        /\ \A j \in DOMAIN told[t] \ {k} : d[j] = told[t][j]
    <3>1. d \in Maps(Payload \cup {NoPayload})
        BY <1>3, <1>4, <2>2, MapSet
    <3> QED
        BY <3>1 DEF Set
  <2>6. base' = [base EXCEPT ![t] = b] /\ told' = [told EXCEPT ![t] = d]
    BY <1>7
  <2>7. Release(t, IF stored[k] # Absent THEN "OK" ELSE "ProjectionNotFound", new)
    BY <1>7 DEF f
  <2> HIDE DEF q, b, d
  <2>8. /\ new \in Transaction /\ new.projections = q /\ new.open = tx[t].open
        /\ new.reads = tx[t].reads /\ new.written = tx[t].written
    BY <1>4, <2>3 DEF Transaction
  <2> HIDE DEF new
  <2>9. tx'[t] = new /\ base'[t] = b /\ told'[t] = d
    BY <2>6, <2>7 DEF Release, TypeOK
  <2>10. Own(t)'
    <3>1. DOMAIN base[t] = DOMAIN p /\ DOMAIN told[t] = DOMAIN p
        BY <1>4 DEF Own
    <3>2. DOMAIN b = DOMAIN q /\ DOMAIN d = DOMAIN q
        BY <2>3, <2>4, <2>5, <3>1
    <3>3. IsFiniteSet(DOMAIN q)
      <4>1. IsFiniteSet(DOMAIN p)
        BY <1>4 DEF Own
      <4>2. IsFiniteSet(DOMAIN p \cup {k})
        BY <4>1, FS_AddElement
      <4> QED
        BY <2>3, <4>2
    <3>4. Changed(q) = Changed(p)
        BY <1>7, <2>1, <2>3 DEF Changed
    <3>5. Tracks(t, k)'
      <4>1. stored[k].version <= lastVersion
        BY <1>3 DEF VersionsGrow
      <4>2. stored[k] # Absent => stored[k].payload \in Payload
        BY <1>4, RowFacts
      <4>3. stored[k] = Absent => stored[k].payload = NoPayload
        BY RowFacts
      <4> QED
        BY <1>7, <2>1, <2>3, <2>4, <2>5, <2>8, <2>9, <4>1, <4>2, <4>3 DEF Tracks
    <3>6. ASSUME NEW j \in DOMAIN p \ {k}
          PROVE  Tracks(t, j)'
      <4>1. Tracks(t, j)
        BY <1>4 DEF Own
      <4>2. q[j] = p[j] /\ b[j] = base[t][j] /\ d[j] = told[t][j]
        BY <2>3, <2>4, <2>5, <3>1
      <4> QED
        BY <1>7, <2>8, <2>9, <4>1, <4>2 DEF Tracks
    <3>7. \A j \in DOMAIN q : Tracks(t, j)'
        BY <2>3, <3>5, <3>6
    <3>8. new.written = Cardinality(Changed(q)) /\ (new.open => new.reads < MaxReadsPerTx)
        BY <1>4, <2>8, <3>4 DEF Own
    <3> QED
        BY <2>8, <2>9, <3>2, <3>3, <3>7, <3>8 DEF Own
  <2> QED
    BY <1>1, <1>7, <2>4, <2>5, <2>6, <2>7, <2>8, <2>10, ReleaseKeeps
<1> QED
    BY <1>2, <1>5, <1>6, <1>7 DEF k

-----------------------------------------------------------------------------
(* The writes of a transaction *)

Keys(w) == {i.key : i \in w}

LEMMA KeysFinite ==
    ASSUME NEW s, IsFiniteSet(DOMAIN s)
    PROVE  IsFiniteSet(Keys({s[n] : n \in DOMAIN s}))
<1> DEFINE K == Keys({s[n] : n \in DOMAIN s})
           F == [n \in DOMAIN s |-> s[n].key]
<1>1. K = {s[n].key : n \in DOMAIN s}
    BY DEF Keys
<1>2. F \in [DOMAIN s -> K] /\ \A k \in K : \E n \in DOMAIN s : F[n] = k
    BY <1>1
<1>3. F \in Surjection(DOMAIN s, K)
    BY <1>2 DEF Surjection
<1> QED
    BY <1>3, FS_Surjection

LEMMA PutFacts ==
    ASSUME NEW s \in State, NEW i, Good(i)
    PROVE  /\ Put(s, i) \in State
           /\ Put(s, i).read = s.read /\ Put(s, i).written
           /\ IF Put(s, i).found THEN Put(s, i).payload \in Payload
                                ELSE Put(s, i).payload = NoPayload
           /\ i.payload = IF Put(s, i).found THEN Put(s, i).payload ELSE NoPayload
           /\ i.payload \in Payload \cup {NoPayload}
BY DEF Put, Good, State

LEMMA UnreadFacts == Unread \in State /\ Unread.read = Absent.version
BY RowFacts, CallsAssumption DEF Unread, Fetched, State, Absent

Before(p, k) == IF k \in DOMAIN p THEN p[k] ELSE Unread
Last(w, k)   == CHOOSE i \in w : i.key = k

LEMMA LastFacts ==
    ASSUME NEW w, \A i \in w : Good(i), NEW k \in Keys(w)
    PROVE  Last(w, k) \in w /\ Good(Last(w, k)) /\ k \in Key
BY DEF Keys, Last, Good

LEMMA WroteFacts ==
    ASSUME NEW p \in Maps(State), NEW w, \A i \in w : Good(i)
    PROVE  /\ DOMAIN Wrote(p, w) = DOMAIN p \cup Keys(w)
           /\ DOMAIN Wrote(p, w) \subseteq Key
           /\ Wrote(p, w) \in Maps(State)
           /\ \A k \in DOMAIN p : k \notin Keys(w) => Wrote(p, w)[k] = p[k]
           /\ \A k \in Keys(w) : Wrote(p, w)[k] = Put(Before(p, k), Last(w, k))
<1> DEFINE q == Wrote(p, w)
           D == DOMAIN p \cup Keys(w)
<1>1. q = [k \in D |-> IF k \in Keys(w) THEN Put(Before(p, k), Last(w, k)) ELSE Before(p, k)]
    BY DEF Wrote, Keys, Before, Last
<1>2. DOMAIN p \subseteq Key /\ \A k \in DOMAIN p : p[k] \in State
    BY DEF Maps
<1>3. Keys(w) \subseteq Key
    BY DEF Keys, Good
<1>4. \A k : Before(p, k) \in State
    BY <1>2, UnreadFacts DEF Before
<1>5. \A k \in Keys(w) : Put(Before(p, k), Last(w, k)) \in State
    BY <1>4, LastFacts, PutFacts
<1>6. q \in [D -> State]
    BY <1>1, <1>4, <1>5
<1>7. q \in Maps(State)
    BY <1>2, <1>3, <1>6 DEF Maps
<1> HIDE DEF q
<1>8. DOMAIN q = D /\ D \subseteq Key
    BY <1>1, <1>2, <1>3
<1>9. \A k \in DOMAIN p : k \notin Keys(w) => q[k] = p[k]
    BY <1>1 DEF Before
<1>10. \A k \in Keys(w) : q[k] = Put(Before(p, k), Last(w, k))
    BY <1>1
<1> QED
    BY <1>7, <1>8, <1>9, <1>10 DEF q

LEMMA CountCounts ==
    ASSUME NEW t \in Tx, TypeOK, Own(t), NEW w, \A i \in w : Good(i), IsFiniteSet(Keys(w))
    PROVE  /\ IsFiniteSet(DOMAIN Wrote(tx[t].projections, w))
           /\ Count(t, w) = Cardinality(Changed(Wrote(tx[t].projections, w)))
           /\ Count(t, w) \in Nat
<1> DEFINE p == tx[t].projections
           q == Wrote(p, w)
           C == Changed(p)
           N == Keys(w) \ C
<1>1. p \in Maps(State)
    BY DEF TypeOK, Transaction
<1>2. /\ DOMAIN q = DOMAIN p \cup Keys(w)
      /\ \A k \in DOMAIN p : k \notin Keys(w) => q[k] = p[k]
      /\ \A k \in Keys(w) : q[k] = Put(Before(p, k), Last(w, k))
    BY <1>1, WroteFacts
<1>3. \A k \in Keys(w) : q[k].written
  <2> SUFFICES ASSUME NEW k \in Keys(w) PROVE q[k].written
    OBVIOUS
  <2>1. Before(p, k) \in State
    BY <1>1, UnreadFacts DEF Before, Maps
  <2> QED
    BY <1>2, <2>1, LastFacts, PutFacts
<1>4. IsFiniteSet(DOMAIN p) /\ tx[t].written = Cardinality(C)
    BY DEF Own
<1>5. C \subseteq DOMAIN p
    BY DEF Changed
<1>6. Count(t, w) = tx[t].written + Cardinality(N)
    BY DEF Count, Keys, Changed
<1> HIDE DEF q
<1>7. Changed(q) = C \cup N
    BY <1>2, <1>3 DEF Changed
<1> HIDE DEF C
<1>8. IsFiniteSet(DOMAIN q)
  <2>1. IsFiniteSet(DOMAIN p \cup Keys(w))
    BY <1>4, FS_Union
  <2> QED
    BY <1>2, <2>1
<1>9. IsFiniteSet(C) /\ IsFiniteSet(N)
  <2>1. IsFiniteSet(C)
    BY <1>4, <1>5, FS_Subset
  <2>2. IsFiniteSet(N)
    BY FS_Difference
  <2> QED
    BY <2>1, <2>2
<1>10. C \cap N = {}
    OBVIOUS
<1> HIDE DEF N
<1>11. Cardinality(C) \in Nat /\ Cardinality(N) \in Nat
    BY <1>9, FS_CardinalityType
<1>12. Cardinality(C \cup N) = Cardinality(C) + Cardinality(N) - Cardinality({})
    BY <1>9, <1>10, FS_Union
<1>13. Cardinality({}) = 0
    BY FS_EmptySet
<1> QED
    BY <1>4, <1>6, <1>7, <1>8, <1>11, <1>12, <1>13 DEF q

LEMMA WriteListKeeps ==
    ASSUME IInv, NEW t \in Tx, t \in txs, call[t].do = "writeProjections",
           NEW s, \A n \in DOMAIN s : Good(s[n]), IsFiniteSet(DOMAIN s), WriteList(t, s)
    PROVE  IInv'
<1> USE DEF IInv
<1> DEFINE p == tx[t].projections
           w == {s[n] : n \in DOMAIN s}
           q == Wrote(p, w)
           b == [k \in DOMAIN q |-> IF k \in DOMAIN p THEN base[t][k] ELSE Absent]
           d == [k \in DOMAIN q |-> IF k \in Keys(w) THEN Last(w, k).payload ELSE told[t][k]]
           new == [tx[t] EXCEPT !.projections = q, !.written = Count(t, w)]
<1>1. Own(t) /\ tx[t] \in Transaction /\ p \in Maps(State)
      /\ base[t] \in Maps(Rows) /\ told[t] \in Maps(Payload \cup {NoPayload})
    BY DEF TypeOK, Transaction
<1>2. \A i \in w : Good(i)
    OBVIOUS
<1>3. IsFiniteSet(Keys(w))
    BY KeysFinite
<1>4. CASE Fails(t, "InvalidRequest")
    BY <1>4, FailsKeeps
<1>5. CASE /\ Count(t, w) <= MaxProjectionsPerTx
           /\ Release(t, "OK", new)
           /\ base' = [base EXCEPT ![t] = b]
           /\ told' = [told EXCEPT ![t] = d]
           /\ UNCHANGED <<stored, lastVersion, lost>>
           /\ ~tx[t].open /\ \A i \in w : Allowed(i, p)
  <2> HIDE DEF w
  <2>1. /\ DOMAIN q = DOMAIN p \cup Keys(w) /\ DOMAIN q \subseteq Key
        /\ q \in Maps(State)
        /\ \A k \in DOMAIN p : k \notin Keys(w) => q[k] = p[k]
        /\ \A k \in Keys(w) : q[k] = Put(Before(p, k), Last(w, k))
    BY <1>1, <1>2, WroteFacts
  <2>2. /\ IsFiniteSet(DOMAIN q) /\ Count(t, w) = Cardinality(Changed(q)) /\ Count(t, w) \in Nat
    BY <1>1, <1>2, <1>3, CountCounts
  <2> HIDE DEF q
  <2>3. DOMAIN base[t] = DOMAIN p /\ DOMAIN told[t] = DOMAIN p /\ DOMAIN p \subseteq Key
        /\ \A k \in DOMAIN p : base[t][k] \in Rows /\ told[t][k] \in Payload \cup {NoPayload}
    BY <1>1 DEF Own, Maps
  <2>4. b \in Maps(Rows)
    <3>1. b \in [DOMAIN q -> Rows]
        BY <2>3, RowFacts
    <3> QED
        BY <2>1, <3>1 DEF Maps
  <2>5. d \in Maps(Payload \cup {NoPayload})
    <3>1. ASSUME NEW k \in DOMAIN q PROVE d[k] \in Payload \cup {NoPayload}
      <4>1. CASE k \in Keys(w)
        <5>1. Last(w, k).payload \in Payload \cup {NoPayload}
            BY <1>2, <4>1, LastFacts DEF Good
        <5> QED
            BY <4>1, <5>1
      <4>2. CASE k \notin Keys(w)
        BY <2>1, <2>3, <4>2
      <4> QED
        BY <4>1, <4>2
    <3>2. d \in [DOMAIN q -> Payload \cup {NoPayload}]
        BY <3>1
    <3> QED
        BY <2>1, <3>2 DEF Maps
  <2>6. /\ new \in Transaction /\ new.projections = q /\ new.open = tx[t].open
        /\ new.written = Count(t, w)
    <3>1. Count(t, w) \in 0..MaxProjectionsPerTx
        BY <1>5, <2>2, CallsAssumption
    <3> QED
        BY <1>1, <2>1, <3>1 DEF Transaction
  <2> HIDE DEF new
  <2>7. tx'[t] = new /\ base'[t] = b /\ told'[t] = d
    BY <1>5 DEF Release, TypeOK
  <2>8. ASSUME NEW k \in DOMAIN q
        PROVE  Tracks(t, k)'
    <3>1. k \in Key /\ stored[k] \in Rows
        BY <2>1 DEF TypeOK
    <3>2. CASE k \notin Keys(w)
      <4>1. k \in DOMAIN p /\ q[k] = p[k] /\ b[k] = base[t][k] /\ d[k] = told[t][k]
        BY <2>1, <3>2
      <4>2. Tracks(t, k)
        BY <1>1, <4>1 DEF Own
      <4> QED
        BY <1>5, <2>6, <2>7, <4>1, <4>2 DEF Tracks
    <3>3. CASE k \in Keys(w)
      <4> DEFINE i == Last(w, k)
                 e == Before(p, k)
      <4>1. Good(i) /\ q[k] = Put(e, i) /\ d[k] = i.payload
        BY <1>2, <2>1, <3>3, LastFacts
      <4>2. e \in State
        BY <1>1, UnreadFacts DEF Before, Maps
      <4>3. e.read = b[k].version /\ b[k].version <= lastVersion
            /\ (stored[k].version = b[k].version => stored[k] = b[k])
        <5>1. CASE k \in DOMAIN p
          <6>1. Tracks(t, k) /\ b[k] = base[t][k] /\ e = p[k]
            BY <1>1, <5>1 DEF Own, Before
          <6> QED
            BY <6>1 DEF Tracks
        <5>2. CASE k \notin DOMAIN p
          <6>1. b[k] = Absent /\ e = Unread
            BY <5>2 DEF Before
          <6>2. lastVersion \in Nat
            BY CallsAssumption DEF TypeOK
          <6> QED
            BY <3>1, <6>1, <6>2, RowFacts, UnreadFacts
        <5> QED
            BY <5>1, <5>2
      <4> HIDE DEF i, e, b, d
      <4>4. /\ q[k].read = e.read
            /\ IF q[k].found THEN q[k].payload \in Payload ELSE q[k].payload = NoPayload
            /\ i.payload = IF q[k].found THEN q[k].payload ELSE NoPayload
        BY <4>1, <4>2, PutFacts
      <4> QED
        BY <1>5, <2>6, <2>7, <4>1, <4>3, <4>4 DEF Tracks
    <3> QED
        BY <3>2, <3>3
  <2>9. DOMAIN b = DOMAIN q /\ DOMAIN d = DOMAIN q
    OBVIOUS
  <2> HIDE DEF b, d
  <2>10. Own(t)'
    BY <1>5, <2>2, <2>6, <2>7, <2>8, <2>9 DEF Own
  <2> QED
    BY <1>5, <2>4, <2>5, <2>6, <2>10, ReleaseKeeps
<1>6. \/ Fails(t, "InvalidRequest")
      \/ /\ Count(t, w) <= MaxProjectionsPerTx
         /\ Release(t, "OK", new)
         /\ base' = [base EXCEPT ![t] = b]
         /\ told' = [told EXCEPT ![t] = d]
         /\ UNCHANGED <<stored, lastVersion, lost>>
         /\ ~tx[t].open /\ \A i \in w : Allowed(i, p)
    BY DEF WriteList, Keys, Last
<1> QED
    BY <1>4, <1>5, <1>6

LEMMA WriteProjectionsKeeps == ASSUME IInv, NEW t \in Tx, WriteProjections(t) PROVE IInv'
<1>1. t \in txs /\ call[t].do = "writeProjections"
    BY DEF WriteProjections, Works
<1>2. PICK x \in Accepted("writeProjections") : WriteList(t, x.items)
    BY DEF WriteProjections
<1>3. x.items \in Lists({NoVersion}) /\ ValidateTxProjections(x.items) = "OK"
    BY DEF Accepted, Whole
<1>4. (\A n \in DOMAIN x.items : Good(x.items[n])) /\ IsFiniteSet(DOMAIN x.items)
    BY <1>3, GoodItems
<1> QED
    BY <1>1, <1>2, <1>4, WriteListKeeps

\* What a commit writes: at most one operation on each projection.
LEMMA NetFacts ==
    ASSUME IInv, NEW t \in Tx
    PROVE  \A i \in NetProjections(tx[t].projections) : Good(i)
<1> DEFINE p == tx[t].projections
<1> SUFFICES ASSUME NEW k \in DOMAIN p, p[k].read # NoVersion \/ p[k].found
             PROVE  Good(NetOperation(k, p[k]))
    BY DEF NetProjections
<1>1. k \in Key /\ Tracks(t, k)
    BY DEF IInv, TypeOK, Transaction, Maps, Own
<1>2. p[k] \in State
    BY DEF IInv, TypeOK, Transaction, Maps
<1> QED
    BY <1>1, <1>2 DEF NetOperation, Good, Tracks

LEMMA CommitWritesKeeps == ASSUME IInv, NEW t \in Tx, CommitWrites(t) PROVE IInv'
<1> DEFINE w == NetProjections(tx[t].projections)
<1>1. t \in txs
    BY DEF CommitWrites, Works
<1>2. CASE \E code : Fails(t, code)
    BY <1>1, <1>2, FailsKeeps
<1>3. CASE /\ UNCHANGED <<stored, lastVersion>> \/ Write(w)
           /\ End(t, "OK") /\ lost' = lost
  <2>1. \A i \in w : Good(i)
    BY NetFacts
  <2>2. StoreMoves
    BY <1>3, <2>1, WriteMoves, StillMoves DEF IInv
  <2> QED
    BY <1>1, <1>3, <2>2, EndKeeps
<1> QED
    BY <1>2, <1>3 DEF CommitWrites

LEMMA InitHolds == Init => IInv
<1> SUFFICES ASSUME Init PROVE IInv
    OBVIOUS
<1>1. TypeOK
    BY RowFacts, NothingMapped, NewIsTransaction, CallsAssumption DEF Init, TypeOK
<1>2. ASSUME NEW t \in Tx
      PROVE  Own(t)
  <2>1. tx[t] = NewTransaction /\ base[t] = <<>> /\ told[t] = <<>>
    BY DEF Init
  <2>2. Changed(<<>>) = {} /\ IsFiniteSet({}) /\ Cardinality({}) = 0
    BY NothingMapped, FS_EmptySet DEF Changed
  <2> QED
    BY <2>1, <2>2, NothingMapped, NewIsTransaction DEF Own
<1>3. VersionsGrow
    BY RowFacts DEF Init, VersionsGrow
<1> QED
    BY <1>1, <1>2, <1>3 DEF Init, IInv, ErrorsEnd, LostIsPast

-----------------------------------------------------------------------------
(* The properties, from the invariant *)

LEMMA NetHolds == IInv => NetIsSequence
<1> SUFFICES ASSUME IInv, NEW t \in txs
             PROVE  LET p       == tx[t].projections
                        w       == NetProjections(p)
                        changed == {k \in DOMAIN p : p[k].written}
                        net     == {k \in changed : base[t][k] # Absent \/ told[t][k] # NoPayload}
                    IN  /\ DOMAIN base[t] = DOMAIN p /\ DOMAIN told[t] = DOMAIN p
                        /\ \A k \in DOMAIN p : told[t][k] = IF p[k].found THEN p[k].payload ELSE NoPayload
                        /\ tx[t].written = Cardinality(changed)
                        /\ Holds(w, stored) <=> \A k \in net : stored[k] = base[t][k]
                        /\ \A k \in Key :
                               Written(w, stored, lastVersion + 1)[k].payload =
                                   IF k \in net THEN told[t][k] ELSE stored[k].payload
    BY DEF NetIsSequence
<1> USE DEF IInv
<1> DEFINE p       == tx[t].projections
           w       == NetProjections(p)
           changed == {k \in DOMAIN p : p[k].written}
           net     == {k \in changed : base[t][k] # Absent \/ told[t][k] # NoPayload}
<1>1. t \in Tx /\ Own(t)
    BY DEF TypeOK
<1>2. ASSUME NEW k \in DOMAIN p
      PROVE  /\ Tracks(t, k) /\ k \in Key /\ base[t][k] \in Rows /\ stored[k] \in Rows
             /\ p[k] \in State
    BY <1>1 DEF Own, TypeOK, Transaction, Maps
<1>3. \A k \in DOMAIN p : told[t][k] = IF p[k].found THEN p[k].payload ELSE NoPayload
    BY <1>2 DEF Tracks
<1>4. ASSUME NEW k \in DOMAIN p
      PROVE  /\ base[t][k] # Absent <=> p[k].read # NoVersion
             /\ told[t][k] # NoPayload <=> p[k].found
    BY <1>2, RowFacts, CallsAssumption DEF Tracks, NoVersion
<1>5. net = {k \in DOMAIN p : p[k].written /\ (p[k].read # NoVersion \/ p[k].found)}
    BY <1>4
<1>6. w = {NetOperation(k, p[k]) : k \in net}
    BY <1>5 DEF NetProjections
<1>7. net \subseteq DOMAIN p
    OBVIOUS
<1> HIDE DEF net, w
<1>8. ASSUME NEW k \in net
      PROVE  stored[k] = base[t][k] <=>
                 LET i == NetOperation(k, p[k])
                 IN  IF i.op = "create" THEN stored[i.key] = Absent
                     ELSE stored[i.key].version = i.version /\ stored[i.key] # Absent
  <2>1. k \in DOMAIN p
    BY <1>7
  <2>2. Tracks(t, k) /\ (base[t][k] # Absent <=> p[k].read # NoVersion)
        /\ base[t][k] \in Rows /\ stored[k] \in Rows
    BY <1>2, <1>4, <2>1
  <2>3. CASE p[k].read = NoVersion
    BY <2>2, <2>3 DEF NetOperation
  <2>4. CASE p[k].read # NoVersion
    <3>1. stored[k] = base[t][k] <=> stored[k].version = p[k].read
        BY <2>2 DEF Tracks
    <3>2. stored[k].version = p[k].read => stored[k] # Absent
        BY <2>4, RowFacts DEF NoVersion
    <3> QED
        BY <2>4, <3>1, <3>2 DEF NetOperation
  <2> QED
    BY <2>3, <2>4
<1>9. Holds(w, stored) <=> \A k \in net : stored[k] = base[t][k]
    BY <1>6, <1>8 DEF Holds
<1>10. ASSUME NEW k \in Key
       PROVE  Written(w, stored, lastVersion + 1)[k].payload =
                  IF k \in net THEN told[t][k] ELSE stored[k].payload
  <2>1. \A j \in net : NetOperation(j, p[j]).key = j
    BY DEF NetOperation
  <2>2. CASE k \notin net
    <3>1. ~\E i \in w : i.key = k
        BY <1>6, <2>1, <2>2
    <3> QED
        BY <2>2, <3>1 DEF Written
  <2>3. CASE k \in net
    <3> DEFINE i == CHOOSE i \in w : i.key = k
    <3>1. i \in w /\ i.key = k
        BY <1>6, <2>1, <2>3
    <3>2. Written(w, stored, lastVersion + 1)[k] = Row(i, lastVersion + 1)
        BY <3>1 DEF Written
    <3> HIDE DEF i
    <3>3. i = NetOperation(k, p[k])
        BY <1>6, <2>1, <3>1
    <3>4. k \in DOMAIN p /\ (p[k].read # NoVersion \/ p[k].found) /\ Tracks(t, k)
        BY <1>2, <1>5, <2>3
    <3>5. Row(i, lastVersion + 1).payload = told[t][k]
      <4>1. CASE i.op = "delete"
        BY <3>3, <3>4, <4>1, RowFacts DEF Row, NetOperation, Tracks
      <4>2. CASE i.op # "delete"
        BY <3>3, <3>4, <4>2 DEF Row, NetOperation, Tracks
      <4> QED
        BY <4>1, <4>2
    <3> QED
        BY <2>3, <3>2, <3>5
  <2> QED
    BY <2>2, <2>3
<1>11. tx[t].written = Cardinality(changed) /\ DOMAIN base[t] = DOMAIN p /\ DOMAIN told[t] = DOMAIN p
    BY <1>1 DEF Own, Changed
<1> QED
    BY <1>3, <1>9, <1>10, <1>11 DEF net, w

LEMMA OnceHolds == IInv => AppliedOnce
<1> SUFFICES ASSUME IInv, NEW i \in lost, i.op # "create", Holds(lost, stored)
             PROVE  FALSE
    BY DEF AppliedOnce
<1>1. stored[i.key] # Absent /\ stored[i.key].version = i.version
    BY DEF Holds
<1>2. stored[i.key].version > i.version /\ i.version \in Nat
    BY <1>1, CallsAssumption DEF IInv, LostIsPast, TypeOK, Items
<1> QED
    BY <1>1, <1>2

-----------------------------------------------------------------------------
(* The theorems *)

\* The inductive invariant, from every call, write and delete (packages api and tx).
THEOREM Invariance == Spec => []IInv
<1>1. IInv /\ [Next]_vars => IInv'
  <2> SUFFICES ASSUME IInv, [Next]_vars PROVE IInv'
    OBVIOUS
  <2>1. ASSUME NEW t \in begun, Unauthorized(t) \/ (\E x \in Calls : Acquire(t, x)) \/ Work(t)
        PROVE  IInv'
    <3>1. t \in Tx
        BY DEF IInv, TypeOK
    <3> QED
        BY <2>1, <3>1, UnauthorizedKeeps, AcquireKeeps, RejectKeeps, ReadEventsKeeps, WriteEventsKeeps,
           GetProjectionKeeps, WriteProjectionsKeeps, CommitWritesKeeps, AbandonKeeps DEF Work
  <2> QED
    BY <2>1, BeginKeeps, ExpireKeeps, PostProjectionsKeeps, DeleteProjectionsKeeps, StutterKeeps
    DEF Next
<1> QED
    BY <1>1, InitHolds, PTL DEF Spec

\* The types, and that a call in progress has its transaction (acquire, release, end).
THEOREM TypeCorrect == Spec => []TypeOK
BY Invariance, PTL DEF IInv

\* After an error, or the answer to a commit, a transaction is gone (api/tx.go, txFail and Reject).
THEOREM ErrorsAreFinal == Spec => []ErrorsEnd
BY Invariance, PTL DEF IInv

\* One operation does what the writes of a transaction did one by one (netProjections).
THEOREM NetDoesAll == Spec => []NetIsSequence
BY Invariance, NetHolds, PTL

\* A write that replaces or deletes is never applied twice (POST /projections, writeProjections).
THEOREM WritesApplyOnce == Spec => []AppliedOnce
BY Invariance, OnceHolds, PTL
=============================================================================
