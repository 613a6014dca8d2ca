--------------------------- MODULE RegistryProofs ---------------------------
(***************************************************************************)
(* The safety of the transactions, for any number of transactions,         *)
(* requests, kinds of events and projections, and any limits.              *)
(*                                                                         *)
(* DecisionsHold speaks of one moment, when a commit has its positions.    *)
(* What makes it true is what a condition means all along, Positions: the  *)
(* events a query matched up to the position are those the read saw, and   *)
(* the position is one the log has reached.  That in turn needs the log to *)
(* be without gaps (NoGap), so that the last event, the counter and the    *)
(* position of a read agree, and one writer at a time (Turns).             *)
(*                                                                         *)
(* The last part ties the line of the queue to the calls in it.            *)
(***************************************************************************)
EXTENDS Registry, SequenceTheorems, TLAPS

Turn == {"turn", "reserved", "worked"}

\* One call at a time is between the start of its work and turn.Done.
Turns ==
    /\ \A p \in Proc : pc[p] \in Turn => working
    /\ \A p, q \in Proc : pc[p] \in Turn /\ pc[q] \in Turn => p = q

\* A call finds its transaction registered at each of its steps.
BusyIsOpen == \A t \in Tx : pc[t] # "free" => t \in txs

\* A request under way asks what may be asked.
JobsAsked == \A a \in Admin : pc[a] # "free" => job[a].request \in Asked

\* The counter is ahead of start by the events of the write under way.
Reserved == \A t \in Tx : pc[t] = "reserved" => nextSeq = start + Len(tx[t].events)

\* A condition whose position the log has reached, and whose read saw every
\* event that is still there up to it.
Sound(c) ==
    /\ c.after <= LastCommitted
    /\ \A e \in events : e.kind \in c.query /\ e.seq <= c.after => e \in c.seen

Positions == \A t \in Tx : \A c \in ConditionsOf(tx[t]) : Sound(c)

IInv ==
    /\ TypeOK
    /\ Turns
    /\ BusyIsOpen
    /\ PauseInPlace
    /\ JobsAsked
    /\ Reserved
    /\ NoGap
    /\ Positions
    /\ DecisionsHold

-----------------------------------------------------------------------------
(* Lemmas about the operators *)

(***************************************************************************)
(* The log has no gap, so max(sequence) is the last committed position, or *)
(* 0 of an empty log.                                                      *)
(***************************************************************************)
LEMMA LastEvent ==
    ASSUME IInv
    PROVE  /\ LastCommitted \in Nat
           /\ MaxSequence(events) \in Nat
           /\ MaxSequence(events) <= LastCommitted
           /\ IsLast(MaxSequence(events), events)
           /\ events # {} => MaxSequence(events) = LastCommitted
<1> USE DEF IInv
<1>1. LastCommitted \in Nat
  BY DEF LastCommitted, TypeOK
<1>2. \A e \in events : e.seq \in Nat \ {0} /\ e.seq <= LastCommitted
  BY DEF TypeOK, NoGap, Event
<1> DEFINE S == {0} \cup {e.seq : e \in events}
<1>3. \E n \in S : IsLast(n, events)
  <2>1. CASE events = {}
    BY <2>1 DEF IsLast
  <2>2. CASE events # {}
    <3>1. PICK e \in events : TRUE
      BY <2>2
    <3>2. LastCommitted \in e.seq..LastCommitted
      BY <1>1, <1>2, <3>1
    <3>3. PICK f \in events : f.seq = LastCommitted
      BY <3>1, <3>2 DEF NoGap
    <3> QED
      BY <1>2, <3>3 DEF IsLast
  <2> QED
    BY <2>1, <2>2
<1>4. MaxSequence(events) \in S /\ IsLast(MaxSequence(events), events)
  BY <1>3 DEF MaxSequence
<1>5. MaxSequence(events) \in Nat /\ MaxSequence(events) <= LastCommitted
  BY <1>1, <1>2, <1>4
<1>6. ASSUME events # {} PROVE MaxSequence(events) = LastCommitted
  <2>1. PICK e \in events : TRUE
    BY <1>6
  <2>2. LastCommitted \in e.seq..LastCommitted
    BY <1>1, <1>2, <2>1
  <2>3. PICK f \in events : f.seq = LastCommitted
    BY <2>1, <2>2 DEF NoGap
  <2>4. LastCommitted <= MaxSequence(events)
    BY <1>4, <2>3 DEF IsLast
  <2> QED
    BY <1>1, <1>5, <2>4
<1> QED
  BY <1>1, <1>4, <1>5, <1>6

LEMMA OpenedSound ==
    ASSUME IInv, NEW q \in SUBSET Kind
    PROVE  Opened(q, events) \in Condition /\ Sound(Opened(q, events))
<1>1. Opened(q, events).after \in Nat /\ Opened(q, events).after <= LastCommitted
  BY LastEvent DEF Opened
<1>2. Matching(q, events) \subseteq Event
  BY DEF Matching, IInv, TypeOK
<1>3. Opened(q, events) \in Condition
  BY <1>1, <1>2 DEF Opened, Condition
<1>4. Sound(Opened(q, events))
  BY <1>1 DEF Sound, Opened, Matching
<1> QED
  BY <1>3, <1>4

LEMMA NewIsTransaction == NewTransaction \in Transaction /\ ConditionsOf(NewTransaction) = {}
<1>1. Untouched \in ProjectionState
  BY DEF Untouched, ProjectionState, NoVersion
<1> QED
  BY <1>1 DEF NewTransaction, Transaction, ConditionsOf

LEMMA FetchedType ==
    ASSUME NEW s \in ProjectionState, NEW v \in Nat
    PROVE  Fetched(s, v) \in ProjectionState
  BY DEF Fetched, ProjectionState, Untouched, NoVersion

LEMMA WrittenType ==
    ASSUME NEW s \in ProjectionState, NEW op \in Operations
    PROVE  Written(op, s) \in ProjectionState
  BY DEF Written, ProjectionState, Operations

LEMMA NewVersionsType ==
    ASSUME NEW w \in [Key -> [op : Operations, at : Nat]], NEW v \in [Key -> Nat], NEW n \in Nat
    PROVE  NewVersions(w, v, n) \in [Key -> Nat]
  BY DEF NewVersions, NoVersion

LEMMA NetType ==
    ASSUME NEW s \in [Key -> ProjectionState]
    PROVE  NetProjections(s) \in [Key -> [op : Operations, at : Nat]]
<1>1. ASSUME NEW k \in Key PROVE NetOperation(s[k]) \in [op : Operations, at : Nat]
  <2>1. s[k] \in ProjectionState
    OBVIOUS
  <2> QED
    BY <2>1 DEF NetOperation, ProjectionState, Operations, NoVersion
<1> QED
  BY <1>1 DEF NetProjections

(***************************************************************************)
(* The net operation of a projection that changes checks the version read. *)
(***************************************************************************)
LEMMA NetWrites ==
    ASSUME NEW states, NEW k \in Key, states[k] \in ProjectionState, states[k].written,
           states[k].read # NoVersion \/ states[k].found
    PROVE  NetProjections(states)[k].op # "none" /\ NetProjections(states)[k].at = states[k].read
<1>1. NetOperation(states[k]).op # "none" /\ NetOperation(states[k]).at = states[k].read
  BY DEF NetOperation, ProjectionState
<1> QED
  BY <1>1 DEF NetProjections

(***************************************************************************)
(* A hold of Registry.mu: what it leaves of the transactions, and of those *)
(* a call uses.                                                            *)
(***************************************************************************)
LEMMA HeldType ==
    ASSUME TypeOK, NEW open \in SUBSET begun', begun' \subseteq Tx,
           NEW new \in [Tx -> Transaction], Registered(open, new)
    PROVE  /\ txs' \subseteq begun'
           /\ idle' \subseteq txs'
           /\ tx' \in [Tx -> Transaction]
  BY NewIsTransaction DEF Registered, TypeOK

LEMMA LiveType == TypeOK => Live \subseteq txs
  BY DEF Live

LEMMA InitIInv == Init => IInv
<1> SUFFICES ASSUME Init PROVE IInv
  OBVIOUS
<1> USE DEF Init
<1>1. TypeOK
  <2>1. NoJob \in [request : Requests, writes : StoreWrites]
    BY DEF NoJob, NoWrites, Requests, StoreWrites, Operations, NoVersion
  <2>2. line = <<>> /\ working = FALSE /\ closed = FALSE
    BY DEF Queue!Init
  <2>3. job \in [Admin -> [request : Requests, writes : StoreWrites]]
    BY <2>1
  <2>4. tx \in [Tx -> Transaction]
    BY NewIsTransaction
  <2>5. pc \in [Proc -> Stages] /\ version \in [Key -> Nat]
    BY DEF Stages, NoVersion
  <2>6. line \in Seq(Proc)
    BY <2>2
  <2>7. working \in BOOLEAN /\ closed \in BOOLEAN
    BY <2>2
  <2>8. pause \in {"Running", "PauseRequested", "Paused"} /\ paused \in BOOLEAN
    OBVIOUS
  <2>9. txs \subseteq begun /\ begun \subseteq Tx /\ idle \subseteq txs /\ events \subseteq Event
    OBVIOUS
  <2>10. lastVersion \in Nat /\ nextSeq \in Nat \ {0} /\ start \in Nat \ {0}
    OBVIOUS
  <2> QED
    BY <2>3, <2>4, <2>5, <2>6, <2>7, <2>8, <2>9, <2>10, Zenon DEF TypeOK
<1>2. \A p \in Proc : pc[p] = "free"
  OBVIOUS
<1>3. LastCommitted = 0 /\ events = {}
  BY <1>2 DEF LastCommitted, Proc
<1>4. NoGap /\ Positions
  BY <1>3, NewIsTransaction DEF NoGap, Positions
<1> QED
  BY <1>1, <1>2, <1>4 DEF IInv, Turns, Turn, BusyIsOpen, PauseInPlace, JobsAsked, Reserved,
                          DecisionsHold, Proc

-----------------------------------------------------------------------------
(* Types *)

\* The conjuncts of TypeOK, by who changes them.
TxTypes ==
    /\ txs \subseteq begun
    /\ begun \subseteq Tx
    /\ idle \subseteq txs
    /\ tx \in [Tx -> Transaction]

QueueTypes == line \in Seq(Proc) /\ working \in BOOLEAN /\ closed \in BOOLEAN

StoreTypes ==
    /\ events \subseteq Event
    /\ paused \in BOOLEAN
    /\ version \in [Key -> Nat]
    /\ lastVersion \in Nat
    /\ nextSeq \in Nat \ {0}
    /\ start \in Nat \ {0}

CallTypes ==
    /\ pause \in {"Running", "PauseRequested", "Paused"}
    /\ pc \in [Proc -> Stages]
    /\ job \in [Admin -> [request : Requests, writes : StoreWrites]]

LEMMA TypeParts == TypeOK <=> TxTypes /\ QueueTypes /\ StoreTypes /\ CallTypes
  BY Zenon DEF TypeOK, TxTypes, QueueTypes, StoreTypes, CallTypes

(***************************************************************************)
(* What a transaction holds has its type after each call of a client.      *)
(***************************************************************************)
LEMMA ClientTypes ==
    ASSUME IInv, NEW t \in Tx, ClientCall(t)
    PROVE  TxTypes'
<1> USE DEF IInv, TypeOK
<1>1. Live \subseteq txs /\ t \in Tx
  BY LiveType
<1>2. ASSUME Begin(t) PROVE TxTypes'
  <2>1. [tx EXCEPT ![t] = NewTransaction] \in [Tx -> Transaction]
    BY NewIsTransaction
  <2> QED
    BY <1>1, <1>2, <2>1, HeldType DEF Begin, TxTypes
<1>3. ASSUME NEW new \in Transaction, Registered(Live, [tx EXCEPT ![t] = new]), UNCHANGED begun
      PROVE  TxTypes'
  <2>1. [tx EXCEPT ![t] = new] \in [Tx -> Transaction]
    OBVIOUS
  <2> QED
    BY <1>1, <1>3, <2>1, HeldType DEF TxTypes
<1>4. tx[t] \in Transaction
  OBVIOUS
<1>5. ASSUME NEW q \in SUBSET Kind, NEW limit \in {0, 1}, ReadEvents(t, q, limit) PROVE TxTypes'
  <2>1. {Opened(q, events)} \in SUBSET Condition
    BY OpenedSound
  <2>2. [tx[t] EXCEPT !.open = {Opened(q, events)}] \in Transaction
    BY <1>4, <2>1 DEF Transaction
  <2> QED
    BY <1>3, <1>5, <2>2 DEF ReadEvents
<1>6. ASSUME NEW batch \in Batches, WriteEvents(t, batch) PROVE TxTypes'
  <2>1. batch \in Seq(Kind)
    <3>1. batch = <<>> \/ \E k \in Kind : batch = <<k>>
      BY DEF Batches
    <3>2. <<>> \in Seq(Kind) /\ \A k \in Kind : <<k>> \in Seq(Kind)
      OBVIOUS
    <3> QED
      BY <3>1, <3>2, Zenon
  <2>2. PICK c \in tx[t].open :
          Registered(Live, [tx EXCEPT ![t] =
                              [tx[t] EXCEPT !.events = tx[t].events \o batch,
                                            !.conditions = Append(tx[t].conditions, c),
                                            !.open = {}]])
    BY <1>6 DEF WriteEvents
  <2>3. [tx[t] EXCEPT !.events = tx[t].events \o batch,
                      !.conditions = Append(tx[t].conditions, c),
                      !.open = {}] \in Transaction
    <3>1. tx[t].conditions \in Seq(Condition) /\ c \in Condition /\ tx[t].events \in Seq(Kind)
      BY <1>4 DEF Transaction
    <3>2. Append(tx[t].conditions, c) \in Seq(Condition)
      BY <3>1
    <3>3. tx[t].events \o batch \in Seq(Kind)
      BY <2>1, <3>1
    <3> QED
      BY <1>4, <3>2, <3>3 DEF Transaction
  <2> QED
    BY <1>3, <1>6, <2>2, <2>3 DEF WriteEvents
<1>7. ASSUME NEW k \in Key, GetProjection(t, k) PROVE TxTypes'
  <2>1. tx[t].projections[k] \in ProjectionState /\ version[k] \in Nat
    BY <1>4 DEF Transaction
  <2>2. Fetched(tx[t].projections[k], version[k]) \in ProjectionState
    BY <2>1, FetchedType
  <2>3. [tx[t] EXCEPT !.projections[k] = Fetched(tx[t].projections[k], version[k])] \in Transaction
    BY <1>4, <2>2 DEF Transaction
  <2> QED
    BY <1>3, <1>7, <2>3 DEF GetProjection
<1>8. ASSUME NEW w \in [Key -> Operations], WriteProjections(t, w) PROVE TxTypes'
  <2> DEFINE new == [k \in Key |-> Written(w[k], tx[t].projections[k])]
  <2>1. new \in [Key -> ProjectionState]
    <3> SUFFICES ASSUME NEW k \in Key PROVE Written(w[k], tx[t].projections[k]) \in ProjectionState
      OBVIOUS
    <3>1. w[k] \in Operations /\ tx[t].projections[k] \in ProjectionState
      BY <1>4 DEF Transaction
    <3> QED
      BY <3>1, WrittenType
  <2>2. [tx[t] EXCEPT !.projections = new] \in Transaction
    BY <1>4, <2>1 DEF Transaction
  <2> QED
    BY <1>3, <1>8, <2>2 DEF WriteProjections
<1>9. ASSUME EndTx(t) PROVE TxTypes'
  <2>1. [tx EXCEPT ![t] = NewTransaction] \in [Tx -> Transaction]
    BY NewIsTransaction
  <2> QED
    BY <1>1, <1>9, <2>1, HeldType DEF EndTx, TxTypes
<1>10. ASSUME Commit(t) PROVE TxTypes'
  BY <1>1, <1>10, HeldType DEF Commit, TxTypes
<1> QED
  BY <1>2, <1>5, <1>6, <1>7, <1>8, <1>9, <1>10 DEF ClientCall

LEMMA NextTxTypes == IInv /\ [Next]_vars => TxTypes'
<1> SUFFICES ASSUME IInv, [Next]_vars PROVE TxTypes'
  OBVIOUS
<1> USE DEF IInv, TypeOK
<1>1. ASSUME Registered(Live, tx), UNCHANGED begun PROVE TxTypes'
  BY <1>1, LiveType, HeldType DEF TxTypes
<1>2. ASSUME UNCHANGED <<txs, begun, idle, tx>> PROVE TxTypes'
  BY <1>2 DEF TxTypes
<1>3. CASE Sweep
  BY <1>1, <1>3 DEF Sweep
<1>4. CASE Close
  BY <1>2, <1>4 DEF Close, registryVars
<1>5. CASE Restart
  BY <1>5, NewIsTransaction DEF Restart, TxTypes
<1>6. ASSUME NEW t \in Tx, Tick(t) PROVE TxTypes'
  BY <1>6 DEF Tick, TxTypes
<1>7. ASSUME NEW t \in Tx, Release(t) PROVE TxTypes'
  BY <1>7, NewIsTransaction, LiveType DEF Release, TxTypes
<1>8. ASSUME NEW t \in Tx, EndCommit(t) PROVE TxTypes'
  <2>1. [tx EXCEPT ![t] = NewTransaction] \in [Tx -> Transaction] /\ Live \ {t} \subseteq begun'
    BY <1>8, NewIsTransaction, LiveType DEF EndCommit
  <2> QED
    BY <1>8, <2>1, HeldType DEF EndCommit, TxTypes
<1>9. ASSUME NEW t \in Tx, WriteStep(t) PROVE TxTypes'
  BY <1>2, <1>9 DEF WriteStep, Reserve, Refuse, CommitWrite, FailWrite, registryVars
<1>10. ASSUME NEW a \in Admin, NEW j \in Jobs, Request(a, j) PROVE TxTypes'
  BY <1>1, <1>2, <1>10 DEF Request
<1>11. ASSUME NEW a \in Admin, AdminStep(a) PROVE TxTypes'
  BY <1>1, <1>2, <1>11 DEF AdminStep, Pause, Resume, PostProjections, DeleteProjections, DeleteEvents,
                           WorkFails, registryVars
<1>12. ASSUME NEW p \in Proc, QueueStep(p) PROVE TxTypes'
  BY <1>2, <1>12 DEF QueueStep, Refused, Join, TurnAway, Start, Leave, registryVars
<1>13. CASE UNCHANGED vars
  BY <1>2, <1>13 DEF vars, registryVars
<1> QED
  BY <1>3, <1>4, <1>5, <1>6, <1>7, <1>8, <1>9, <1>10, <1>11, <1>12, <1>13, ClientTypes DEF Next

(***************************************************************************)
(* What the steps that are no call of a client leave alone.                *)
(***************************************************************************)
LEMMA NextQueueTypes == IInv /\ [Next]_vars => QueueTypes'
<1> SUFFICES ASSUME IInv, [Next]_vars PROVE QueueTypes'
  OBVIOUS
<1> USE DEF IInv, TypeOK
<1>1. ASSUME UNCHANGED queueVars PROVE QueueTypes'
  BY <1>1 DEF QueueTypes, queueVars
<1>2. ASSUME NEW p \in Proc, Queue!Enter(p) PROVE QueueTypes'
  BY <1>2 DEF QueueTypes, Queue!Enter
<1>3. ASSUME NEW p \in Proc, Queue!Begin(p) PROVE QueueTypes'
  BY <1>3 DEF QueueTypes, Queue!Begin
<1>4. ASSUME NEW p \in Proc, Queue!Leave(p) PROVE QueueTypes'
  <2>1. line # <<>>
    BY <1>4 DEF Queue!Leave, Queue!HasTurn
  <2>2. Tail(line) \in Seq(Proc)
    BY <2>1
  <2> QED
    BY <1>4, <2>2 DEF QueueTypes, Queue!Leave
<1>5. ASSUME NEW p \in Proc, Queue!TurnAway(p) PROVE QueueTypes'
  <2>1. PICK i \in DOMAIN line :
          line' = SubSeq(line, 1, i - 1) \o SubSeq(line, i + 1, Len(line))
    BY <1>5 DEF Queue!TurnAway
  <2>2. i \in 1..Len(line)
    OBVIOUS
  <2>3. SubSeq(line, 1, i - 1) \in Seq(Proc)
    BY <2>2
  <2>4. SubSeq(line, i + 1, Len(line)) \in Seq(Proc)
    BY <2>2
  <2>5. line' \in Seq(Proc)
    BY <2>1, <2>3, <2>4
  <2> QED
    BY <1>5, <2>5 DEF QueueTypes, Queue!TurnAway
<1>6. ASSUME NEW p \in Proc, QueueStep(p) PROVE QueueTypes'
  BY <1>1, <1>2, <1>3, <1>4, <1>5, <1>6 DEF QueueStep, Refused, Join, TurnAway, Start, Leave
<1>7. CASE Close
  BY <1>7 DEF Close, Queue!Close, QueueTypes
<1>8. CASE Restart
  <2>1. <<>> \in Seq(Proc)
    OBVIOUS
  <2> QED
    BY <1>8, <2>1 DEF Restart, QueueTypes
<1>9. ASSUME NEW t \in Tx, Tick(t) \/ ClientCall(t) \/ Release(t) \/ EndCommit(t) \/ WriteStep(t)
      PROVE  QueueTypes'
  BY <1>1, <1>9 DEF Tick, ClientCall, Begin, ReadEvents, WriteEvents, GetProjection, WriteProjections,
                    EndTx, Commit, Release, EndCommit, WriteStep, Reserve, Refuse, CommitWrite, FailWrite
<1>10. ASSUME NEW a \in Admin, (\E j \in Jobs : Request(a, j)) \/ AdminStep(a)
       PROVE  QueueTypes'
  BY <1>1, <1>10 DEF Request, AdminStep, Pause, Resume, PostProjections, DeleteProjections, DeleteEvents,
                     WorkFails
<1>11. CASE Sweep \/ UNCHANGED vars
  BY <1>1, <1>11 DEF Sweep, vars
<1> QED
  BY <1>6, <1>7, <1>8, <1>9, <1>10, <1>11 DEF Next

(***************************************************************************)
(* The events a commit writes are events, one position after the other.    *)
(***************************************************************************)
LEMMA InsertedType ==
    ASSUME TypeOK, NEW t \in Tx
    PROVE  Inserted(t) \subseteq Event
<1>1. tx[t].events \in Seq(Kind)
  BY DEF TypeOK, Transaction
<1>2. ASSUME NEW i \in DOMAIN tx[t].events
      PROVE  [seq |-> start + i - 1, kind |-> tx[t].events[i], by |-> t] \in Event
  <2>1. i \in Nat \ {0} /\ tx[t].events[i] \in Kind
    BY <1>1
  <2>2. start + i - 1 \in Nat \ {0}
    BY <2>1 DEF TypeOK
  <2> QED
    BY <2>1, <2>2 DEF Event
<1> QED
  BY <1>2 DEF Inserted

LEMMA NextStoreTypes == IInv /\ [Next]_vars => StoreTypes'
<1> SUFFICES ASSUME IInv, [Next]_vars PROVE StoreTypes'
  OBVIOUS
<1> USE DEF IInv, TypeOK
<1>1. ASSUME UNCHANGED <<fileVars, counterVars>> PROVE StoreTypes'
  BY <1>1 DEF StoreTypes, fileVars, counterVars
<1>2. ASSUME NEW t \in Tx, Tick(t) \/ ClientCall(t) \/ Release(t) \/ EndCommit(t)
      PROVE  StoreTypes'
  BY <1>1, <1>2 DEF Tick, ClientCall, Begin, ReadEvents, WriteEvents, GetProjection, WriteProjections,
                    EndTx, Commit, Release, EndCommit
<1>versions. ASSUME NEW w \in [Key -> [op : Operations, at : Nat]]
       PROVE  NewVersions(w, version, lastVersion + 1) \in [Key -> Nat]
  <2>1. lastVersion + 1 \in Nat
    OBVIOUS
  <2> QED
    BY <2>1, NewVersionsType
<1>3. ASSUME NEW t \in Tx, WriteStep(t) PROVE StoreTypes'
  <2>1. Len(tx[t].events) \in Nat
    BY DEF Transaction
  <2>2. CASE Reserve(t)
    <3>1. nextSeq' \in Nat \ {0} /\ start' \in Nat \ {0}
      BY <2>1, <2>2 DEF Reserve
    <3> QED
      BY <2>2, <3>1 DEF Reserve, StoreTypes, fileVars
  <2>3. CASE Refuse(t)
    BY <1>1, <2>3 DEF Refuse
  <2>4. CASE FailWrite(t)
    BY <2>4 DEF FailWrite, StoreTypes, fileVars
  <2>5. CASE CommitWrite(t)
    <3>1. events' \subseteq Event
      BY <2>5, InsertedType DEF CommitWrite
    <3>2. tx[t].projections \in [Key -> ProjectionState]
      BY DEF Transaction
    <3>3. NetProjections(tx[t].projections) \in [Key -> [op : Operations, at : Nat]]
      BY <3>2, NetType
    <3>4. version' \in [Key -> Nat]
      BY <1>versions, <2>5, <3>3 DEF CommitWrite
    <3> QED
      BY <2>5, <3>1, <3>4 DEF CommitWrite, StoreTypes
  <2> QED
    BY <1>3, <2>2, <2>3, <2>4, <2>5 DEF WriteStep
<1>4. ASSUME NEW a \in Admin, AdminStep(a) PROVE StoreTypes'
  <2>1. CASE PostProjections(a)
    <3>1. job[a].writes \in [Key -> [op : Operations, at : Nat]]
      BY DEF StoreWrites
    <3>2. version' \in [Key -> Nat]
      BY <1>versions, <2>1, <3>1 DEF PostProjections
    <3> QED
      BY <2>1, <3>2 DEF PostProjections, StoreTypes, counterVars
  <2>2. CASE DeleteProjections(a)
    <3>1. version' \in [Key -> Nat]
      BY <2>2 DEF DeleteProjections, NoVersion
    <3> QED
      BY <2>2, <3>1 DEF DeleteProjections, StoreTypes, counterVars
  <2>3. CASE Pause(a) \/ Resume(a)
    BY <2>3 DEF Pause, Resume, StoreTypes, counterVars
  <2>4. CASE DeleteEvents(a)
    BY <2>4 DEF DeleteEvents, StoreTypes, counterVars
  <2>5. CASE WorkFails(a)
    BY <1>1, <2>5 DEF WorkFails
  <2> QED
    BY <1>4, <2>1, <2>2, <2>3, <2>4, <2>5 DEF AdminStep
<1>5. ASSUME NEW a \in Admin, NEW j \in Jobs, Request(a, j) PROVE StoreTypes'
  BY <1>1, <1>5 DEF Request
<1>6. ASSUME NEW p \in Proc, QueueStep(p) PROVE StoreTypes'
  BY <1>1, <1>6 DEF QueueStep, Refused, Join, TurnAway, Start, Leave
<1>7. CASE Restart
  <2>1. nextSeq' \in Nat \ {0}
    BY <1>7, LastEvent DEF Restart
  <2> QED
    BY <1>7, <2>1 DEF Restart, StoreTypes, fileVars
<1>8. CASE Sweep \/ Close \/ UNCHANGED vars
  BY <1>1, <1>8 DEF Sweep, Close, vars
<1> QED
  BY <1>2, <1>3, <1>4, <1>5, <1>6, <1>7, <1>8 DEF Next

LEMMA NextCallTypes == IInv /\ [Next]_vars => CallTypes'
<1> SUFFICES ASSUME IInv, [Next]_vars PROVE CallTypes'
  OBVIOUS
<1> USE DEF IInv, TypeOK
<1>1. ASSUME UNCHANGED <<pause, pc, job>> PROVE CallTypes'
  BY <1>1 DEF CallTypes
<1>2. ASSUME NEW p \in Proc, NEW stage \in Stages, Goto(p, stage), UNCHANGED <<pause, job>>
      PROVE  CallTypes'
  BY <1>2 DEF CallTypes, Goto
<1> USE DEF Stages
<1>3. ASSUME NEW t \in Tx, Tick(t) \/ ClientCall(t) \/ Release(t) \/ EndCommit(t)
      PROVE  CallTypes'
  BY <1>1, <1>2, <1>3 DEF Tick, ClientCall, Begin, ReadEvents, WriteEvents, GetProjection,
                          WriteProjections, EndTx, Commit, Release, EndCommit, callVars, Proc
<1>4. ASSUME NEW t \in Tx, WriteStep(t) PROVE CallTypes'
  BY <1>2, <1>4 DEF WriteStep, Reserve, Refuse, CommitWrite, FailWrite, registryVars, Proc
<1>5. ASSUME NEW a \in Admin, AdminStep(a) PROVE CallTypes'
  <2>1. Goto(a, "worked") /\ UNCHANGED job
    BY <1>5 DEF AdminStep, Pause, Resume, PostProjections, DeleteProjections, DeleteEvents, WorkFails
  <2>2. pause' \in {"Running", "PauseRequested", "Paused"}
    BY <1>5 DEF AdminStep, Pause, Resume, PostProjections, DeleteProjections, DeleteEvents, WorkFails,
                registryVars
  <2> QED
    BY <2>1, <2>2 DEF CallTypes, Goto, Proc
<1>6. ASSUME NEW a \in Admin, NEW j \in Jobs, Request(a, j) PROVE CallTypes'
  <2>1. j \in [request : Requests, writes : StoreWrites]
    <3>1. NoWrites \in StoreWrites
      BY DEF NoWrites, StoreWrites, Operations, NoVersion
    <3>2. \A w \in [Key -> [op : Operations, at : 0..lastVersion]] : w \in StoreWrites
      BY DEF StoreWrites
    <3> QED
      BY <3>1, <3>2, RegistryAssumption DEF Jobs
  <2> QED
    BY <1>6, <2>1 DEF Request, CallTypes, Goto, Proc
<1>7. ASSUME NEW p \in Proc, QueueStep(p) PROVE CallTypes'
  <2>1. After(p) \in Stages
    BY DEF After
  <2> QED
    BY <1>2, <1>7, <2>1 DEF QueueStep, Refused, Join, TurnAway, Start, Leave, registryVars
<1>8. CASE Restart
  <2>1. NoJob \in [request : Requests, writes : StoreWrites]
    BY DEF NoJob, NoWrites, Requests, StoreWrites, Operations, NoVersion
  <2> QED
    BY <1>8, <2>1 DEF Restart, CallTypes
<1>9. CASE Sweep \/ Close \/ UNCHANGED vars
  BY <1>1, <1>9 DEF Sweep, Close, vars, registryVars, callVars
<1> QED
  BY <1>3, <1>4, <1>5, <1>6, <1>7, <1>8, <1>9 DEF Next

LEMMA NextTypes == IInv /\ [Next]_vars => TypeOK'
<1>1. TxTypes' /\ QueueTypes' /\ StoreTypes' /\ CallTypes' => TypeOK'
  BY Zenon DEF TypeOK, TxTypes, QueueTypes, StoreTypes, CallTypes
<1> QED
  BY <1>1, NextTxTypes, NextQueueTypes, NextStoreTypes, NextCallTypes

-----------------------------------------------------------------------------
(* One writer, and transactions in use *)

(***************************************************************************)
(* Only Start begins a turn, when nobody works, and Leave ends it.         *)
(***************************************************************************)
LEMMA NextTurns == IInv /\ [Next]_vars => Turns'
<1> SUFFICES ASSUME IInv, [Next]_vars PROVE Turns'
  OBVIOUS
<1> USE DEF IInv, TypeOK, Turn
<1>1. ASSUME UNCHANGED <<pc, working>> PROVE Turns'
  BY <1>1 DEF Turns
<1>2. ASSUME NEW p \in Proc, NEW stage, stage \in Turn => pc[p] \in Turn,
             Goto(p, stage), UNCHANGED working
      PROVE  Turns'
  BY <1>2 DEF Turns, Goto
<1>3. ASSUME NEW t \in Tx, Tick(t) \/ ClientCall(t) \/ Release(t) \/ EndCommit(t) \/ WriteStep(t)
      PROVE  Turns'
  BY <1>1, <1>2, <1>3 DEF Tick, ClientCall, Begin, ReadEvents, WriteEvents, GetProjection,
                          WriteProjections, EndTx, Commit, Release, EndCommit, callVars, queueVars,
                          WriteStep, Reserve, Refuse, CommitWrite, FailWrite, Proc
<1>4. ASSUME NEW a \in Admin, AdminStep(a) PROVE Turns'
  <2>1. pc[a] = "turn" /\ Goto(a, "worked") /\ UNCHANGED working
    BY <1>4 DEF AdminStep, Pause, Resume, PostProjections, DeleteProjections, DeleteEvents, WorkFails,
                InTurn, queueVars
  <2> QED
    BY <1>2, <2>1 DEF Proc
<1>5. ASSUME NEW a \in Admin, NEW j \in Jobs, Request(a, j) PROVE Turns'
  BY <1>2, <1>5 DEF Request, queueVars, Proc
<1>6. ASSUME NEW p \in Proc, QueueStep(p) PROVE Turns'
  <2>1. After(p) \notin Turn
    BY DEF After
  <2>2. CASE Refused(p) \/ Join(p) \/ TurnAway(p)
    BY <1>2, <2>1, <2>2 DEF Refused, Join, TurnAway, queueVars, Queue!Enter, Queue!TurnAway
  <2>3. CASE Start(p)
    BY <2>3 DEF Start, Queue!Begin, Goto, Turns
  <2>4. CASE Leave(p)
    <3>1. \A q \in Proc : pc[q] \in Turn => q = p
      BY <2>4 DEF Leave, Turns
    <3>2. \A q \in Proc : pc'[q] \notin Turn
      BY <2>1, <2>4, <3>1 DEF Leave, Goto
    <3> QED
      BY <3>2 DEF Turns
  <2> QED
    BY <1>6, <2>2, <2>3, <2>4 DEF QueueStep
<1>7. CASE Restart
  BY <1>7 DEF Restart, Turns
<1>8. CASE Sweep \/ Close \/ UNCHANGED vars
  BY <1>1, <1>8 DEF Sweep, Close, vars, queueVars, callVars, Queue!Close
<1> QED
  BY <1>3, <1>4, <1>5, <1>6, <1>7, <1>8 DEF Next

(***************************************************************************)
(* lock ends only transactions no call uses, so a hold of Registry.mu      *)
(* keeps every transaction in use, and what it holds.                      *)
(***************************************************************************)
LEMMA HeldKeepsBusy ==
    ASSUME IInv, NEW t \in Tx, pc[t] # "free"
    PROVE  t \in Live /\ t \notin Expired
  BY DEF IInv, BusyIsOpen, Live, Expired

LEMMA NextBusy == IInv /\ [Next]_vars => BusyIsOpen'
<1> SUFFICES ASSUME IInv, [Next]_vars PROVE BusyIsOpen'
  OBVIOUS
<1> USE DEF IInv, TypeOK, BusyIsOpen
<1>1. \A t \in Tx : pc[t] # "free" => t \in Live
  BY HeldKeepsBusy
<1>2. ASSUME NEW t \in Tx, ClientCall(t) PROVE BusyIsOpen'
  <2>1. CASE Begin(t)
    BY <1>1, <2>1 DEF Begin, Registered, callVars
  <2>2. CASE EndTx(t)
    BY <1>1, <2>2 DEF EndTx, Registered, callVars, Acquire
  <2>3. ASSUME t \in Live, txs' = Live, NEW stage, Goto(t, stage) PROVE BusyIsOpen'
    BY <1>1, <2>3 DEF Goto, Proc
  <2> QED
    BY <1>2, <2>1, <2>2, <2>3 DEF ClientCall, ReadEvents, WriteEvents, GetProjection, WriteProjections,
                                  Commit, Acquire, Registered
<1>3. ASSUME NEW t \in Tx, Tick(t) \/ Release(t) \/ EndCommit(t) PROVE BusyIsOpen'
  BY <1>1, <1>3 DEF Tick, Release, EndCommit, Registered, Goto, callVars, Proc
<1>4. ASSUME NEW t \in Tx, WriteStep(t) PROVE BusyIsOpen'
  BY <1>4 DEF WriteStep, Reserve, Refuse, CommitWrite, FailWrite, registryVars, Goto, Proc
<1>5. ASSUME NEW a \in Admin, NEW stage, Goto(a, stage), txs' = Live \/ txs' = txs PROVE BusyIsOpen'
  BY <1>1, <1>5, RegistryAssumption DEF Goto, Proc
<1>6. ASSUME NEW a \in Admin, (\E j \in Jobs : Request(a, j)) \/ AdminStep(a) PROVE BusyIsOpen'
  BY <1>5, <1>6 DEF Request, AdminStep, Pause, Resume, PostProjections, DeleteProjections, DeleteEvents,
                    WorkFails, registryVars, Registered
<1>7. ASSUME NEW p \in Proc, QueueStep(p) PROVE BusyIsOpen'
  <2>1. pc[p] # "free" /\ (\E stage : Goto(p, stage)) /\ UNCHANGED txs
    BY <1>7 DEF QueueStep, Refused, Join, TurnAway, Start, Leave, registryVars
  <2> QED
    BY <2>1 DEF Goto, Proc
<1>8. CASE Restart
  BY <1>8 DEF Restart, Proc
<1>9. CASE Sweep \/ Close \/ UNCHANGED vars
  BY <1>1, <1>9 DEF Sweep, Close, vars, registryVars, callVars, Registered
<1> QED
  BY <1>2, <1>3, <1>4, <1>6, <1>7, <1>8, <1>9 DEF Next

(***************************************************************************)
(* A pause is put in place in a turn, with no transaction open, and Begin  *)
(* refuses from then on: no commit can be under way.                       *)
(***************************************************************************)
LEMMA NextPause == IInv /\ [Next]_vars => PauseInPlace'
<1> SUFFICES ASSUME IInv, [Next]_vars PROVE PauseInPlace'
  OBVIOUS
<1> USE DEF IInv, TypeOK, PauseInPlace
<1>1. Live = {} => \A t \in Tx : pc[t] = "free"
  BY HeldKeepsBusy
<1>2. paused => Live = {}
  BY DEF Live
<1>3. ASSUME UNCHANGED <<pause, paused>>, paused => txs' = {} /\ \A t \in Tx : pc'[t] = "free"
      PROVE  PauseInPlace'
  BY <1>3
<1>4. ASSUME NEW t \in Tx, Tick(t) \/ ClientCall(t) \/ Release(t) \/ EndCommit(t)
      PROVE  PauseInPlace'
  BY <1>2, <1>3, <1>4 DEF Tick, ClientCall, Begin, ReadEvents, WriteEvents, GetProjection,
                          WriteProjections, EndTx, Commit, Release, EndCommit, Acquire, Registered,
                          fileVars, callVars
<1>5. ASSUME NEW t \in Tx, WriteStep(t) PROVE PauseInPlace'
  <2>1. ~paused /\ UNCHANGED <<pause, paused>>
    BY <1>5 DEF WriteStep, Reserve, Refuse, CommitWrite, FailWrite, registryVars, fileVars
  <2> QED
    BY <1>3, <2>1
<1>6. ASSUME NEW a \in Admin, (\E j \in Jobs : Request(a, j)) \/ AdminStep(a)
      PROVE  PauseInPlace'
  <2>1. PICK stage : Goto(a, stage)
    BY <1>6 DEF Request, AdminStep, Pause, Resume, PostProjections, DeleteProjections, DeleteEvents,
                WorkFails
  <2>2. \A t \in Tx : pc'[t] = pc[t]
    BY <2>1, RegistryAssumption DEF Goto, Proc
  <2>3. txs' = txs \/ txs' = Live
    BY <1>6 DEF Request, AdminStep, Pause, Resume, PostProjections, DeleteProjections, DeleteEvents,
                WorkFails, registryVars, Registered
  <2>4. CASE UNCHANGED <<pause, paused>>
    BY <1>2, <1>3, <2>2, <2>3, <2>4
  <2>5. CASE Pause(a)
    <3>1. CASE pause # "Paused" /\ pause' = "PauseRequested" /\ UNCHANGED paused
      BY <3>1
    <3>2. CASE Live = {} /\ pause' = "Paused" /\ paused' = TRUE
      <4>1. txs' = {}
        BY <2>5, <3>2 DEF Pause, Registered
      <4> QED
        BY <1>1, <2>2, <3>2, <4>1
    <3> QED
      BY <2>4, <2>5, <3>1, <3>2 DEF Pause
  <2>6. CASE Resume(a)
    BY <2>6 DEF Resume
  <2> QED
    BY <1>6, <2>4, <2>5, <2>6 DEF Request, AdminStep, PostProjections, DeleteProjections, DeleteEvents,
                                  WorkFails, registryVars, fileVars
<1>7. ASSUME NEW p \in Proc, QueueStep(p) PROVE PauseInPlace'
  <2>1. pc[p] # "free" /\ (\E stage : Goto(p, stage)) /\ UNCHANGED <<txs, pause, paused>>
    BY <1>7 DEF QueueStep, Refused, Join, TurnAway, Start, Leave, registryVars, fileVars
  <2>2. paused => \A t \in Tx : pc'[t] = "free"
    BY <2>1 DEF Goto, Proc
  <2> QED
    BY <1>3, <2>1, <2>2
<1>8. CASE Restart
  BY <1>8 DEF Restart, fileVars, Proc
<1>9. CASE Sweep \/ Close \/ UNCHANGED vars
  BY <1>2, <1>3, <1>9 DEF Sweep, Close, vars, registryVars, fileVars, callVars, Registered
<1> QED
  BY <1>4, <1>5, <1>6, <1>7, <1>8, <1>9 DEF Next

LEMMA NextJobs == IInv /\ [Next]_vars => JobsAsked'
<1> SUFFICES ASSUME IInv, [Next]_vars PROVE JobsAsked'
  OBVIOUS
<1> USE DEF IInv, TypeOK, JobsAsked
<1>1. ASSUME UNCHANGED <<pc, job>> PROVE JobsAsked'
  BY <1>1
<1>2. ASSUME NEW p \in Proc, pc[p] # "free" \/ p \in Tx, NEW stage, Goto(p, stage), UNCHANGED job
      PROVE  JobsAsked'
  BY <1>2, RegistryAssumption DEF Goto, Proc
<1>3. ASSUME NEW t \in Tx, Tick(t) \/ ClientCall(t) \/ Release(t) \/ EndCommit(t) \/ WriteStep(t)
      PROVE  JobsAsked'
  BY <1>1, <1>2, <1>3 DEF Tick, ClientCall, Begin, ReadEvents, WriteEvents, GetProjection,
                          WriteProjections, EndTx, Commit, Release, EndCommit, callVars, WriteStep,
                          Reserve, Refuse, CommitWrite, FailWrite, Proc
<1>4. ASSUME NEW a \in Admin, NEW j \in Jobs, Request(a, j) PROVE JobsAsked'
  <2>1. j.request \in Asked
    BY DEF Jobs
  <2> QED
    BY <1>4, <2>1 DEF Request, Goto, Proc
<1>5. ASSUME NEW a \in Admin, AdminStep(a) PROVE JobsAsked'
  <2>1. pc[a] # "free" /\ Goto(a, "worked") /\ UNCHANGED job
    BY <1>5 DEF AdminStep, Pause, Resume, PostProjections, DeleteProjections, DeleteEvents, WorkFails,
                InTurn
  <2> QED
    BY <1>2, <2>1 DEF Proc
<1>6. ASSUME NEW p \in Proc, QueueStep(p) PROVE JobsAsked'
  BY <1>2, <1>6 DEF QueueStep, Refused, Join, TurnAway, Start, Leave
<1>7. CASE Restart
  BY <1>7 DEF Restart, Proc
<1>8. CASE Sweep \/ Close \/ UNCHANGED vars
  BY <1>1, <1>8 DEF Sweep, Close, vars, callVars
<1> QED
  BY <1>3, <1>4, <1>5, <1>6, <1>7, <1>8 DEF Next

-----------------------------------------------------------------------------
(* The log and the counter *)

\* The steps that change the log, the counter or who has positions.
LogStep ==
    \/ \E t \in Tx : Reserve(t) \/ CommitWrite(t) \/ FailWrite(t)
    \/ \E a \in Admin : DeleteEvents(a)
    \/ Restart

(***************************************************************************)
(* Every other step leaves the log as it is, and the transaction that has  *)
(* its positions.                                                          *)
(***************************************************************************)
LEMMA Quiet ==
    ASSUME IInv, [Next]_vars, ~LogStep
    PROVE  /\ UNCHANGED <<events, nextSeq, start>>
           /\ \A t \in Tx : pc'[t] = "reserved" <=> pc[t] = "reserved"
           /\ \A t \in Tx : pc[t] = "reserved" => tx'[t] = tx[t]
<1> DEFINE Goal == /\ UNCHANGED <<events, nextSeq, start>>
                   /\ \A t \in Tx : pc'[t] = "reserved" <=> pc[t] = "reserved"
                   /\ \A t \in Tx : pc[t] = "reserved" => tx'[t] = tx[t]
<1> SUFFICES Goal
  OBVIOUS
<1> USE DEF IInv, TypeOK
<1>1. ASSUME NEW p \in Proc, pc[p] # "reserved", NEW stage, stage # "reserved",
             Goto(p, stage), UNCHANGED <<events, nextSeq, start, tx>>
      PROVE  Goal
  BY <1>1 DEF Goto, Proc
<1>2. ASSUME NEW t \in Tx, pc[t] # "reserved", NEW stage, stage # "reserved",
             pc' = pc \/ Goto(t, stage), NEW open, NEW x, UNCHANGED <<events, nextSeq, start>>,
             Registered(open, [tx EXCEPT ![t] = x])
      PROVE  Goal
  <2>1. \A u \in Tx : pc'[u] = "reserved" <=> pc[u] = "reserved"
    BY <1>2 DEF Goto, Proc
  <2>2. \A u \in Tx : pc[u] = "reserved" => tx'[u] = tx[u]
    BY <1>2, HeldKeepsBusy DEF Registered
  <2> QED
    BY <1>2, <2>1, <2>2
<1>3. ASSUME NEW p \in Proc, pc[p] # "reserved", NEW stage, stage # "reserved",
             pc' = pc \/ Goto(p, stage), UNCHANGED <<events, nextSeq, start>>,
             tx' = [u \in Tx |-> IF u \in Expired THEN NewTransaction ELSE tx[u]]
      PROVE  Goal
  <2>1. \A u \in Tx : pc'[u] = "reserved" <=> pc[u] = "reserved"
    BY <1>3 DEF Goto, Proc
  <2>2. \A u \in Tx : pc[u] = "reserved" => tx'[u] = tx[u]
    BY <1>3, HeldKeepsBusy
  <2> QED
    BY <1>3, <2>1, <2>2
<1>4. ASSUME UNCHANGED <<events, nextSeq, start, pc, tx>> PROVE Goal
  BY <1>4
<1> USE DEF fileVars, counterVars, callVars, registryVars
<1>5. ASSUME NEW t \in Tx, ClientCall(t) PROVE Goal
  <2> USE <1>5
  <2>1. CASE Begin(t)
    <3>1. pc[t] # "reserved"
      BY <2>1 DEF Begin, BusyIsOpen
    <3> QED
      BY <1>2, <2>1, <3>1 DEF Begin
  <2>2. CASE EndTx(t)
    BY <1>2, <2>2 DEF EndTx, Acquire
  <2>3. CASE Commit(t)
    BY <1>3, <2>3 DEF Commit, Acquire, Registered, Proc
  <2>4. ASSUME NEW q \in SUBSET Kind, NEW limit \in {0, 1}, ReadEvents(t, q, limit) PROVE Goal
    BY <1>2, <2>4 DEF ReadEvents, Acquire
  <2>5. ASSUME NEW batch \in Batches, WriteEvents(t, batch) PROVE Goal
    BY <1>2, <2>5 DEF WriteEvents, Acquire
  <2>6. ASSUME NEW k \in Key, GetProjection(t, k) PROVE Goal
    BY <1>2, <2>6 DEF GetProjection, Acquire
  <2>7. ASSUME NEW w \in [Key -> Operations], WriteProjections(t, w) PROVE Goal
    BY <1>2, <2>7 DEF WriteProjections, Acquire
  <2> QED
    BY <2>1, <2>2, <2>3, <2>4, <2>5, <2>6, <2>7 DEF ClientCall
<1>6. ASSUME NEW t \in Tx, Tick(t) \/ Refuse(t) PROVE Goal
  BY <1>1, <1>4, <1>6 DEF Tick, Refuse, Proc
<1>7. ASSUME NEW t \in Tx, Release(t) PROVE Goal
  BY <1>3, <1>7 DEF Release, Proc
<1>8. ASSUME NEW t \in Tx, EndCommit(t) PROVE Goal
  BY <1>2, <1>8 DEF EndCommit
<1>9. ASSUME NEW a \in Admin, (\E j \in Jobs : Request(a, j)) \/ AdminStep(a) PROVE Goal
  <2>1. ~DeleteEvents(a)
    BY DEF LogStep
  <2>2. PICK stage : stage # "reserved" /\ Goto(a, stage)
    BY <1>9 DEF Request, AdminStep, Pause, Resume, PostProjections, DeleteProjections, DeleteEvents,
                WorkFails
  <2>3. pc[a] # "reserved" /\ UNCHANGED <<events, nextSeq, start>>
    BY <1>9, <2>1 DEF Request, AdminStep, Pause, Resume, PostProjections, DeleteProjections, WorkFails,
                      InTurn
  <2>4. UNCHANGED tx \/ Registered(Live, tx)
    BY <1>9, <2>1 DEF Request, AdminStep, Pause, Resume, PostProjections, DeleteProjections, WorkFails
  <2> QED
    BY <1>1, <1>3, <2>2, <2>3, <2>4 DEF Registered, Proc
<1>10. ASSUME NEW p \in Proc, QueueStep(p) PROVE Goal
  <2>1. After(p) # "reserved"
    BY DEF After
  <2> QED
    BY <1>1, <1>10, <2>1 DEF QueueStep, Refused, Join, TurnAway, Start, Leave
<1>11. CASE Sweep
  <2>1. \A u \in Tx : pc[u] = "reserved" => tx'[u] = tx[u]
    BY <1>11, HeldKeepsBusy DEF Sweep, Registered
  <2> QED
    BY <1>11, <2>1 DEF Sweep
<1>12. CASE Close \/ UNCHANGED vars
  BY <1>4, <1>12 DEF Close, vars
<1> QED
  BY <1>5, <1>6, <1>7, <1>8, <1>9, <1>10, <1>11, <1>12 DEF Next, WriteStep, LogStep

LEMMA QuietCommitted ==
    ASSUME IInv, [Next]_vars, ~LogStep
    PROVE  LastCommitted' = LastCommitted
<1>1. (\E t \in Tx : pc'[t] = "reserved") <=> (\E t \in Tx : pc[t] = "reserved")
  BY Quiet
<1>2. nextSeq' = nextSeq /\ start' = start
  BY Quiet
<1> QED
  BY <1>1, <1>2 DEF LastCommitted

(***************************************************************************)
(* One commit at a time has positions: who reserves them, gives them to    *)
(* its events or gives them back is the only one.                          *)
(***************************************************************************)
LEMMA OneReserves ==
    ASSUME IInv, NEW p \in Proc, pc[p] \in Turn
    PROVE  \A t \in Tx : pc[t] = "reserved" => t = p
  BY DEF IInv, Turns, Turn, Proc

\* What the steps that write do to the position of the last event.
LEMMA ReserveCommitted ==
    ASSUME IInv, NEW t \in Tx, Reserve(t)
    PROVE  LastCommitted = nextSeq - 1 /\ LastCommitted' = nextSeq - 1
<1>1. ~ \E u \in Tx : pc[u] = "reserved"
  BY OneReserves DEF Reserve, Turn, Proc
<1>2. pc'[t] = "reserved"
  BY DEF Reserve, Goto, IInv, TypeOK, Proc
<1> QED
  BY <1>1, <1>2 DEF LastCommitted, Reserve

LEMMA WrittenCommitted ==
    ASSUME IInv, NEW t \in Tx, CommitWrite(t) \/ FailWrite(t)
    PROVE  LastCommitted = start - 1 /\ LastCommitted' = nextSeq' - 1
<1>1. \A u \in Tx : pc[u] = "reserved" => u = t
  BY OneReserves DEF CommitWrite, FailWrite, Turn, Proc
<1>2. pc[t] = "reserved"
  BY DEF CommitWrite, FailWrite
<1>3. ~ \E u \in Tx : pc'[u] = "reserved"
  BY <1>1 DEF CommitWrite, FailWrite, Goto, IInv, TypeOK, Proc
<1> QED
  BY <1>2, <1>3 DEF LastCommitted

LEMMA DeleteCommitted ==
    ASSUME IInv, NEW a \in Admin, DeleteEvents(a)
    PROVE  LastCommitted' = LastCommitted /\ events' = {} /\ "deleteEvents" \in Asked
<1>1. \A u \in Tx : pc'[u] = "reserved" <=> pc[u] = "reserved"
  BY RegistryAssumption DEF DeleteEvents, Goto, IInv, TypeOK, Proc
<1>2. (\E u \in Tx : pc'[u] = "reserved") <=> (\E u \in Tx : pc[u] = "reserved")
  BY <1>1
<1>3. nextSeq' = nextSeq /\ start' = start
  BY DEF DeleteEvents, counterVars
<1>4. LastCommitted' = LastCommitted
  BY <1>2, <1>3 DEF LastCommitted
<1>5. "deleteEvents" \in Asked
  BY DEF DeleteEvents, InTurn, IInv, JobsAsked
<1> QED
  BY <1>4, <1>5 DEF DeleteEvents

LEMMA RestartCommitted ==
    ASSUME IInv, Restart
    PROVE  LastCommitted' = MaxSequence(events) /\ events' = events
<1>1. ~ \E u \in Tx : pc'[u] = "reserved"
  BY DEF Restart, Proc
<1>2. nextSeq' = MaxSequence(events) + 1
  BY DEF Restart
<1>3. LastCommitted' = MaxSequence(events)
  BY <1>1, <1>2, LastEvent DEF LastCommitted
<1> QED
  BY <1>3 DEF Restart, fileVars

LEMMA NextReserved == IInv /\ [Next]_vars => Reserved'
<1> SUFFICES ASSUME IInv, [Next]_vars PROVE Reserved'
  OBVIOUS
<1> USE DEF IInv, TypeOK
<1>1. CASE ~LogStep
  BY <1>1, Quiet DEF Reserved
<1>2. ASSUME NEW t \in Tx, Reserve(t) PROVE Reserved'
  <2>1. \A u \in Tx : pc'[u] = "reserved" => u = t
    BY <1>2, OneReserves DEF Reserve, Goto, Turn, Proc
  <2>2. nextSeq' = start' + Len(tx'[t].events)
    BY <1>2 DEF Reserve, registryVars
  <2> QED
    BY <2>1, <2>2 DEF Reserved
<1>3. ASSUME NEW t \in Tx, CommitWrite(t) \/ FailWrite(t) PROVE Reserved'
  <2>1. \A u \in Tx : pc'[u] # "reserved"
    BY <1>3, OneReserves DEF CommitWrite, FailWrite, Goto, Turn, Proc
  <2> QED
    BY <2>1 DEF Reserved
<1>4. ASSUME NEW a \in Admin, DeleteEvents(a) PROVE Reserved'
  <2>1. \A u \in Tx : pc'[u] # "reserved"
    BY <1>4, OneReserves, RegistryAssumption DEF DeleteEvents, InTurn, Goto, Turn, Proc
  <2> QED
    BY <2>1 DEF Reserved
<1>5. CASE Restart
  BY <1>5 DEF Restart, Reserved, Proc
<1> QED
  BY <1>1, <1>2, <1>3, <1>4, <1>5 DEF LogStep

(***************************************************************************)
(* The events of a commit fill its positions, one each.                    *)
(***************************************************************************)
LEMMA InsertedFills ==
    ASSUME IInv, NEW t \in Tx, pc[t] = "reserved"
    PROVE  /\ \A e \in Inserted(t) : e.seq \in start..nextSeq - 1
           /\ \A e, f \in Inserted(t) : e.seq = f.seq => e = f
           /\ \A n \in start..nextSeq - 1 : \E f \in Inserted(t) : f.seq = n
<1> USE DEF IInv, TypeOK
<1>1. tx[t].events \in Seq(Kind)
  BY DEF Transaction
<1>2. DOMAIN tx[t].events = 1..Len(tx[t].events) /\ Len(tx[t].events) \in Nat
  BY <1>1
<1>3. nextSeq = start + Len(tx[t].events)
  BY DEF Reserved
<1> DEFINE E(i) == [seq |-> start + i - 1, kind |-> tx[t].events[i], by |-> t]
<1>4. Inserted(t) = {E(i) : i \in 1..Len(tx[t].events)}
  BY <1>2 DEF Inserted
<1>5. ASSUME NEW i \in 1..Len(tx[t].events) PROVE E(i).seq = start + i - 1
  OBVIOUS
<1>6. ASSUME NEW e \in Inserted(t) PROVE e.seq \in start..nextSeq - 1
  <2>1. PICK i \in 1..Len(tx[t].events) : e = E(i)
    BY <1>4
  <2>2. e.seq = start + i - 1
    BY <2>1
  <2> QED
    BY <1>2, <1>3, <2>2
<1>7. ASSUME NEW e \in Inserted(t), NEW f \in Inserted(t), e.seq = f.seq PROVE e = f
  <2>1. PICK i \in 1..Len(tx[t].events) : e = E(i)
    BY <1>4
  <2>2. PICK j \in 1..Len(tx[t].events) : f = E(j)
    BY <1>4
  <2>3. start + i - 1 = start + j - 1
    BY <1>7, <2>1, <2>2
  <2>4. i = j
    BY <1>2, <2>3
  <2> QED
    BY <2>1, <2>2, <2>4
<1>8. ASSUME NEW n \in start..nextSeq - 1 PROVE \E f \in Inserted(t) : f.seq = n
  <2>1. n - start + 1 \in 1..Len(tx[t].events)
    BY <1>2, <1>3
  <2>2. E(n - start + 1) \in Inserted(t)
    BY <1>4, <2>1
  <2>3. E(n - start + 1).seq = n
    OBVIOUS
  <2> QED
    BY <2>2, <2>3
<1> QED
  BY <1>6, <1>7, <1>8

(***************************************************************************)
(* No gap, and no position twice: a commit fills the positions after the   *)
(* last one, a failed write gives them back, and a restart finds the last  *)
(* one in the log again.                                                   *)
(***************************************************************************)
LEMMA NextNoGap == IInv /\ [Next]_vars => NoGap'
<1> SUFFICES ASSUME IInv, [Next]_vars PROVE NoGap'
  OBVIOUS
<1> USE DEF IInv
<1>1. ASSUME events' = events, LastCommitted' = LastCommitted PROVE NoGap'
  BY <1>1 DEF NoGap
<1>2. CASE ~LogStep
  BY <1>1, <1>2, Quiet, QuietCommitted
<1>3. ASSUME NEW t \in Tx, Reserve(t) PROVE NoGap'
  <2>1. events' = events
    BY <1>3 DEF Reserve, fileVars
  <2> QED
    BY <1>1, <1>3, <2>1, ReserveCommitted
<1>4. ASSUME NEW t \in Tx, FailWrite(t) PROVE NoGap'
  <2>1. events' = events /\ nextSeq' = start
    BY <1>4 DEF FailWrite, fileVars
  <2> QED
    BY <1>1, <1>4, <2>1, WrittenCommitted
<1>5. ASSUME NEW t \in Tx, CommitWrite(t) PROVE NoGap'
  <2>1. events' = events \cup Inserted(t) /\ nextSeq' = nextSeq /\ pc[t] = "reserved"
    BY <1>5 DEF CommitWrite
  <2>2. LastCommitted = start - 1 /\ LastCommitted' = nextSeq - 1
    BY <1>5, <2>1, WrittenCommitted
  <2>3. /\ \A e \in Inserted(t) : e.seq \in start..nextSeq - 1
        /\ \A e, f \in Inserted(t) : e.seq = f.seq => e = f
        /\ \A n \in start..nextSeq - 1 : \E f \in Inserted(t) : f.seq = n
    BY <2>1, InsertedFills
  <2>4. start \in Nat \ {0} /\ nextSeq \in Nat \ {0} /\ start <= nextSeq
    <3>1. Len(tx[t].events) \in Nat
      BY DEF TypeOK, Transaction
    <3> QED
      BY <2>1, <3>1 DEF TypeOK, Reserved
  <2>5. \A e \in events : e.seq \in Nat \ {0} /\ e.seq <= start - 1
    BY <2>2 DEF TypeOK, Event, NoGap
  <2>6. \A e, f \in events' : e.seq = f.seq => e = f
    BY <2>1, <2>3, <2>4, <2>5 DEF NoGap
  <2>7. \A e \in events' : e.seq <= nextSeq - 1
    BY <2>1, <2>3, <2>4, <2>5
  <2>8. ASSUME NEW e \in events', NEW n \in e.seq..nextSeq - 1 PROVE \E f \in events' : f.seq = n
    <3>0. e.seq \in Nat /\ n \in Nat
      BY <2>1, <2>3, <2>4, <2>5
    <3>1. CASE n < start
      <4>1. e \in events
        BY <2>1, <2>3, <2>4, <3>0, <3>1
      <4>2. n \in e.seq..LastCommitted
        BY <2>2, <2>4, <3>0, <3>1
      <4> QED
        BY <2>1, <4>1, <4>2 DEF NoGap
    <3>2. CASE n >= start
      <4>1. n \in start..nextSeq - 1
        BY <2>4, <3>0, <3>2
      <4> QED
        BY <2>1, <2>3, <4>1
    <3> QED
      BY <2>4, <3>0, <3>1, <3>2
  <2>9. "deleteEvents" \notin Asked /\ nextSeq - 1 > 0 => \E e \in events' : e.seq = 1
    <3>1. CASE start = 1
      <4>1. nextSeq - 1 > 0 => 1 \in start..nextSeq - 1
        BY <2>4, <3>1
      <4> QED
        BY <2>1, <2>3, <4>1
    <3>2. CASE start # 1
      BY <2>1, <2>2, <2>4, <3>2 DEF NoGap
    <3> QED
      BY <3>1, <3>2
  <2> QED
    BY <2>2, <2>6, <2>7, <2>8, <2>9 DEF NoGap
<1>6. ASSUME NEW a \in Admin, DeleteEvents(a) PROVE NoGap'
  BY <1>6, DeleteCommitted DEF NoGap
<1>7. CASE Restart
  <2>1. CASE events = {}
    <3>1. MaxSequence(events) = 0
      BY <2>1 DEF MaxSequence, IsLast
    <3> QED
      BY <1>7, <2>1, <3>1, RestartCommitted DEF NoGap
  <2>2. CASE events # {}
    BY <1>1, <1>7, <2>2, RestartCommitted, LastEvent
  <2> QED
    BY <2>1, <2>2
<1> QED
  BY <1>2, <1>3, <1>4, <1>5, <1>6, <1>7 DEF LogStep

-----------------------------------------------------------------------------
(* Positions and decisions *)

LEMMA ConditionType ==
    ASSUME TypeOK, NEW t \in Tx, NEW c \in ConditionsOf(tx[t])
    PROVE  c \in Condition
<1>1. tx[t].open \subseteq Condition /\ tx[t].conditions \in Seq(Condition)
  BY DEF TypeOK, Transaction
<1> QED
  BY <1>1 DEF ConditionsOf

(***************************************************************************)
(* Closing a condition only moves it behind the others.                    *)
(***************************************************************************)
LEMMA ClosedConditions ==
    ASSUME NEW x \in Transaction, NEW c \in x.open, NEW evs
    PROVE  ConditionsOf([x EXCEPT !.events = evs,
                                  !.conditions = Append(x.conditions, c),
                                  !.open = {}]) \subseteq ConditionsOf(x)
<1> DEFINE y == [x EXCEPT !.events = evs, !.conditions = Append(x.conditions, c), !.open = {}]
<1>1. x.conditions \in Seq(Condition) /\ c \in Condition
  BY DEF Transaction
<1>2. y.open = {} /\ y.conditions = Append(x.conditions, c)
  BY DEF Transaction
<1>3. ASSUME NEW i \in DOMAIN Append(x.conditions, c)
      PROVE  Append(x.conditions, c)[i] \in ConditionsOf(x)
  <2>1. i \in 1..Len(x.conditions) + 1
    BY <1>1
  <2>2. CASE i = Len(x.conditions) + 1
    BY <1>1, <2>2 DEF ConditionsOf
  <2>3. CASE i # Len(x.conditions) + 1
    <3>1. i \in DOMAIN x.conditions
      BY <1>1, <2>1, <2>3
    <3>2. Append(x.conditions, c)[i] = x.conditions[i]
      BY <1>1, <3>1
    <3> QED
      BY <3>1, <3>2 DEF ConditionsOf
  <2> QED
    BY <2>2, <2>3
<1> HIDE DEF y
<1>4. ConditionsOf(y) = {Append(x.conditions, c)[i] : i \in DOMAIN Append(x.conditions, c)}
  BY <1>2 DEF ConditionsOf
<1>5. ConditionsOf(y) \subseteq ConditionsOf(x)
  BY <1>3, <1>4
<1> QED
  BY <1>5 DEF y

(***************************************************************************)
(* A condition a transaction holds after a step, it held before, or has    *)
(* just been opened on the log as it is.                                   *)
(***************************************************************************)
LEMMA ConditionsComeFromReads ==
    ASSUME IInv, [Next]_vars, NEW t \in Tx, NEW c \in ConditionsOf(tx'[t])
    PROVE  \/ c \in ConditionsOf(tx[t])
           \/ /\ \E q \in SUBSET Kind : c = Opened(q, events)
              /\ events' = events /\ LastCommitted' = LastCommitted
<1> DEFINE Goal == \/ c \in ConditionsOf(tx[t])
                   \/ /\ \E q \in SUBSET Kind : c = Opened(q, events)
                      /\ events' = events /\ LastCommitted' = LastCommitted
<1> SUFFICES Goal
  OBVIOUS
<1> USE DEF IInv, TypeOK
<1>1. ASSUME NEW u \in Tx, NEW open, NEW x, ConditionsOf(x) \subseteq ConditionsOf(tx[u]),
             Registered(open, [tx EXCEPT ![u] = x])
      PROVE  Goal
  <2>1. ConditionsOf(tx'[t]) \subseteq ConditionsOf(tx[t])
    BY <1>1, NewIsTransaction DEF Registered
  <2> QED
    BY <2>1
<1>2. ASSUME tx' = [u \in Tx |-> IF u \in Expired THEN NewTransaction ELSE tx[u]]
      PROVE  Goal
  BY <1>2, NewIsTransaction
<1>3. ASSUME UNCHANGED tx PROVE Goal
  BY <1>3
<1> USE DEF fileVars, counterVars, callVars, registryVars
<1>4. ASSUME NEW u \in Tx, ClientCall(u) PROVE Goal
  <2>1. tx[u] \in Transaction
    OBVIOUS
  <2>2. CASE Begin(u) \/ EndTx(u)
    BY <1>1, <2>2, NewIsTransaction DEF Begin, EndTx
  <2>3. CASE Commit(u)
    BY <1>2, <2>3 DEF Commit, Registered
  <2>4. ASSUME NEW q \in SUBSET Kind, NEW limit \in {0, 1}, ReadEvents(u, q, limit) PROVE Goal
    <3> DEFINE x == [tx[u] EXCEPT !.open = {Opened(q, events)}]
    <3>1. Registered(Live, [tx EXCEPT ![u] = x]) /\ Goto(u, "called") /\ pc[u] = "free"
          /\ UNCHANGED <<events, nextSeq, start>>
      BY <2>4 DEF ReadEvents, Acquire
    <3>2. x.open = {Opened(q, events)} /\ x.conditions = tx[u].conditions
      BY <2>1 DEF Transaction
    <3>3. \A d \in ConditionsOf(x) : d \in ConditionsOf(tx[u]) \/ d = Opened(q, events)
      BY <3>2 DEF ConditionsOf
    <3> HIDE DEF x
    <3>4. c \in ConditionsOf(tx[t]) \/ c = Opened(q, events)
      BY <3>1, <3>3, NewIsTransaction DEF Registered
    <3>5. (\E v \in Tx : pc'[v] = "reserved") <=> (\E v \in Tx : pc[v] = "reserved")
      <4>1. \A v \in Tx : pc'[v] = "reserved" <=> pc[v] = "reserved"
        BY <3>1 DEF Goto, Proc
      <4> QED
        BY <4>1
    <3>6. LastCommitted' = LastCommitted
      BY <3>1, <3>5 DEF LastCommitted
    <3> QED
      BY <3>1, <3>4, <3>6
  <2>5. ASSUME NEW batch \in Batches, WriteEvents(u, batch) PROVE Goal
    <3>1. PICK d \in tx[u].open :
            Registered(Live, [tx EXCEPT ![u] =
                                [tx[u] EXCEPT !.events = tx[u].events \o batch,
                                              !.conditions = Append(tx[u].conditions, d),
                                              !.open = {}]])
      BY <2>5 DEF WriteEvents
    <3> DEFINE x == [tx[u] EXCEPT !.events = tx[u].events \o batch,
                                  !.conditions = Append(tx[u].conditions, d),
                                  !.open = {}]
    <3>2. ConditionsOf(x) \subseteq ConditionsOf(tx[u])
      BY <2>1, ClosedConditions
    <3>3. Registered(Live, [tx EXCEPT ![u] = x])
      BY <3>1
    <3> HIDE DEF x
    <3> QED
      BY <1>1, <3>2, <3>3
  <2>6. ASSUME NEW k \in Key, GetProjection(u, k) PROVE Goal
    <3> DEFINE x == [tx[u] EXCEPT !.projections[k] = Fetched(tx[u].projections[k], version[k])]
    <3>1. x.open = tx[u].open /\ x.conditions = tx[u].conditions
      BY <2>1 DEF Transaction
    <3>2. ConditionsOf(x) = ConditionsOf(tx[u])
      BY <3>1 DEF ConditionsOf
    <3>3. Registered(Live, [tx EXCEPT ![u] = x])
      BY <2>6 DEF GetProjection
    <3> QED
      BY <1>1, <3>2, <3>3
  <2>7. ASSUME NEW w \in [Key -> Operations], WriteProjections(u, w) PROVE Goal
    <3> DEFINE x == [tx[u] EXCEPT !.projections = [k \in Key |-> Written(w[k], tx[u].projections[k])]]
    <3>1. x.open = tx[u].open /\ x.conditions = tx[u].conditions
      BY <2>1 DEF Transaction
    <3>2. ConditionsOf(x) = ConditionsOf(tx[u])
      BY <3>1 DEF ConditionsOf
    <3>3. Registered(Live, [tx EXCEPT ![u] = x])
      BY <2>7 DEF WriteProjections
    <3> QED
      BY <1>1, <3>2, <3>3
  <2> QED
    BY <1>4, <2>2, <2>3, <2>4, <2>5, <2>6, <2>7 DEF ClientCall
<1>5. ASSUME NEW u \in Tx, Tick(u) \/ WriteStep(u) PROVE Goal
  BY <1>3, <1>5 DEF Tick, WriteStep, Reserve, Refuse, CommitWrite, FailWrite
<1>6. ASSUME NEW u \in Tx, Release(u) PROVE Goal
  BY <1>2, <1>6 DEF Release
<1>7. ASSUME NEW u \in Tx, EndCommit(u) PROVE Goal
  BY <1>1, <1>7, NewIsTransaction DEF EndCommit
<1>8. ASSUME NEW a \in Admin, (\E j \in Jobs : Request(a, j)) \/ AdminStep(a) PROVE Goal
  BY <1>2, <1>3, <1>8 DEF Request, AdminStep, Pause, Resume, PostProjections, DeleteProjections,
                          DeleteEvents, WorkFails, Registered
<1>9. ASSUME NEW p \in Proc, QueueStep(p) PROVE Goal
  BY <1>3, <1>9 DEF QueueStep, Refused, Join, TurnAway, Start, Leave
<1>10. CASE Restart
  BY <1>10, NewIsTransaction DEF Restart
<1>11. CASE Sweep
  BY <1>2, <1>11 DEF Sweep, Registered
<1>12. CASE Close \/ UNCHANGED vars
  BY <1>3, <1>12 DEF Close, vars
<1> QED
  BY <1>4, <1>5, <1>6, <1>7, <1>8, <1>9, <1>10, <1>11, <1>12 DEF Next

(***************************************************************************)
(* What a read saw up to its position stays all there is: later events get *)
(* later positions, and the counter never falls behind a position while a  *)
(* transaction holds it.                                                   *)
(***************************************************************************)
LEMMA NextPositions == IInv /\ [Next]_vars => Positions'
<1> SUFFICES ASSUME IInv, [Next]_vars, NEW t \in Tx, NEW c \in ConditionsOf(tx'[t])
             PROVE  Sound(c)'
  BY DEF Positions
<1>2. \/ c \in ConditionsOf(tx[t])
      \/ Sound(c) /\ events' = events /\ LastCommitted' = LastCommitted
  BY ConditionsComeFromReads, OpenedSound
<1> USE DEF IInv
<1>1. ASSUME Sound(c), events' \subseteq events, LastCommitted' = LastCommitted PROVE Sound(c)'
  BY <1>1 DEF Sound
<1>3. ASSUME c \in ConditionsOf(tx[t]) PROVE Sound(c)'
  <2>1. Sound(c)
    BY <1>3 DEF Positions
  <2>2. CASE ~LogStep
    BY <1>1, <2>1, <2>2, Quiet, QuietCommitted
  <2>3. ASSUME NEW u \in Tx, Reserve(u) PROVE Sound(c)'
    <3>1. events' = events
      BY <2>3 DEF Reserve, fileVars
    <3> QED
      BY <1>1, <2>1, <2>3, <3>1, ReserveCommitted
  <2>4. ASSUME NEW u \in Tx, FailWrite(u) PROVE Sound(c)'
    <3>1. events' = events /\ nextSeq' = start
      BY <2>4 DEF FailWrite, fileVars
    <3> QED
      BY <1>1, <2>1, <2>4, <3>1, WrittenCommitted
  <2>5. ASSUME NEW u \in Tx, CommitWrite(u) PROVE Sound(c)'
    <3>1. events' = events \cup Inserted(u) /\ nextSeq' = nextSeq /\ pc[u] = "reserved"
      BY <2>5 DEF CommitWrite
    <3>2. LastCommitted = start - 1 /\ LastCommitted' = nextSeq - 1
      BY <2>5, <3>1, WrittenCommitted
    <3>3. \A e \in Inserted(u) : e.seq \in start..nextSeq - 1
      BY <3>1, InsertedFills
    <3>4. start \in Nat /\ nextSeq \in Nat /\ start <= nextSeq
      <4>1. Len(tx[u].events) \in Nat
        BY DEF TypeOK, Transaction
      <4> QED
        BY <3>1, <4>1 DEF TypeOK, Reserved
    <3>5. c.after \in Nat
      BY <1>3, ConditionType DEF Condition
    <3>6. c.after <= start - 1
      BY <2>1, <3>2 DEF Sound
    <3>7. ASSUME NEW e \in events', e.kind \in c.query, e.seq <= c.after PROVE e \in c.seen
      <4>1. e \notin Inserted(u)
        BY <3>3, <3>4, <3>5, <3>6, <3>7
      <4> QED
        BY <2>1, <3>1, <3>7, <4>1 DEF Sound
    <3>8. c.after <= LastCommitted'
      BY <3>2, <3>4, <3>5, <3>6
    <3> QED
      BY <3>7, <3>8 DEF Sound
  <2>6. ASSUME NEW a \in Admin, DeleteEvents(a) PROVE Sound(c)'
    BY <1>1, <2>1, <2>6, DeleteCommitted
  <2>7. CASE Restart
    BY <2>7, NewIsTransaction DEF Restart
  <2> QED
    BY <2>2, <2>3, <2>4, <2>5, <2>6, <2>7 DEF LogStep
<1> QED
  BY <1>1, <1>2, <1>3

(***************************************************************************)
(* checkCondition: whichever way it answers, by "none", by the counter or  *)
(* by SQL, a condition that holds is one whose read saw all that matches.  *)
(***************************************************************************)
LEMMA HoldsMeansSeen ==
    ASSUME IInv, NEW t \in Tx, NEW c \in ConditionsOf(tx[t]), LastCommitted = nextSeq - 1,
           Holds(c, events, LastSequence)
    PROVE  Matching(c.query, events) \subseteq c.seen
<1> USE DEF IInv
<1>1. Sound(c)
  BY DEF Positions
<1>2. CASE c.query = None
  BY <1>2 DEF Matching, None
<1>3. CASE c.after = LastSequence
  <2>1. \A e \in events : e.seq <= c.after
    BY <1>3 DEF NoGap, LastSequence
  <2> QED
    BY <1>1, <2>1 DEF Sound, Matching
<1>4. CASE NoneAfter(c, events)
  BY <1>1, <1>4 DEF Sound, Matching, NoneAfter
<1> QED
  BY <1>2, <1>3, <1>4 DEF Holds

LEMMA NextDecisions == IInv /\ [Next]_vars => DecisionsHold'
<1> SUFFICES ASSUME IInv, [Next]_vars PROVE DecisionsHold'
  OBVIOUS
<1> USE DEF IInv, TypeOK
<1>1. ASSUME \A t \in Tx : pc'[t] # "reserved" PROVE DecisionsHold'
  BY <1>1 DEF DecisionsHold
<1>2. ASSUME NEW t \in Tx, Reserve(t) PROVE DecisionsHold'
  <2>1. \A u \in Tx : pc'[u] = "reserved" => u = t
    BY <1>2, OneReserves DEF Reserve, Goto, Turn, Proc
  <2>2. UNCHANGED <<events, version, tx>>
    BY <1>2 DEF Reserve, fileVars, registryVars
  <2>3. ASSUME NEW k \in Key, tx[t].projections[k].written,
               tx[t].projections[k].read # NoVersion \/ tx[t].projections[k].found
        PROVE  version[k] = tx[t].projections[k].read
    <3>1. VersionsHold(NetProjections(tx[t].projections), version)
      BY <1>2 DEF Reserve, AllHold
    <3>2. tx[t].projections[k] \in ProjectionState
      BY DEF Transaction
    <3> QED
      BY <2>3, <3>1, <3>2, NetWrites DEF VersionsHold
  <2>4. ASSUME NEW i \in DOMAIN tx[t].conditions
        PROVE  Matching(tx[t].conditions[i].query, events) \subseteq tx[t].conditions[i].seen
    <3>1. Holds(tx[t].conditions[i], events, LastSequence)
      BY <1>2 DEF Reserve, AllHold
    <3>2. tx[t].conditions[i] \in ConditionsOf(tx[t])
      BY DEF ConditionsOf
    <3> QED
      BY <1>2, <3>1, <3>2, ReserveCommitted, HoldsMeansSeen
  <2> QED
    BY <2>1, <2>2, <2>3, <2>4 DEF DecisionsHold
<1>3. ASSUME NEW t \in Tx, CommitWrite(t) \/ FailWrite(t) PROVE DecisionsHold'
  <2>1. \A u \in Tx : pc'[u] # "reserved"
    BY <1>3, OneReserves DEF CommitWrite, FailWrite, Goto, Turn, Proc
  <2> QED
    BY <1>1, <2>1
<1>4. ASSUME NEW a \in Admin, pc[a] = "turn", Goto(a, "worked") PROVE DecisionsHold'
  <2>1. \A u \in Tx : pc'[u] # "reserved"
    BY <1>4, OneReserves, RegistryAssumption DEF Goto, Turn, Proc
  <2> QED
    BY <1>1, <2>1
<1>5. CASE Restart
  BY <1>1, <1>5 DEF Restart, Proc
<1>6. CASE ~LogStep /\ UNCHANGED version
  <2>1. /\ events' = events
        /\ \A t \in Tx : pc'[t] = "reserved" => pc[t] = "reserved" /\ tx'[t] = tx[t]
    BY <1>6, Quiet
  <2> QED
    BY <1>6, <2>1 DEF DecisionsHold
<1>7. CASE ~LogStep /\ version' # version
  <2>1. PICK a \in Admin : PostProjections(a) \/ DeleteProjections(a)
    <3>1. ASSUME NEW t \in Tx, ClientCall(t) PROVE version' = version
      BY <3>1 DEF ClientCall, Begin, ReadEvents, WriteEvents, GetProjection, WriteProjections, EndTx,
                  Commit, fileVars
    <3>2. ASSUME NEW t \in Tx, Tick(t) \/ Release(t) \/ EndCommit(t) \/ Refuse(t) PROVE version' = version
      BY <3>2 DEF Tick, Release, EndCommit, Refuse, fileVars
    <3>3. ASSUME NEW b \in Admin,
                 (\E x \in Jobs : Request(b, x)) \/ Pause(b) \/ Resume(b) \/ WorkFails(b)
          PROVE  version' = version
      BY <3>3 DEF Request, Pause, Resume, WorkFails, fileVars
    <3>4. ASSUME NEW p \in Proc, QueueStep(p) PROVE version' = version
      BY <3>4 DEF QueueStep, Refused, Join, TurnAway, Start, Leave, fileVars
    <3>5. Sweep \/ Close \/ UNCHANGED vars => version' = version
      BY DEF Sweep, Close, vars, fileVars
    <3> QED
      BY <1>7, <3>1, <3>2, <3>3, <3>4, <3>5 DEF Next, LogStep, WriteStep, AdminStep
  <2> QED
    BY <1>4, <2>1 DEF PostProjections, DeleteProjections, InTurn
<1>8. ASSUME NEW a \in Admin, DeleteEvents(a) PROVE DecisionsHold'
  BY <1>4, <1>8 DEF DeleteEvents, InTurn
<1> QED
  BY <1>2, <1>3, <1>5, <1>6, <1>7, <1>8 DEF LogStep

LEMMA SpecIInv == Spec => []IInv
<1>1. IInv /\ [Next]_vars => IInv'
  BY NextTypes, NextTurns, NextBusy, NextPause, NextJobs, NextReserved, NextNoGap, NextPositions,
     NextDecisions DEF IInv
<1> QED
  BY <1>1, InitIInv, PTL DEF Spec

-----------------------------------------------------------------------------

(***************************************************************************)
(* The variables keep their types: no position is lost below 1, and no     *)
(* transaction holds what the code has no room for.                        *)
(***************************************************************************)
THEOREM TypeCorrect == Spec => []TypeOK
<1>1. IInv => TypeOK
  BY DEF IInv
<1> QED
  BY <1>1, SpecIInv, PTL

(***************************************************************************)
(* tx.Commit and store.Append: when a commit writes, every read it rests   *)
(* on would read the same again, and every projection it writes is the one *)
(* it read.                                                                *)
(***************************************************************************)
THEOREM DecisionsAreCurrent == Spec => []DecisionsHold
<1>1. IInv => DecisionsHold
  BY DEF IInv
<1> QED
  BY <1>1, SpecIInv, PTL

(***************************************************************************)
(* store.Append: positions without a gap, and none given twice, through    *)
(* failed writes and crashes.                                              *)
(***************************************************************************)
THEOREM LogHasNoGap == Spec => []NoGap
<1>1. IInv => NoGap
  BY DEF IInv
<1> QED
  BY <1>1, SpecIInv, PTL

(***************************************************************************)
(* A step of another call, of a request, or of time, leaves a transaction  *)
(* in use registered, and its call where it is.                            *)
(***************************************************************************)
LeftAlone(t) == t \in txs' /\ pc'[t] = pc[t]

LEMMA OthersKeep ==
    ASSUME IInv, NEW t \in Tx, pc[t] # "free"
    PROVE  /\ Sweep \/ Close \/ UNCHANGED vars => LeftAlone(t)
           /\ \A u \in Tx : Tick(u) \/ (u # t /\ WriteStep(u)) => LeftAlone(t)
           /\ \A u \in Tx : u # t /\ (Release(u) \/ EndCommit(u)) => LeftAlone(t)
           /\ \A u \in Tx : ClientCall(u) => LeftAlone(t)
           /\ \A a \in Admin : (\E j \in Jobs : Request(a, j)) \/ AdminStep(a) => LeftAlone(t)
           /\ \A p \in Proc : p # t /\ QueueStep(p) => LeftAlone(t)
<1>1. t \in txs /\ t \in Live /\ t \in Proc /\ pc \in [Proc -> Stages]
  BY HeldKeepsBusy DEF IInv, TypeOK, BusyIsOpen, Proc
<1>2. ASSUME NEW p \in Proc, p # t, NEW stage, Goto(p, stage) PROVE pc'[t] = pc[t]
  BY <1>1, <1>2 DEF Goto
<1>3. Sweep \/ Close \/ UNCHANGED vars => LeftAlone(t)
  BY <1>1 DEF LeftAlone, Sweep, Close, vars, registryVars, callVars, Registered
<1>4. ASSUME NEW u \in Tx, Tick(u) PROVE LeftAlone(t)
  BY <1>1, <1>4 DEF LeftAlone, Tick, callVars
<1>5. ASSUME NEW u \in Tx, u # t, WriteStep(u) PROVE LeftAlone(t)
  <2>1. txs' = txs /\ \E stage : Goto(u, stage)
    BY <1>5 DEF WriteStep, Reserve, Refuse, CommitWrite, FailWrite, registryVars
  <2> QED
    BY <1>1, <1>2, <1>5, <2>1 DEF LeftAlone, Proc
<1>6. ASSUME NEW u \in Tx, u # t, Release(u) \/ EndCommit(u) PROVE LeftAlone(t)
  <2>1. (txs' = Live \/ txs' = Live \ {u}) /\ \E stage : Goto(u, stage)
    BY <1>6 DEF Release, EndCommit, Registered
  <2> QED
    BY <1>1, <1>2, <1>6, <2>1 DEF LeftAlone, Proc
<1>7. ASSUME NEW u \in Tx, ClientCall(u) PROVE LeftAlone(t)
  <2>1. CASE Begin(u)
    BY <1>1, <2>1 DEF LeftAlone, Begin, Registered, callVars
  <2>2. CASE EndTx(u)
    BY <1>1, <2>2 DEF LeftAlone, EndTx, Registered, callVars, Acquire
  <2>3. ASSUME pc[u] = "free", txs' = Live, NEW stage, Goto(u, stage) PROVE LeftAlone(t)
    BY <1>1, <1>2, <2>3 DEF LeftAlone, Proc
  <2> QED
    BY <1>7, <2>1, <2>2, <2>3 DEF ClientCall, ReadEvents, WriteEvents, GetProjection,
                                  WriteProjections, Commit, Acquire, Registered
<1>8. ASSUME NEW a \in Admin, (\E j \in Jobs : Request(a, j)) \/ AdminStep(a) PROVE LeftAlone(t)
  <2>1. (txs' = Live \/ txs' = txs) /\ \E stage : Goto(a, stage)
    BY <1>8 DEF Request, AdminStep, Pause, Resume, PostProjections, DeleteProjections, DeleteEvents,
                WorkFails, registryVars, Registered
  <2>2. a # t /\ a \in Proc
    BY RegistryAssumption DEF Proc
  <2> QED
    BY <1>1, <1>2, <2>1, <2>2 DEF LeftAlone
<1>9. ASSUME NEW p \in Proc, p # t, QueueStep(p) PROVE LeftAlone(t)
  <2>1. txs' = txs /\ \E stage : Goto(p, stage)
    BY <1>9 DEF QueueStep, Refused, Join, TurnAway, Start, Leave, registryVars
  <2> QED
    BY <1>1, <1>2, <1>9, <2>1 DEF LeftAlone
<1> QED
  BY <1>3, <1>4, <1>5, <1>6, <1>7, <1>8, <1>9

(***************************************************************************)
(* tx.lock, tx.release and tx.Commit: no call loses its transaction, to    *)
(* expiry or to its own release, and every commit that asked for its turn  *)
(* ends it, refused ones included.                                         *)
(***************************************************************************)
THEOREM LivesWithItsCalls == Spec => EndsWithItsCommit
<1> DEFINE Lives(t) ==
             /\ pc'[t] # "free" => t \in txs'
             /\ pc[t] = "called" => t \in txs' \/ Restart
             /\ pc[t] \notin {"free", "called"} /\ pc'[t] = "free" => t \notin txs'
<1>1. ASSUME IInv, [Next]_vars PROVE [\A t \in Tx : Lives(t)]_vars
  <2> SUFFICES ASSUME NEW t \in Tx, Next PROVE Lives(t)
    BY <1>1
  <2>1. pc'[t] # "free" => t \in txs'
    BY <1>1, NextBusy DEF BusyIsOpen
  <2>2. ASSUME pc[t] # "free"
        PROVE  /\ pc[t] = "called" => t \in txs' \/ Restart
               /\ pc[t] # "called" /\ pc'[t] = "free" => t \notin txs'
    <3>1. t \in Live /\ t \in Proc /\ pc \in [Proc -> Stages]
      BY <1>1, <2>2, HeldKeepsBusy DEF IInv, TypeOK, Proc
    <3>2. CASE LeftAlone(t)
      BY <2>2, <3>2 DEF LeftAlone
    <3>3. CASE Restart
      BY <3>3 DEF Restart
    <3>4. CASE Release(t)
      BY <3>1, <3>4 DEF Release
    <3>5. CASE EndCommit(t)
      BY <3>1, <3>5 DEF EndCommit, Registered
    <3>6. CASE WriteStep(t)
      BY <3>1, <3>6 DEF WriteStep, Reserve, Refuse, CommitWrite, FailWrite, Goto
    <3>7. CASE QueueStep(t)
      BY <3>1, <3>7 DEF QueueStep, Refused, Join, TurnAway, Start, Leave, Goto, After
    <3>8. ASSUME NEW u \in Tx, Tick(u) \/ ClientCall(u) \/ Release(u) \/ EndCommit(u) \/ WriteStep(u)
          PROVE  LeftAlone(t) \/ Release(t) \/ EndCommit(t) \/ WriteStep(t)
      BY <1>1, <2>2, <3>8, OthersKeep
    <3>9. ASSUME NEW a \in Admin, (\E j \in Jobs : Request(a, j)) \/ AdminStep(a)
          PROVE  LeftAlone(t)
      BY <1>1, <2>2, <3>9, OthersKeep
    <3>10. ASSUME NEW p \in Proc, QueueStep(p)
           PROVE  LeftAlone(t) \/ QueueStep(t)
      BY <1>1, <2>2, <3>10, OthersKeep
    <3>11. Sweep \/ Close => LeftAlone(t)
      BY <1>1, <2>2, OthersKeep
    <3> QED
      BY <3>2, <3>3, <3>4, <3>5, <3>6, <3>7, <3>8, <3>9, <3>10, <3>11 DEF Next
  <2> QED
    BY <2>1, <2>2
<1> QED
  BY <1>1, SpecIInv, PTL DEF Spec, EndsWithItsCommit

(***************************************************************************)
(* tx.Pause: the state and the store agree, and no commit is under way     *)
(* while the pause is in place.                                            *)
(***************************************************************************)
THEOREM PauseHolds == Spec => []PauseInPlace
<1>1. IInv => PauseInPlace
  BY DEF IInv
<1> QED
  BY <1>1, SpecIInv, PTL

(***************************************************************************)
(* tx.Pause: no event enters the log while a pause is in place, across     *)
(* crashes.                                                                *)
(***************************************************************************)
THEOREM PausedLogIsStill == Spec => StillWhilePaused
<1>1. ASSUME IInv, [Next]_vars PROVE [paused /\ paused' => events' \subseteq events]_vars
  <2> SUFFICES ASSUME paused PROVE events' \subseteq events
    OBVIOUS
  <2>1. \A t \in Tx : pc[t] # "reserved"
    BY <1>1 DEF IInv, PauseInPlace
  <2>2. CASE ~LogStep
    BY <1>1, <2>2, Quiet
  <2>3. CASE LogStep
    BY <2>1, <2>3 DEF LogStep, Reserve, CommitWrite, FailWrite, DeleteEvents, Restart, fileVars
  <2> QED
    BY <2>2, <2>3
<1> QED
  BY <1>1, SpecIInv, PTL DEF Spec, StillWhilePaused

-----------------------------------------------------------------------------
(* The line and the calls *)

Waits == {"queued"} \cup Turn

\* The line holds the calls that wait for a turn or have it, each once, and
\* the one that works is at the head.
LineIsCalls ==
    /\ \A i, j \in DOMAIN line : line[i] = line[j] => i = j
    /\ \A i \in DOMAIN line : pc[line[i]] \in Waits
    /\ \A p \in Proc : pc[p] \in Waits => \E i \in DOMAIN line : line[i] = p
    /\ working => \E p \in Proc : pc[p] \in Turn
    /\ \A p \in Proc : pc[p] \in Turn => working /\ line # <<>> /\ line[1] = p

LEMMA InitLine == Init => LineIsCalls
  BY DEF Init, Queue!Init, LineIsCalls, Waits, Turn, Proc

LEMMA LineStays ==
    ASSUME TypeOK, LineIsCalls, UNCHANGED <<line, working>>,
           NEW p \in Proc, NEW stage, Goto(p, stage),
           stage \in Waits <=> pc[p] \in Waits, stage \in Turn <=> pc[p] \in Turn
    PROVE  LineIsCalls'
<1>1. /\ \A q \in Proc : (pc'[q] \in Waits <=> pc[q] \in Waits) /\ (pc'[q] \in Turn <=> pc[q] \in Turn)
      /\ \A i \in DOMAIN line : line[i] \in Proc
      /\ line' = line
      /\ working' = working
  BY DEF TypeOK, Goto
<1> QED
  BY <1>1 DEF LineIsCalls

\* Join: a call that is not in line takes the last place.
LEMMA LineJoins ==
    ASSUME TypeOK, LineIsCalls, NEW p \in Proc, Join(p)
    PROVE  LineIsCalls'
<1> USE DEF LineIsCalls
<1>1. /\ line' = Append(line, p) /\ working' = working
      /\ pc[p] = "joining" /\ pc'[p] = "queued"
      /\ \A q \in Proc : q # p => pc'[q] = pc[q]
      /\ \A i \in DOMAIN line : line[i] \in Proc
      /\ line \in Seq(Proc)
  BY DEF Join, Queue!Enter, Goto, TypeOK
<1>2. \A i \in DOMAIN line : line[i] # p
  BY <1>1 DEF Waits, Turn
<1>3. /\ DOMAIN line = 1..Len(line) /\ Len(line) \in Nat
      /\ DOMAIN line' = 1..(Len(line) + 1)
      /\ \A i \in DOMAIN line : line'[i] = line[i]
      /\ line'[Len(line) + 1] = p
      /\ line' # <<>>
  BY <1>1
<1>4. \A i \in DOMAIN line' : i \in DOMAIN line \/ i = Len(line) + 1
  BY <1>3
<1>5. \A i, j \in DOMAIN line' : line'[i] = line'[j] => i = j
  BY <1>2, <1>3, <1>4
<1>6. \A i \in DOMAIN line' : pc'[line'[i]] \in Waits
  BY <1>1, <1>2, <1>3, <1>4 DEF Waits
<1>7. \A q \in Proc : pc'[q] \in Waits => \E i \in DOMAIN line' : line'[i] = q
  <2> SUFFICES ASSUME NEW q \in Proc, pc'[q] \in Waits PROVE \E i \in DOMAIN line' : line'[i] = q
    OBVIOUS
  <2>1. CASE q = p
    <3>1. Len(line) + 1 \in DOMAIN line'
      BY <1>3
    <3> QED
      BY <2>1, <3>1, <1>3
  <2>2. CASE q # p
    <3>1. PICK i \in DOMAIN line : line[i] = q
      BY <2>2, <1>1
    <3>2. i \in DOMAIN line'
      BY <1>3
    <3> QED
      BY <3>1, <3>2, <1>3
  <2> QED
    BY <2>1, <2>2
<1>8. \A q \in Proc : pc'[q] \in Turn <=> pc[q] \in Turn
  BY <1>1 DEF Turn
<1>9. \A q \in Proc : pc'[q] \in Turn => working' /\ line' # <<>> /\ line'[1] = q
  <2> SUFFICES ASSUME NEW q \in Proc, pc'[q] \in Turn PROVE working' /\ line'[1] = q
    BY <1>3
  <2>1. working /\ line # <<>> /\ line[1] = q
    BY <1>8
  <2>2. 1 \in DOMAIN line
    BY <1>1, <1>3, <2>1
  <2> QED
    BY <2>1, <2>2, <1>1, <1>3
<1> QED
  BY <1>1, <1>5, <1>6, <1>7, <1>8, <1>9

\* A sequence without its k-th element.
LEMMA OneLess ==
    ASSUME NEW S, NEW s \in Seq(S), NEW k \in 1..Len(s)
    PROVE  LET w == SubSeq(s, 1, k - 1) \o SubSeq(s, k + 1, Len(s))
           IN  /\ w \in Seq(S)
               /\ Len(w) = Len(s) - 1
               /\ \A i \in 1..(k - 1) : w[i] = s[i]
               /\ \A i \in k..(Len(s) - 1) : w[i] = s[i + 1]
<1> DEFINE n == Len(s)
           a == SubSeq(s, 1, k - 1)
           b == SubSeq(s, k + 1, n)
<1>1. n \in Nat /\ k \in 1..n /\ \A i \in 1..n : s[i] \in S
  OBVIOUS
<1> HIDE DEF n
<1>2. a \in Seq(S) /\ Len(a) = k - 1 /\ \A i \in 1..(k - 1) : a[i] = s[i]
  <2>1. 1 \in Int /\ k - 1 \in Int /\ k - 1 >= 0 /\ \A i \in 1..(k - 1) : s[i] \in S
    BY <1>1
  <2>2. /\ a \in Seq(S)
        /\ Len(a) = IF 1 <= k - 1 THEN k - 1 - 1 + 1 ELSE 0
        /\ \A i \in 1..(k - 1 - 1 + 1) : a[i] = s[1 + i - 1]
    BY <2>1, SubSeqProperties
  <2> HIDE DEF a
  <2> QED
    BY <2>1, <2>2
<1>3. b \in Seq(S) /\ Len(b) = n - k /\ \A i \in 1..(n - k) : b[i] = s[k + i]
  <2>1. k + 1 \in Int /\ n \in Int /\ k \in Int /\ k <= n /\ \A i \in (k + 1)..n : s[i] \in S
    BY <1>1
  <2>2. /\ b \in Seq(S)
        /\ Len(b) = IF k + 1 <= n THEN n - (k + 1) + 1 ELSE 0
        /\ \A i \in 1..(n - (k + 1) + 1) : b[i] = s[k + 1 + i - 1]
    BY <2>1, SubSeqProperties
  <2>3. n - (k + 1) + 1 = n - k /\ \A i \in 1..(n - k) : k + 1 + i - 1 = k + i
    BY <2>1
  <2> HIDE DEF b
  <2> QED
    BY <2>1, <2>2, <2>3
<1> HIDE DEF a, b
<1>4. /\ a \o b \in Seq(S)
      /\ Len(a \o b) = Len(a) + Len(b)
      /\ \A i \in 1..(Len(a) + Len(b)) : (a \o b)[i] = IF i <= Len(a) THEN a[i] ELSE b[i - Len(a)]
  BY <1>2, <1>3, ConcatProperties
<1>5. Len(a) + Len(b) = n - 1
  BY <1>1, <1>2, <1>3
<1>6. ASSUME NEW i \in 1..(k - 1) PROVE (a \o b)[i] = s[i]
  <2>1. i \in 1..(n - 1) /\ i <= k - 1
    BY <1>1
  <2> QED
    BY <2>1, <1>2, <1>4, <1>5
<1>7. ASSUME NEW i \in k..(n - 1) PROVE (a \o b)[i] = s[i + 1]
  <2>1. /\ i \in 1..(n - 1) /\ ~(i <= k - 1)
        /\ i - (k - 1) \in 1..(n - k)
        /\ k + (i - (k - 1)) = i + 1
    BY <1>1
  <2>2. (a \o b)[i] = b[i - (k - 1)]
    BY <2>1, <1>2, <1>4, <1>5
  <2>3. b[i - (k - 1)] = s[k + (i - (k - 1))]
    BY <2>1, <1>3
  <2> QED
    BY <2>1, <2>2, <2>3
<1> QED
  BY <1>4, <1>5, <1>6, <1>7 DEF a, b, n

\* Whoever leaves the line leaves it from their place, and is none of the others.
LEMMA LineLeaves ==
    ASSUME TypeOK, LineIsCalls, NEW p \in Proc, NEW k \in DOMAIN line, line[k] = p,
           line' = SubSeq(line, 1, k - 1) \o SubSeq(line, k + 1, Len(line)),
           NEW stage, stage \notin Waits, Goto(p, stage),
           IF pc[p] \in Turn THEN working' = FALSE ELSE working' = working
    PROVE  LineIsCalls'
<1> DEFINE n == Len(line)
<1>0. /\ \A i, j \in DOMAIN line : line[i] = line[j] => i = j
      /\ \A i \in DOMAIN line : pc[line[i]] \in Waits
      /\ \A q \in Proc : pc[q] \in Waits => \E i \in DOMAIN line : line[i] = q
      /\ working => \E q \in Proc : pc[q] \in Turn
      /\ \A q \in Proc : pc[q] \in Turn => working /\ line # <<>> /\ line[1] = q
  BY DEF LineIsCalls
<1>1. line \in Seq(Proc) /\ DOMAIN line = 1..n /\ n \in Nat /\ k \in 1..n
  BY DEF TypeOK
<1>2. /\ pc'[p] \notin Waits /\ pc'[p] \notin Turn
      /\ \A q \in Proc : q # p => pc'[q] = pc[q]
      /\ \A i \in 1..n : line[i] \in Proc
  BY <1>1 DEF Goto, TypeOK, Waits
<1>3. /\ DOMAIN line' = 1..(n - 1)
      /\ \A i \in 1..(k - 1) : line'[i] = line[i]
      /\ \A i \in k..(n - 1) : line'[i] = line[i + 1]
  <2>1. /\ line' \in Seq(Proc)
        /\ Len(line') = n - 1
        /\ \A i \in 1..(k - 1) : line'[i] = line[i]
        /\ \A i \in k..(n - 1) : line'[i] = line[i + 1]
    <3> DEFINE w == SubSeq(line, 1, k - 1) \o SubSeq(line, k + 1, Len(line))
    <3>1. /\ w \in Seq(Proc)
          /\ Len(w) = Len(line) - 1
          /\ \A i \in 1..(k - 1) : w[i] = line[i]
          /\ \A i \in k..(Len(line) - 1) : w[i] = line[i + 1]
      BY <1>1, OneLess
    <3>2. line' = w
      OBVIOUS
    <3> HIDE DEF w
    <3> QED
      BY <3>1, <3>2
  <2> HIDE DEF n
  <2>2. DOMAIN line' = 1..Len(line')
    BY <2>1
  <2> QED
    BY <2>1, <2>2
<1> HIDE DEF n
<1> DEFINE Was(i) == IF i < k THEN i ELSE i + 1
<1>4. \A i \in 1..(n - 1) : Was(i) \in 1..n /\ Was(i) # k /\ line'[i] = line[Was(i)]
  <2> TAKE i \in 1..(n - 1)
  <2>1. CASE i < k
    <3>1. i \in 1..(k - 1) /\ i \in 1..n
      BY <2>1, <1>1
    <3> QED
      BY <2>1, <3>1, <1>3, <1>1
  <2>2. CASE ~(i < k)
    <3>1. i \in k..(n - 1) /\ i + 1 \in 1..n /\ i + 1 # k
      BY <2>2, <1>1
    <3> QED
      BY <2>2, <3>1, <1>3
  <2> QED
    BY <2>1, <2>2
<1>5. \A i, j \in 1..(n - 1) : Was(i) = Was(j) => i = j
  BY <1>1
<1>6. \A j \in 1..n : j # k => \E i \in 1..(n - 1) : Was(i) = j
  <2> TAKE j \in 1..n
  <2> HAVE j # k
  <2>1. CASE j < k
    <3>1. j \in 1..(n - 1) /\ Was(j) = j
      BY <2>1, <1>1
    <3> QED
      BY <3>1
  <2>2. CASE j > k
    <3>1. j - 1 \in 1..(n - 1) /\ Was(j - 1) = j
      BY <2>2, <1>1
    <3> QED
      BY <3>1
  <2>3. j < k \/ j > k
    BY <1>1
  <2> QED
    BY <2>1, <2>2, <2>3
<1> HIDE DEF Was
<1>7. \A i \in 1..(n - 1) : line'[i] \in Proc /\ line'[i] # p /\ pc'[line'[i]] = pc[line'[i]]
  <2> TAKE i \in 1..(n - 1)
  <2>1. Was(i) \in 1..n /\ Was(i) # k /\ line'[i] = line[Was(i)]
    BY <1>4
  <2>2. line'[i] # p
    BY <2>1, <1>0, <1>1
  <2> QED
    BY <2>1, <2>2, <1>2
<1>8. \A i, j \in DOMAIN line' : line'[i] = line'[j] => i = j
  <2> SUFFICES ASSUME NEW i \in 1..(n - 1), NEW j \in 1..(n - 1), line'[i] = line'[j] PROVE i = j
    BY <1>3
  <2>1. Was(i) \in 1..n /\ Was(j) \in 1..n /\ line[Was(i)] = line[Was(j)]
    BY <1>4
  <2>2. Was(i) = Was(j)
    BY <2>1, <1>0, <1>1
  <2> QED
    BY <2>2, <1>5
<1>9. \A i \in DOMAIN line' : pc'[line'[i]] \in Waits
  <2> SUFFICES ASSUME NEW i \in 1..(n - 1) PROVE pc'[line'[i]] \in Waits
    BY <1>3
  <2>1. Was(i) \in DOMAIN line /\ line'[i] = line[Was(i)]
    BY <1>4, <1>1
  <2>2. pc[line[Was(i)]] \in Waits
    BY <2>1, <1>0
  <2>3. pc'[line'[i]] = pc[line'[i]]
    BY <1>7
  <2> QED
    BY <2>1, <2>2, <2>3
<1>10. \A q \in Proc : pc'[q] \in Waits => \E i \in DOMAIN line' : line'[i] = q
  <2> SUFFICES ASSUME NEW q \in Proc, pc'[q] \in Waits PROVE \E i \in DOMAIN line' : line'[i] = q
    OBVIOUS
  <2>1. q # p /\ pc[q] \in Waits
    BY <1>2
  <2>2. PICK j \in 1..n : line[j] = q
    BY <2>1, <1>0, <1>1
  <2>3. PICK i \in 1..(n - 1) : Was(i) = j
    BY <2>1, <2>2, <1>6
  <2> QED
    BY <2>1, <2>2, <2>3, <1>3, <1>4
<1>11. \A q \in Proc : pc'[q] \in Turn => q # p /\ pc[q] \in Turn
  BY <1>2
<1> USE DEF LineIsCalls
<1>12. CASE pc[p] \in Turn
  <2>1. p = line[1]
    BY <1>12
  <2>2. \A q \in Proc : pc'[q] \notin Turn
    BY <2>1, <1>11
  <2> QED
    BY <1>8, <1>9, <1>10, <1>12, <2>2
<1>13. CASE pc[p] \notin Turn
  <2>1. \A q \in Proc : pc'[q] \in Turn <=> pc[q] \in Turn
    BY <1>2, <1>13
  <2>2. ASSUME NEW q \in Proc, pc'[q] \in Turn PROVE working' /\ line' # <<>> /\ line'[1] = q
    <3>1. working /\ line[1] = q /\ q # p
      BY <2>1, <2>2, <1>11
    <3>2. 1 \in 1..(k - 1) /\ 1 \in 1..(n - 1)
      <4>1. k # 1
        BY <3>1
      <4> QED
        BY <4>1, <1>1
    <3>3. line'[1] = q /\ DOMAIN line' # {}
      BY <3>1, <3>2, <1>3
    <3>4. line' # <<>>
      <4>1. DOMAIN <<>> = {}
        OBVIOUS
      <4> QED
        BY <3>3, <4>1, Zenon
    <3>5. working' = working
      BY <1>13
    <3> QED
      BY <3>1, <3>3, <3>4, <3>5
  <2>3. working' => \E q \in Proc : pc'[q] \in Turn
    BY <2>1, <1>13
  <2> QED
    BY <1>8, <1>9, <1>10, <2>2, <2>3
<1> QED
  BY <1>12, <1>13

LEMMA LineStarts ==
    ASSUME TypeOK, LineIsCalls, NEW p \in Proc, Start(p)
    PROVE  LineIsCalls'
<1>1. /\ line' = line /\ ~working /\ working' = TRUE /\ line # <<>> /\ Head(line) = p
      /\ pc[p] = "queued" /\ pc'[p] = "turn"
      /\ \A q \in Proc : q # p => pc'[q] = pc[q]
      /\ \A i \in DOMAIN line : line[i] \in Proc
      /\ line \in Seq(Proc)
  BY DEF Start, Queue!Begin, Queue!HasTurn, Goto, TypeOK
<1>2. line[1] = p
  BY <1>1
<1>3. \A q \in Proc : (pc'[q] \in Waits <=> pc[q] \in Waits) /\ (pc'[q] \in Turn <=> q = p)
  BY <1>1 DEF LineIsCalls, Waits, Turn
<1> QED
  BY <1>1, <1>2, <1>3 DEF LineIsCalls

LEMMA NextLine == IInv /\ LineIsCalls /\ [Next]_vars => LineIsCalls'
<1> SUFFICES ASSUME IInv, LineIsCalls, [Next]_vars PROVE LineIsCalls'
  OBVIOUS
<1>1. TypeOK
  BY DEF IInv
<1>2. ASSUME UNCHANGED <<line, working, pc>> PROVE LineIsCalls'
  BY <1>2 DEF LineIsCalls
<1>3. ASSUME NEW p \in Proc, NEW stage, Goto(p, stage), UNCHANGED <<line, working>>,
             \/ stage \notin Waits /\ pc[p] \notin Waits
             \/ stage \in Turn /\ pc[p] \in Turn
      PROVE  LineIsCalls'
  BY <1>1, <1>3, LineStays DEF Waits
<1>4. ASSUME NEW t \in Tx, Tick(t) \/ ClientCall(t) \/ Release(t) \/ EndCommit(t) \/ WriteStep(t)
      PROVE  LineIsCalls'
  BY <1>2, <1>3, <1>4 DEF Tick, ClientCall, Begin, ReadEvents, WriteEvents, GetProjection, Acquire,
                          WriteProjections, EndTx, Commit, Release, EndCommit, callVars, queueVars,
                          WriteStep, Reserve, Refuse, CommitWrite, FailWrite, Proc, Waits, Turn
<1>5. ASSUME NEW a \in Admin, AdminStep(a) PROVE LineIsCalls'
  <2>1. pc[a] = "turn" /\ Goto(a, "worked") /\ UNCHANGED <<line, working>>
    BY <1>5 DEF AdminStep, Pause, Resume, PostProjections, DeleteProjections, DeleteEvents, WorkFails,
                InTurn, queueVars
  <2> QED
    BY <1>3, <2>1 DEF Proc, Turn
<1>6. ASSUME NEW a \in Admin, NEW j \in Jobs, Request(a, j) PROVE LineIsCalls'
  BY <1>3, <1>6 DEF Request, queueVars, Proc, Waits, Turn
<1>7. ASSUME NEW p \in Proc, QueueStep(p) PROVE LineIsCalls'
  <2>1. After(p) \notin Waits
    BY DEF After, Waits, Turn
  <2>2. CASE Refused(p)
    BY <1>3, <2>1, <2>2 DEF Refused, queueVars, Waits, Turn
  <2>3. CASE TurnAway(p)
    <3>1. PICK k \in DOMAIN line :
             line[k] = p /\ line' = SubSeq(line, 1, k - 1) \o SubSeq(line, k + 1, Len(line))
      BY <2>3 DEF TurnAway, Queue!TurnAway
    <3>2. pc[p] \notin Turn /\ working' = working /\ Goto(p, After(p))
      BY <2>3 DEF TurnAway, Queue!TurnAway, Turn
    <3> QED
      BY <1>1, <2>1, <3>1, <3>2, LineLeaves
  <2>4. CASE Leave(p)
    <3>1. /\ line # <<>> /\ Head(line) = p /\ line' = Tail(line) /\ working' = FALSE
          /\ pc[p] \in Turn /\ Goto(p, After(p)) /\ line \in Seq(Proc)
      BY <1>1, <2>4 DEF Leave, Queue!Leave, Queue!HasTurn, Turn, TypeOK
    <3>2. 1 \in DOMAIN line /\ line[1] = p
      BY <3>1
    <3>3. SubSeq(line, 1, 1 - 1) = <<>> /\ Tail(line) \in Seq(Proc) /\ Tail(line) = SubSeq(line, 1 + 1, Len(line))
      BY <3>1, SubSeqEmpty, HeadTailProperties, TailIsSubSeq
    <3>4. line' = SubSeq(line, 1, 1 - 1) \o SubSeq(line, 1 + 1, Len(line))
      BY <3>1, <3>3, ConcatEmptySeq
    <3> QED
      BY <1>1, <2>1, <3>1, <3>2, <3>4, LineLeaves
  <2> QED
    BY <1>1, <1>7, <2>2, <2>3, <2>4, LineJoins, LineStarts DEF QueueStep
<1>8. CASE Restart
  BY <1>8 DEF Restart, LineIsCalls, Waits, Turn, Proc
<1>9. CASE Sweep \/ Close \/ UNCHANGED vars
  BY <1>2, <1>9 DEF Sweep, Close, vars, queueVars, callVars, Queue!Close
<1> QED
  BY <1>4, <1>5, <1>6, <1>7, <1>8, <1>9 DEF Next

(***************************************************************************)
(* RunInTurn: the calls in line are those that wait or work, each once and *)
(* the one that works first, through commits, refusals, a shutdown and a   *)
(* crash.  So no call is forgotten in it, and whoever is at the head can   *)
(* go on: no ghost holds the turn.                                         *)
(***************************************************************************)
THEOREM NoGhostInLine == Spec => []LineIsCalls
BY InitLine, NextLine, SpecIInv, PTL DEF Spec
=============================================================================
