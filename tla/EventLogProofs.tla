--------------------------- MODULE EventLogProofs ---------------------------
(***************************************************************************)
(* The transactions of the server are those of EventLog, as long as nobody *)
(* may delete the events (http-api.md offers that in development only).    *)
(*                                                                         *)
(* Most steps map to a stutter, or to Drop, when they end a transaction    *)
(* without a trace: DropStep.  Three are what a client waits for: a read,  *)
(* which sees what the log matches at that moment; a write to the pending  *)
(* events; and the commit.  The commit asks more than the invariant of     *)
(* RegistryProofs: a read may have seen less than is there now, which      *)
(* DecisionsHold excludes, but also events that are gone, which SawTheLog  *)
(* excludes; and no read may be left open, which Gathered says.            *)
(***************************************************************************)
EXTENDS RegistryProofs, SequenceTheorems

NoDeletes == "deleteEvents" \notin Asked

\* What a read saw is in the log.
SawTheLog ==
    \A t \in Tx : \A c \in ConditionsOf(tx[t]) : c.seen \subseteq Matching(c.query, events)

\* One condition at most is open, and none once Commit was called.
Gathered ==
    \A t \in Tx :
        /\ \A c, d \in tx[t].open : c = d
        /\ pc[t] \notin {"free", "called"} => tx[t].open = {}

RInv == IInv /\ SawTheLog /\ Gathered

-----------------------------------------------------------------------------
(* The invariant *)

(***************************************************************************)
(* Without DELETE /events, the log only grows.                             *)
(***************************************************************************)
LEMMA EventsStay == NoDeletes /\ IInv /\ [Next]_vars => events \subseteq events'
<1> SUFFICES ASSUME NoDeletes, IInv, [Next]_vars PROVE events \subseteq events'
  OBVIOUS
<1>1. CASE ~LogStep
  BY <1>1, Quiet
<1>2. CASE LogStep
  BY <1>2, DeleteCommitted DEF LogStep, NoDeletes, Reserve, CommitWrite, FailWrite, Restart, fileVars
<1> QED
  BY <1>1, <1>2

LEMMA NextSawTheLog == NoDeletes /\ IInv /\ SawTheLog /\ [Next]_vars => SawTheLog'
<1> SUFFICES ASSUME NoDeletes, IInv, SawTheLog, [Next]_vars,
                    NEW t \in Tx, NEW c \in ConditionsOf(tx'[t])
             PROVE  c.seen \subseteq Matching(c.query, events')
  BY DEF SawTheLog
<1>1. CASE c \in ConditionsOf(tx[t])
  BY <1>1, EventsStay DEF SawTheLog, Matching
<1>2. ASSUME NEW q \in SUBSET Kind, c = Opened(q, events), events' = events
      PROVE  c.seen \subseteq Matching(c.query, events')
  BY <1>2 DEF Opened
<1> QED
  BY <1>1, <1>2, ConditionsComeFromReads

(***************************************************************************)
(* A condition is opened only if none is, and Commit refuses to begin with *)
(* an open one.                                                            *)
(***************************************************************************)
LEMMA NextGathered == IInv /\ Gathered /\ [Next]_vars => Gathered'
<1> DEFINE Kept(t) ==
             \/ /\ tx'[t].open \subseteq tx[t].open
                /\ pc[t] \in {"free", "called"} /\ pc'[t] \notin {"free", "called"} => tx[t].open = {}
             \/ /\ \E c : tx'[t].open = {c}
                /\ pc'[t] = "called"
<1> SUFFICES ASSUME IInv, Gathered, [Next]_vars, NEW t \in Tx PROVE Kept(t)
  BY DEF Gathered
<1> USE DEF IInv, TypeOK
<1>1. NewTransaction.open = {}
  BY DEF NewTransaction
<1>2. ASSUME NEW open, Registered(open, tx) PROVE tx'[t].open \subseteq tx[t].open
  BY <1>1, <1>2 DEF Registered
<1>3. ASSUME NEW u \in Tx, NEW open, NEW x \in Transaction, x.open \subseteq tx[u].open,
             Registered(open, [tx EXCEPT ![u] = x])
      PROVE  tx'[t].open \subseteq tx[t].open
  BY <1>1, <1>3 DEF Registered
<1>4. ASSUME NEW p \in Proc, NEW stage, Goto(p, stage), p = t => stage \in {"free", "called"} \/ pc[p] \notin {"free", "called"},
             tx'[t].open \subseteq tx[t].open
      PROVE  Kept(t)
  BY <1>4 DEF Goto, Proc
<1>5. ASSUME UNCHANGED pc, tx'[t].open \subseteq tx[t].open PROVE Kept(t)
  BY <1>5
<1> HIDE DEF Kept
<1> USE DEF callVars, registryVars
<1>6. ASSUME NEW u \in Tx, ClientCall(u) PROVE Kept(t)
  <2>1. tx[u] \in Transaction
    OBVIOUS
  <2>2. CASE Begin(u)
    BY <1>1, <1>3, <1>5, <2>2, NewIsTransaction DEF Begin
  <2>3. CASE EndTx(u)
    BY <1>1, <1>3, <1>5, <2>3, NewIsTransaction DEF EndTx
  <2>4. CASE Commit(u)
    <3>1. tx'[t].open \subseteq tx[t].open /\ tx[u].open = {}
      BY <1>2, <2>4 DEF Commit
    <3>2. u # t => pc'[t] = pc[t]
      BY <2>4 DEF Commit, Goto, Proc
    <3> QED
      BY <3>1, <3>2 DEF Kept
  <2>5. ASSUME NEW q \in SUBSET Kind, NEW limit \in {0, 1}, ReadEvents(u, q, limit) PROVE Kept(t)
    <3> DEFINE x == [tx[u] EXCEPT !.open = {Opened(q, events)}]
    <3>1. Registered(Live, [tx EXCEPT ![u] = x]) /\ Goto(u, "called") /\ pc[u] = "free" /\ u \in Live
      BY <2>5 DEF ReadEvents, Acquire
    <3>2. x.open = {Opened(q, events)}
      BY <2>1 DEF Transaction
    <3> HIDE DEF x
    <3>3. CASE u = t
      <4>1. tx'[t] = x
        BY <3>1, <3>3 DEF Registered, Live
      <4>2. pc'[t] = "called"
        BY <3>1, <3>3 DEF Goto, Proc
      <4> QED
        BY <3>2, <4>1, <4>2 DEF Kept
    <3>4. CASE u # t
      BY <1>1, <1>4, <3>1, <3>4 DEF Registered, Proc
    <3> QED
      BY <3>3, <3>4
  <2>6. ASSUME NEW batch \in Batches, WriteEvents(u, batch) PROVE Kept(t)
    <3>1. PICK d \in tx[u].open :
            Registered(Live, [tx EXCEPT ![u] =
                                [tx[u] EXCEPT !.events = tx[u].events \o batch,
                                              !.conditions = Append(tx[u].conditions, d),
                                              !.open = {}]])
      BY <2>6 DEF WriteEvents
    <3> DEFINE x == [tx[u] EXCEPT !.events = tx[u].events \o batch,
                                  !.conditions = Append(tx[u].conditions, d),
                                  !.open = {}]
    <3>2. x.open = {}
      BY <2>1 DEF Transaction
    <3>3. Registered(Live, [tx EXCEPT ![u] = x])
      BY <3>1
    <3> HIDE DEF x
    <3>4. tx'[t].open \subseteq tx[t].open
      BY <1>1, <3>2, <3>3 DEF Registered
    <3> QED
      BY <1>4, <2>6, <3>4 DEF WriteEvents, Proc
  <2>7. ASSUME NEW k \in Key, GetProjection(u, k) PROVE Kept(t)
    <3> DEFINE x == [tx[u] EXCEPT !.projections[k] = Fetched(tx[u].projections[k], version[k])]
    <3>1. x.open = tx[u].open
      BY <2>1 DEF Transaction
    <3>2. Registered(Live, [tx EXCEPT ![u] = x])
      BY <2>7 DEF GetProjection
    <3> HIDE DEF x
    <3>3. tx'[t].open \subseteq tx[t].open
      BY <1>1, <3>1, <3>2 DEF Registered
    <3> QED
      BY <1>4, <2>7, <3>3 DEF GetProjection, Proc
  <2>8. ASSUME NEW w \in [Key -> Operations], WriteProjections(u, w) PROVE Kept(t)
    <3> DEFINE x == [tx[u] EXCEPT !.projections = [k \in Key |-> Written(w[k], tx[u].projections[k])]]
    <3>1. x.open = tx[u].open
      BY <2>1 DEF Transaction
    <3>2. Registered(Live, [tx EXCEPT ![u] = x])
      BY <2>8 DEF WriteProjections
    <3> HIDE DEF x
    <3>3. tx'[t].open \subseteq tx[t].open
      BY <1>1, <3>1, <3>2 DEF Registered
    <3> QED
      BY <1>4, <2>8, <3>3 DEF WriteProjections, Proc
  <2> QED
    BY <1>6, <2>2, <2>3, <2>4, <2>5, <2>6, <2>7, <2>8 DEF ClientCall
<1>7. ASSUME NEW u \in Tx, Tick(u) PROVE Kept(t)
  BY <1>5, <1>7 DEF Tick
<1>8. ASSUME NEW u \in Tx, WriteStep(u) PROVE Kept(t)
  <2>1. UNCHANGED tx /\ pc[u] \notin {"free", "called"}
    BY <1>8 DEF WriteStep, Reserve, Refuse, CommitWrite, FailWrite
  <2> QED
    BY <1>4, <1>8, <2>1 DEF WriteStep, Reserve, Refuse, CommitWrite, FailWrite, Proc
<1>9. ASSUME NEW u \in Tx, Release(u) PROVE Kept(t)
  BY <1>1, <1>4, <1>9 DEF Release, Proc
<1>10. ASSUME NEW u \in Tx, EndCommit(u) PROVE Kept(t)
  <2>1. tx'[t].open \subseteq tx[t].open
    BY <1>1, <1>3, <1>10, NewIsTransaction DEF EndCommit
  <2> QED
    BY <1>4, <1>10, <2>1 DEF EndCommit, Proc
<1>11. ASSUME NEW a \in Admin, (\E j \in Jobs : Request(a, j)) \/ AdminStep(a) PROVE Kept(t)
  <2>1. PICK stage : Goto(a, stage)
    BY <1>11 DEF Request, AdminStep, Pause, Resume, PostProjections, DeleteProjections, DeleteEvents,
                 WorkFails
  <2>2. tx'[t].open \subseteq tx[t].open
    BY <1>2, <1>11 DEF Request, AdminStep, Pause, Resume, PostProjections, DeleteProjections,
                       DeleteEvents, WorkFails
  <2>3. a # t
    BY RegistryAssumption
  <2> QED
    BY <1>4, <2>1, <2>2, <2>3 DEF Proc
<1>12. ASSUME NEW p \in Proc, QueueStep(p) PROVE Kept(t)
  <2>1. UNCHANGED tx /\ pc[p] \notin {"free", "called"} /\ \E stage : Goto(p, stage)
    BY <1>12 DEF QueueStep, Refused, Join, TurnAway, Start, Leave
  <2> QED
    BY <1>4, <2>1
<1>13. CASE Restart
  <2>1. tx'[t].open = {} /\ pc'[t] = "free"
    BY <1>1, <1>13 DEF Restart, Proc
  <2> QED
    BY <2>1 DEF Kept
<1>14. CASE Sweep
  BY <1>2, <1>5, <1>14 DEF Sweep
<1>15. CASE Close \/ UNCHANGED vars
  BY <1>5, <1>15 DEF Close, vars
<1> QED
  BY <1>6, <1>7, <1>8, <1>9, <1>10, <1>11, <1>12, <1>13, <1>14, <1>15 DEF Next

LEMMA InitRInv == Init => RInv
<1> SUFFICES ASSUME Init PROVE RInv
  OBVIOUS
<1>1. \A t \in Tx : ConditionsOf(tx[t]) = {} /\ tx[t].open = {}
  BY NewIsTransaction DEF Init, NewTransaction
<1> QED
  BY <1>1, InitIInv DEF RInv, SawTheLog, Gathered

LEMMA SpecRInv ==
    ASSUME NoDeletes
    PROVE  Spec => []RInv
<1>1. RInv /\ IInv' /\ [Next]_vars => RInv'
  BY NextSawTheLog, NextGathered DEF RInv
<1> QED
  BY <1>1, InitRInv, SpecIInv, PTL DEF Spec
-----------------------------------------------------------------------------
(* The log of EventLog *)

(***************************************************************************)
(* Every position up to the last has its event, so logBar is the kinds of  *)
(* the events, in order.                                                   *)
(***************************************************************************)
LEMMA LogIsEvents ==
    ASSUME NoDeletes, IInv
    PROVE  /\ LastCommitted \in Nat
           /\ logBar \in Seq(Kind) /\ Len(logBar) = LastCommitted
           /\ \A e \in events : e.seq \in 1..LastCommitted /\ logBar[e.seq] = e.kind
           /\ \A n \in 1..LastCommitted : \E e \in events : e.seq = n
<1> USE DEF IInv, TypeOK
<1>1. LastCommitted \in Nat
  BY LastEvent
<1>2. ASSUME NEW e \in events PROVE e.seq \in 1..LastCommitted
  <2>1. e.seq \in Nat \ {0}
    BY DEF Event
  <2>2. e.seq <= LastCommitted
    BY DEF NoGap
  <2> QED
    BY <1>1, <2>1, <2>2
<1>3. ASSUME NEW n \in 1..LastCommitted PROVE \E e \in events : e.seq = n
  <2>1. LastCommitted > 0
    BY <1>1
  <2>2. PICK e \in events : e.seq = 1
    BY <2>1 DEF NoGap, NoDeletes
  <2>3. n \in e.seq..LastCommitted
    BY <2>2
  <2> QED
    BY <2>3 DEF NoGap
<1>4. ASSUME NEW e \in events PROVE (CHOOSE f \in events : f.seq = e.seq) = e
  BY DEF NoGap
<1>5. ASSUME NEW n \in 1..LastCommitted PROVE (CHOOSE f \in events : f.seq = n).kind \in Kind
  BY <1>3 DEF Event
<1>6. logBar \in Seq(Kind) /\ Len(logBar) = LastCommitted
  BY <1>1, <1>5 DEF logBar
<1>7. ASSUME NEW e \in events PROVE logBar[e.seq] = e.kind
  BY <1>2, <1>4 DEF logBar
<1> QED
  BY <1>1, <1>2, <1>3, <1>6, <1>7

(***************************************************************************)
(* What a query matches is the same in both logs.                          *)
(***************************************************************************)
LEMMA MatchesMatched ==
    ASSUME NoDeletes, IInv, NEW q
    PROVE  {e.seq : e \in Matching(q, events)} = Abstract!Matched(q)
<1>1. DOMAIN logBar = 1..LastCommitted
  BY DEF logBar
<1>2. ASSUME NEW e \in Matching(q, events) PROVE e.seq \in Abstract!Matched(q)
  BY <1>1, <1>2, LogIsEvents DEF Matching, Abstract!Matched
<1>3. ASSUME NEW n \in Abstract!Matched(q) PROVE \E e \in Matching(q, events) : e.seq = n
  BY <1>1, <1>3, LogIsEvents DEF Matching, Abstract!Matched
<1> QED
  BY <1>2, <1>3

\* The log is where it was when the events and the last position are.
LEMMA SameLog ==
    ASSUME events' = events, LastCommitted' = LastCommitted
    PROVE  logBar' = logBar
  BY DEF logBar

(***************************************************************************)
(* Only the SQLite commit moves the log: reserved positions are not in it, *)
(* given back they never were, and a restart finds the last one again.     *)
(***************************************************************************)
LEMMA LogStays ==
    ASSUME NoDeletes, IInv, [Next]_vars, \A t \in Tx : ~CommitWrite(t)
    PROVE  logBar' = logBar
<1>1. CASE ~LogStep
  BY <1>1, Quiet, QuietCommitted, SameLog
<1>2. ASSUME NEW t \in Tx, Reserve(t) PROVE logBar' = logBar
  <2>1. events' = events
    BY <1>2 DEF Reserve, fileVars
  <2> QED
    BY <1>2, <2>1, ReserveCommitted, SameLog
<1>3. ASSUME NEW t \in Tx, FailWrite(t) PROVE logBar' = logBar
  <2>1. events' = events /\ nextSeq' = start
    BY <1>3 DEF FailWrite, fileVars
  <2> QED
    BY <1>3, <2>1, WrittenCommitted, SameLog
<1>4. ASSUME NEW a \in Admin, DeleteEvents(a) PROVE FALSE
  BY <1>4, DeleteCommitted DEF NoDeletes
<1>5. CASE Restart
  <2>1. events' = events /\ LastCommitted' = MaxSequence(events)
    BY <1>5, RestartCommitted
  <2>2. MaxSequence(events) = LastCommitted
    <3>1. CASE events # {}
      BY <3>1, LastEvent
    <3>2. CASE events = {}
      <4>1. LastCommitted = 0
        BY <3>2, LogIsEvents
      <4>2. MaxSequence(events) \in Nat /\ MaxSequence(events) <= LastCommitted
        BY LastEvent
      <4> QED
        BY <4>1, <4>2
    <3> QED
      BY <3>1, <3>2
  <2> QED
    BY <2>1, <2>2, SameLog
<1> QED
  BY <1>1, <1>2, <1>3, <1>4, <1>5 DEF LogStep

-----------------------------------------------------------------------------
(* The transactions of EventLog *)

\* The transactions that go on are among those that did, with what they hold.
Fewer ==
    /\ Going' \subseteq Going
    /\ \A t \in Going' : ReadsOf(tx'[t]) = ReadsOf(tx[t]) /\ tx'[t].events = tx[t].events

(***************************************************************************)
(* Transactions that end without a trace: Drop.  A step that ends none is  *)
(* the Drop of none.                                                       *)
(***************************************************************************)
LEMMA DropStep ==
    ASSUME Fewer, logBar' = logBar, paused' = paused
    PROVE  Abstract!Next
<1> DEFINE gone == Going \ Going'
<1>1. Going' = Going \ gone
  BY DEF Fewer
<1>2. readsBar' = [t \in Tx |-> IF t \in gone THEN {} ELSE readsBar[t]]
  <2>1. ASSUME NEW t \in Tx
        PROVE  (IF t \in Going' THEN ReadsOf(tx'[t]) ELSE {})
                 = IF t \in gone THEN {} ELSE IF t \in Going THEN ReadsOf(tx[t]) ELSE {}
    BY DEF Fewer
  <2> QED
    BY <2>1 DEF readsBar
<1>3. pendingBar' = [t \in Tx |-> IF t \in gone THEN <<>> ELSE pendingBar[t]]
  <2>1. ASSUME NEW t \in Tx
        PROVE  (IF t \in Going' THEN tx'[t].events ELSE <<>>)
                 = IF t \in gone THEN <<>> ELSE IF t \in Going THEN tx[t].events ELSE <<>>
    BY DEF Fewer
  <2> QED
    BY <2>1 DEF pendingBar
<1>4. Abstract!Drop(gone) /\ gone \in SUBSET Going
  BY <1>1, <1>2, <1>3 DEF Abstract!Drop, Abstract!Forget
<1> QED
  BY <1>4 DEF Abstract!Next

\* Who goes on, before and after a step.
LEMMA WhoGoes ==
    ASSUME TypeOK, TypeOK', NEW t \in Tx
    PROVE  /\ t \in Going <=> /\ t \in txs
                              /\ t \in idle => pc[t] # "free"
                              /\ pc[t] \notin {"worked", "ending"}
           /\ t \in Going' <=> /\ t \in txs'
                               /\ t \in idle' => pc'[t] # "free"
                               /\ pc'[t] \notin {"worked", "ending"}
  BY DEF TypeOK, Going, Live, Expired

(***************************************************************************)
(* A hold of Registry.mu in which a transaction does nothing EventLog can  *)
(* see, or ends.                                                           *)
(***************************************************************************)
LEMMA HeldFewer ==
    ASSUME IInv, TypeOK', NEW open \in SUBSET Live, NEW new \in [Tx -> Transaction], Registered(open, new),
           \A t \in open : ReadsOf(new[t]) = ReadsOf(tx[t]) /\ new[t].events = tx[t].events,
           \A t \in open : pc'[t] = pc[t] \/ t \in Going \/ pc'[t] \in {"worked", "ending"}
    PROVE  Fewer
<1> USE DEF IInv
<1>1. ASSUME NEW t \in Going' PROVE t \in Going /\ tx'[t] = new[t] /\ t \in open
  <2>1. t \in Tx /\ t \in txs' /\ pc'[t] \notin {"worked", "ending"}
    BY WhoGoes DEF Going, Live, TypeOK
  <2>2. t \in open /\ t \in Live
    BY <2>1 DEF Registered
  <2>3. t \in Going
    BY <2>1, <2>2 DEF Going
  <2>4. tx'[t] = new[t]
    BY <2>1, <2>2 DEF Registered, Live
  <2> QED
    BY <2>2, <2>3, <2>4
<1> QED
  BY <1>1 DEF Fewer

\* A step that leaves what transactions hold alone, and brings none back.
LEMMA UntouchedFewer ==
    ASSUME UNCHANGED tx, Going' \subseteq Going
    PROVE  Fewer
  BY DEF Fewer

(***************************************************************************)
(* Calls of clients.  Writing no event, or projections only, is nothing to *)
(* EventLog.                                                               *)
(***************************************************************************)
LEMMA BeginStep ==
    ASSUME RInv, TypeOK', logBar' = logBar, NEW t \in Tx, Begin(t)
    PROVE  Abstract!Next
<1> USE DEF RInv, IInv
<1>1. Registered(Live \cup {t}, [tx EXCEPT ![t] = NewTransaction]) /\ UNCHANGED <<pc, paused, pause>>
      /\ t \notin txs /\ pause = "Running"
  BY DEF Begin, callVars, fileVars, TypeOK
<1>2. ~paused
  BY <1>1 DEF PauseInPlace
<1>3. t \notin Going /\ pc[t] = "free" /\ t \notin idle
  BY <1>1 DEF Going, Live, BusyIsOpen, TypeOK
<1>4. Going' = Going \cup {t}
  <2>1. ASSUME NEW u \in Tx PROVE u \in Going' <=> u \in Going \/ u = t
    BY <1>1, <1>3, WhoGoes DEF Registered, Live, Expired, TypeOK
  <2> QED
    BY <2>1 DEF Going, Live, TypeOK
<1>5. ASSUME NEW u \in Going PROVE tx'[u] = tx[u]
  BY <1>1, <1>3 DEF Registered, Going, Live, TypeOK
<1>6. tx'[t] = NewTransaction
  BY <1>1 DEF Registered, TypeOK
<1>7. ReadsOf(tx'[t]) = {} /\ tx'[t].events = <<>>
  <2>1. ReadsOf(NewTransaction) = {}
    BY NewIsTransaction DEF ReadsOf
  <2>2. NewTransaction.events = <<>>
    BY DEF NewTransaction
  <2> QED
    BY <1>6, <2>1, <2>2
<1>8. readsBar' = readsBar
  <2>1. ASSUME NEW u \in Tx
        PROVE  (IF u \in Going' THEN ReadsOf(tx'[u]) ELSE {}) = IF u \in Going THEN ReadsOf(tx[u]) ELSE {}
    BY <1>3, <1>4, <1>5, <1>7
  <2> QED
    BY <2>1 DEF readsBar
<1>9. pendingBar' = pendingBar
  <2>1. ASSUME NEW u \in Tx
        PROVE  (IF u \in Going' THEN tx'[u].events ELSE <<>>) = IF u \in Going THEN tx[u].events ELSE <<>>
    BY <1>3, <1>4, <1>5, <1>7
  <2> QED
    BY <2>1 DEF pendingBar
<1>10. Abstract!Begin(t)
  BY <1>1, <1>2, <1>3, <1>4, <1>8, <1>9 DEF Abstract!Begin
<1> QED
  BY <1>10 DEF Abstract!Next

(***************************************************************************)
(* A call that keeps its transaction: who goes on, and what it holds.      *)
(***************************************************************************)
LEMMA CalledGoing ==
    ASSUME IInv, TypeOK', NEW t \in Tx, NEW x, Acquire(t),
           Registered(Live, [tx EXCEPT ![t] = x]), Goto(t, "called")
    PROVE  /\ t \in Going /\ Going' = Going
           /\ \A u \in Going : tx'[u] = IF u = t THEN x ELSE tx[u]
<1> USE DEF IInv
<1>1. t \in Live /\ t \in Going /\ pc[t] = "free"
  BY DEF Acquire, Going
<1>2. ASSUME NEW u \in Tx PROVE pc'[u] = IF u = t THEN "called" ELSE pc[u]
  BY DEF Goto, TypeOK, Proc
<1>3. ASSUME NEW u \in Tx PROVE u \in Going' <=> u \in Going
  BY <1>1, <1>2, WhoGoes DEF Registered, Live, Expired, TypeOK
<1>4. Going' = Going
  BY <1>3 DEF Going, Live, TypeOK
<1>5. ASSUME NEW u \in Going PROVE tx'[u] = IF u = t THEN x ELSE tx[u]
  BY DEF Registered, Going, Live, TypeOK
<1> QED
  BY <1>1, <1>4, <1>5

LEMMA ReadStep ==
    ASSUME NoDeletes, RInv, TypeOK', logBar' = logBar,
           NEW t \in Tx, NEW q \in SUBSET Kind, NEW limit, ReadEvents(t, q, limit)
    PROVE  Abstract!Next
<1> USE DEF RInv, IInv
<1> DEFINE x == [tx[t] EXCEPT !.open = {Opened(q, events)}]
<1>1. Acquire(t) /\ Registered(Live, [tx EXCEPT ![t] = x]) /\ Goto(t, "called") /\ tx[t].open = {}
      /\ paused' = paused
  BY DEF ReadEvents, fileVars
<1>2. tx[t] \in Transaction
  BY DEF TypeOK
<1>3. x.open = {Opened(q, events)} /\ x.conditions = tx[t].conditions /\ x.events = tx[t].events
  BY <1>2 DEF Transaction
<1> HIDE DEF x
<1>4. ConditionsOf(x) = ConditionsOf(tx[t]) \cup {Opened(q, events)}
  BY <1>1, <1>3 DEF ConditionsOf
<1>5. ReadsOf(x) = ReadsOf(tx[t]) \cup {[query |-> q, saw |-> {e.seq : e \in Matching(q, events)}]}
  <2>1. Opened(q, events).query = q /\ Opened(q, events).seen = Matching(q, events)
    BY DEF Opened
  <2> QED
    BY <1>4, <2>1 DEF ReadsOf
<1>6. /\ t \in Going /\ Going' = Going
      /\ \A u \in Going : tx'[u] = IF u = t THEN x ELSE tx[u]
  BY <1>1, CalledGoing
<1>7. readsBar' = [readsBar EXCEPT ![t] = readsBar[t] \cup {[query |-> q, saw |-> Abstract!Matched(q)]}]
  <2>1. ReadsOf(x) = ReadsOf(tx[t]) \cup {[query |-> q, saw |-> Abstract!Matched(q)]}
    BY <1>5, MatchesMatched
  <2>2. ASSUME NEW u \in Tx
        PROVE  (IF u \in Going' THEN ReadsOf(tx'[u]) ELSE {})
                 = IF u = t THEN ReadsOf(x) ELSE IF u \in Going THEN ReadsOf(tx[u]) ELSE {}
    BY <1>6
  <2>3. readsBar[t] = ReadsOf(tx[t])
    BY <1>6 DEF readsBar
  <2> QED
    BY <2>1, <2>2, <2>3 DEF readsBar
<1>8. pendingBar' = pendingBar
  <2>1. ASSUME NEW u \in Tx
        PROVE  (IF u \in Going' THEN tx'[u].events ELSE <<>>) = IF u \in Going THEN tx[u].events ELSE <<>>
    BY <1>3, <1>6
  <2> QED
    BY <2>1 DEF pendingBar
<1>9. Abstract!Read(t, q)
  BY <1>1, <1>6, <1>7, <1>8 DEF Abstract!Read
<1> QED
  BY <1>9 DEF Abstract!Next

LEMMA WriteStepGathers ==
    ASSUME RInv, TypeOK', logBar' = logBar,
           NEW t \in Tx, NEW batch \in Batches, WriteEvents(t, batch)
    PROVE  Abstract!Next
<1> USE DEF RInv, IInv
<1>1. PICK c \in tx[t].open :
        Registered(Live, [tx EXCEPT ![t] =
                            [tx[t] EXCEPT !.events = tx[t].events \o batch,
                                          !.conditions = Append(tx[t].conditions, c),
                                          !.open = {}]])
  BY DEF WriteEvents
<1> DEFINE x == [tx[t] EXCEPT !.events = tx[t].events \o batch,
                              !.conditions = Append(tx[t].conditions, c),
                              !.open = {}]
<1>2. Acquire(t) /\ Registered(Live, [tx EXCEPT ![t] = x]) /\ Goto(t, "called") /\ paused' = paused
  BY <1>1 DEF WriteEvents, fileVars
<1>3. tx[t] \in Transaction
  BY DEF TypeOK
<1>4. x.open = {} /\ x.conditions = Append(tx[t].conditions, c) /\ x.events = tx[t].events \o batch
  BY <1>3 DEF Transaction
<1>5. ConditionsOf(x) = ConditionsOf(tx[t])
  <2>1. tx[t].conditions \in Seq(Condition) /\ c \in Condition
    BY <1>3 DEF Transaction
  <2>2. tx[t].open = {c}
    BY <1>1 DEF Gathered
  <2>3. ConditionsOf(x) \subseteq ConditionsOf(tx[t])
    BY <1>3, ClosedConditions
  <2>4. DOMAIN x.conditions = 1..Len(tx[t].conditions) + 1
        /\ x.conditions[Len(tx[t].conditions) + 1] = c
        /\ \A i \in DOMAIN tx[t].conditions : i \in DOMAIN x.conditions /\ x.conditions[i] = tx[t].conditions[i]
    BY <1>4, <2>1
  <2>5. c \in ConditionsOf(x)
    <3>1. Len(tx[t].conditions) + 1 \in DOMAIN x.conditions
      BY <2>1, <2>4
    <3> QED
      BY <2>4, <3>1 DEF ConditionsOf
  <2>6. \A i \in DOMAIN tx[t].conditions : tx[t].conditions[i] \in ConditionsOf(x)
    BY <2>4 DEF ConditionsOf
  <2>7. ConditionsOf(tx[t]) \subseteq ConditionsOf(x)
    BY <2>2, <2>5, <2>6 DEF ConditionsOf
  <2> QED
    BY <2>3, <2>7
<1> HIDE DEF x
<1>6. ReadsOf(x) = ReadsOf(tx[t])
  BY <1>5 DEF ReadsOf
<1>7. /\ t \in Going /\ Going' = Going
      /\ \A u \in Going : tx'[u] = IF u = t THEN x ELSE tx[u]
  BY <1>2, CalledGoing
<1>8. CASE batch = <<>>
  <2>1. tx[t].events \in Seq(Kind)
    BY <1>3 DEF Transaction
  <2>2. x.events = tx[t].events
    BY <1>4, <1>8, <2>1
  <2>3. Fewer
    BY <1>6, <1>7, <2>2 DEF Fewer
  <2> QED
    BY <1>2, <2>3, DropStep
<1>9. ASSUME NEW k \in Kind, batch = <<k>> PROVE Abstract!Next
  <2>1. readsBar' = readsBar
    <3>1. ASSUME NEW u \in Tx
          PROVE  (IF u \in Going' THEN ReadsOf(tx'[u]) ELSE {}) = IF u \in Going THEN ReadsOf(tx[u]) ELSE {}
      BY <1>6, <1>7
    <3> QED
      BY <3>1 DEF readsBar
  <2>2. pendingBar' = [pendingBar EXCEPT ![t] = pendingBar[t] \o batch]
    <3>1. ASSUME NEW u \in Tx
          PROVE  (IF u \in Going' THEN tx'[u].events ELSE <<>>)
                   = IF u = t THEN tx[t].events \o batch ELSE IF u \in Going THEN tx[u].events ELSE <<>>
      BY <1>4, <1>7
    <3>2. pendingBar[t] = tx[t].events
      BY <1>7 DEF pendingBar
    <3> QED
      BY <3>1, <3>2 DEF pendingBar
  <2>3. Abstract!Write(t, <<k>>)
    BY <1>2, <1>7, <1>9, <2>1, <2>2 DEF Abstract!Write
  <2> QED
    BY <2>3 DEF Abstract!Next
<1> QED
  BY <1>8, <1>9 DEF Batches

LEMMA ClientStep ==
    ASSUME NoDeletes, RInv, TypeOK', logBar' = logBar, NEW t \in Tx, ClientCall(t)
    PROVE  Abstract!Next
<1> USE DEF RInv, IInv
<1>1. tx[t] \in Transaction /\ tx \in [Tx -> Transaction] /\ NewTransaction \in Transaction
  BY NewIsTransaction DEF TypeOK
<1>2. CASE Begin(t)
  BY <1>2, BeginStep
<1>3. ASSUME NEW q \in SUBSET Kind, NEW limit \in {0, 1}, ReadEvents(t, q, limit) PROVE Abstract!Next
  BY <1>3, ReadStep
<1>4. ASSUME NEW batch \in Batches, WriteEvents(t, batch) PROVE Abstract!Next
  BY <1>4, WriteStepGathers
<1>5. ASSUME NEW x \in Transaction, x.open = tx[t].open, x.conditions = tx[t].conditions,
             x.events = tx[t].events, Acquire(t), Registered(Live, [tx EXCEPT ![t] = x]),
             Goto(t, "called"), paused' = paused
      PROVE  Abstract!Next
  <2>1. ReadsOf(x) = ReadsOf(tx[t])
    BY <1>5 DEF ReadsOf, ConditionsOf
  <2>2. Fewer
    BY <1>5, <2>1, CalledGoing DEF Fewer
  <2> QED
    BY <1>5, <2>2, DropStep
<1>6. ASSUME NEW k \in Key, GetProjection(t, k) PROVE Abstract!Next
  <2> DEFINE x == [tx[t] EXCEPT !.projections[k] = Fetched(tx[t].projections[k], version[k])]
  <2>1. tx[t].projections[k] \in ProjectionState /\ version[k] \in Nat
    BY <1>1 DEF Transaction, TypeOK
  <2>2. Fetched(tx[t].projections[k], version[k]) \in ProjectionState
    BY <2>1, FetchedType
  <2>3. x \in Transaction /\ x.open = tx[t].open /\ x.conditions = tx[t].conditions
        /\ x.events = tx[t].events
    BY <1>1, <2>2 DEF Transaction
  <2>4. Acquire(t) /\ Registered(Live, [tx EXCEPT ![t] = x]) /\ Goto(t, "called") /\ paused' = paused
    BY <1>6 DEF GetProjection, fileVars
  <2> HIDE DEF x
  <2> QED
    BY <1>5, <2>3, <2>4
<1>7. ASSUME NEW w \in [Key -> Operations], WriteProjections(t, w) PROVE Abstract!Next
  <2> DEFINE new == [k \in Key |-> Written(w[k], tx[t].projections[k])]
  <2> DEFINE x == [tx[t] EXCEPT !.projections = new]
  <2>1. new \in [Key -> ProjectionState]
    <3> SUFFICES ASSUME NEW k \in Key PROVE Written(w[k], tx[t].projections[k]) \in ProjectionState
      OBVIOUS
    <3>1. w[k] \in Operations /\ tx[t].projections[k] \in ProjectionState
      BY <1>1 DEF Transaction
    <3> QED
      BY <3>1, WrittenType
  <2>2. Acquire(t) /\ Registered(Live, [tx EXCEPT ![t] = x]) /\ Goto(t, "called") /\ paused' = paused
    BY <1>7 DEF WriteProjections, fileVars
  <2> HIDE DEF new
  <2>3. x \in Transaction /\ x.open = tx[t].open /\ x.conditions = tx[t].conditions
        /\ x.events = tx[t].events
    BY <1>1, <2>1 DEF Transaction
  <2> HIDE DEF x
  <2> QED
    BY <1>5, <2>2, <2>3
<1>8. CASE EndTx(t)
  <2>1. Registered(Live \ {t}, [tx EXCEPT ![t] = NewTransaction]) /\ UNCHANGED <<pc, paused>>
    BY <1>8 DEF EndTx, callVars, fileVars
  <2>2. [tx EXCEPT ![t] = NewTransaction] \in [Tx -> Transaction]
    BY <1>1
  <2>3. \A u \in Live \ {t} : u \in Tx /\ [tx EXCEPT ![t] = NewTransaction][u] = tx[u] /\ pc'[u] = pc[u]
    BY <1>1, <2>1 DEF Live, TypeOK
  <2>4. Fewer
    BY <2>1, <2>2, <2>3, HeldFewer
  <2> QED
    BY <2>1, <2>4, DropStep
<1>9. CASE Commit(t)
  <2>1. Registered(Live, tx) /\ t \in Going /\ paused' = paused
    BY <1>9 DEF Commit, Acquire, Going, fileVars
  <2>2. \A u \in Tx : pc'[u] = pc[u] \/ u = t
    BY <1>9 DEF Commit, Goto, TypeOK, Proc
  <2>3. Live \subseteq Tx
    BY DEF Live, TypeOK
  <2>4. Fewer
    BY <1>1, <2>1, <2>2, <2>3, HeldFewer
  <2> QED
    BY <2>1, <2>4, DropStep
<1> QED
  BY <1>2, <1>3, <1>4, <1>6, <1>7, <1>8, <1>9 DEF ClientCall

(***************************************************************************)
(* The commit.  Its reads saw what they match now: nothing that is not     *)
(* there (SawTheLog), and all that is there (DecisionsHold).  Its events   *)
(* get the positions after the last one.                                   *)
(***************************************************************************)
LEMMA ReadsAreCurrent ==
    ASSUME NoDeletes, RInv, NEW t \in Tx, pc[t] = "reserved", NEW r \in ReadsOf(tx[t])
    PROVE  r.saw = Abstract!Matched(r.query)
<1> USE DEF RInv, IInv
<1>1. PICK c \in ConditionsOf(tx[t]) : r = [query |-> c.query, saw |-> {e.seq : e \in c.seen}]
  BY DEF ReadsOf
<1>2. c.seen \subseteq Matching(c.query, events)
  BY DEF SawTheLog
<1>3. tx[t].open = {}
  BY DEF Gathered
<1>4. PICK i \in DOMAIN tx[t].conditions : c = tx[t].conditions[i]
  BY <1>3 DEF ConditionsOf
<1>5. Matching(c.query, events) \subseteq c.seen
  BY <1>4 DEF DecisionsHold
<1>6. r.query = c.query /\ r.saw = {e.seq : e \in Matching(c.query, events)}
  BY <1>1, <1>2, <1>5
<1> QED
  BY <1>6, MatchesMatched

LEMMA CommitAppends ==
    ASSUME NoDeletes, IInv, IInv', NEW t \in Tx, CommitWrite(t)
    PROVE  logBar' = logBar \o tx[t].events
<1> USE DEF IInv
<1>1. /\ events' = events \cup Inserted(t) /\ pc[t] = "reserved"
      /\ LastCommitted = start - 1 /\ LastCommitted' = nextSeq - 1
  BY WrittenCommitted DEF CommitWrite
<1>2. nextSeq = start + Len(tx[t].events) /\ tx[t].events \in Seq(Kind)
  BY <1>1 DEF Reserved, TypeOK, Transaction
<1>3. start \in Nat \ {0} /\ Len(tx[t].events) \in Nat
  BY <1>2 DEF TypeOK
<1>4. LastCommitted' = LastCommitted + Len(tx[t].events) /\ LastCommitted \in Nat
  BY <1>1, <1>2, <1>3
<1>5. logBar \in Seq(Kind) /\ Len(logBar) = LastCommitted
  BY LogIsEvents
<1>6. ASSUME NEW e \in events' PROVE logBar'[e.seq] = e.kind
  <2>1. e.seq \in 1..LastCommitted'
    <3>1. e.seq \in Nat \ {0}
      BY DEF TypeOK, Event
    <3>2. e.seq <= LastCommitted'
      BY DEF NoGap
    <3> QED
      BY <1>3, <1>4, <3>1, <3>2
  <2>2. (CHOOSE f \in events' : f.seq = e.seq) = e
    BY DEF NoGap
  <2> QED
    BY <2>1, <2>2 DEF logBar
<1>7. ASSUME NEW n \in 1..LastCommitted' PROVE logBar'[n] = (logBar \o tx[t].events)[n]
  <2>1. CASE n <= LastCommitted
    <3>1. PICK e \in events : e.seq = n
      BY <1>4, <2>1, LogIsEvents
    <3>2. logBar[n] = e.kind /\ logBar'[n] = e.kind
      BY <1>1, <1>6, <3>1, LogIsEvents
    <3>3. (logBar \o tx[t].events)[n] = logBar[n]
      BY <1>2, <1>4, <1>5, <2>1
    <3> QED
      BY <3>2, <3>3
  <2>2. CASE n > LastCommitted
    <3> DEFINE i == n - LastCommitted
    <3>1. i \in 1..Len(tx[t].events) /\ start + i - 1 = n
      BY <1>1, <1>3, <1>4, <2>2
    <3>2. i \in DOMAIN tx[t].events
      BY <1>2, <3>1
    <3>3. [seq |-> start + i - 1, kind |-> tx[t].events[i], by |-> t] \in events'
      BY <1>1, <3>2 DEF Inserted
    <3>4. logBar'[n] = tx[t].events[i]
      BY <1>6, <3>1, <3>3
    <3>5. (logBar \o tx[t].events)[n] = tx[t].events[i]
      <4>1. n \in 1..Len(logBar) + Len(tx[t].events) /\ ~(n <= Len(logBar)) /\ n - Len(logBar) = i
        BY <1>3, <1>4, <1>5, <2>2
      <4> QED
        BY <1>2, <1>5, <4>1, ConcatProperties
    <3> QED
      BY <3>4, <3>5
  <2>3. n <= LastCommitted \/ n > LastCommitted
    BY <1>3, <1>4
  <2> QED
    BY <2>1, <2>2, <2>3
<1>8. logBar' = [n \in 1..LastCommitted' |-> logBar'[n]]
  BY DEF logBar
<1>9. logBar \o tx[t].events = [n \in 1..LastCommitted' |-> (logBar \o tx[t].events)[n]]
  <2>1. /\ logBar \o tx[t].events \in Seq(Kind)
        /\ Len(logBar \o tx[t].events) = LastCommitted'
    BY <1>2, <1>4, <1>5, ConcatProperties
  <2> HIDE DEF IInv
  <2> QED
    BY <2>1
<1> QED
  BY <1>7, <1>8, <1>9

LEMMA CommitStep ==
    ASSUME NoDeletes, RInv, IInv', NEW t \in Tx, CommitWrite(t)
    PROVE  Abstract!Next
<1> USE DEF RInv, IInv
<1>1. /\ pc[t] = "reserved" /\ Goto(t, "worked")
      /\ UNCHANGED <<txs, idle, tx, paused>>
  BY DEF CommitWrite, registryVars
<1>2. t \in Going
  BY <1>1, WhoGoes DEF BusyIsOpen
<1>3. Going' = Going \ {t}
  <2>1. ASSUME NEW u \in Tx PROVE pc'[u] = IF u = t THEN "worked" ELSE pc[u]
    BY <1>1 DEF Goto, TypeOK, Proc
  <2>2. ASSUME NEW u \in Tx PROVE u \in Going' <=> u \in Going /\ u # t
    BY <1>1, <2>1, WhoGoes
  <2> QED
    BY <2>2 DEF Going, Live, TypeOK
<1>4. readsBar' = [u \in Tx |-> IF u \in {t} THEN {} ELSE readsBar[u]]
  BY <1>1, <1>3 DEF readsBar
<1>5. pendingBar' = [u \in Tx |-> IF u \in {t} THEN <<>> ELSE pendingBar[u]]
  BY <1>1, <1>3 DEF pendingBar
<1>6. Abstract!Forget({t})
  BY <1>3, <1>4, <1>5 DEF Abstract!Forget
<1>7. pendingBar[t] = tx[t].events /\ readsBar[t] = ReadsOf(tx[t])
  BY <1>2 DEF pendingBar, readsBar
<1>8. logBar' = logBar \o pendingBar[t]
  BY <1>7, CommitAppends
<1>9. \A r \in readsBar[t] : r.saw = Abstract!Matched(r.query)
  BY <1>1, <1>7, ReadsAreCurrent
<1>10. Abstract!Commit(t)
  BY <1>1, <1>2, <1>6, <1>8, <1>9 DEF Abstract!Commit
<1> QED
  BY <1>10 DEF Abstract!Next

(***************************************************************************)
(* The steps of the queue and of the write: a transaction that is turned   *)
(* away or refused does not go on, though its call is still to end it.     *)
(***************************************************************************)
LEMMA ServedStep ==
    ASSUME IInv, TypeOK', logBar' = logBar, NEW p \in Proc,
           \/ QueueStep(p)
           \/ p \in Tx /\ (Reserve(p) \/ Refuse(p) \/ FailWrite(p))
    PROVE  Abstract!Next
<1> USE DEF IInv
<1>1. UNCHANGED <<txs, idle, tx, paused>>
  BY DEF QueueStep, Refused, Join, TurnAway, Start, Leave, Reserve, Refuse, FailWrite, registryVars,
         fileVars
<1>2. PICK stage : /\ Goto(p, stage)
                   /\ p \in Tx => pc[p] \notin {"free", "ending"}
                   /\ p \in Tx /\ pc[p] = "worked" => stage = "ending"
  <2>1. p \in Tx => After(p) = "ending"
    BY DEF After
  <2> QED
    BY <2>1 DEF QueueStep, Refused, Join, TurnAway, Start, Leave, Reserve, Refuse, FailWrite
<1>3. ASSUME NEW t \in Tx PROVE pc'[t] = IF t = p THEN stage ELSE pc[t]
  BY <1>2 DEF Goto, TypeOK, Proc
<1>4. ASSUME NEW t \in Tx, t \in Going' PROVE t \in Going
  BY <1>1, <1>2, <1>3, <1>4, WhoGoes
<1>5. Going' \subseteq Going
  BY <1>4 DEF Going, Live, TypeOK
<1> QED
  BY <1>1, <1>5, UntouchedFewer, DropStep

(***************************************************************************)
(* Requests outside transactions.  A pause is put in place when no         *)
(* transaction is left, and a resume that finds none changes nothing.      *)
(***************************************************************************)
LEMMA AdminKeeps ==
    ASSUME IInv, TypeOK', NEW a \in Admin, NEW stage, Goto(a, stage),
           UNCHANGED <<txs, idle, tx>> \/ Registered(Live, tx)
    PROVE  Going' = Going /\ Fewer
<1> USE DEF IInv
<1>1. ASSUME NEW t \in Tx PROVE pc'[t] = pc[t]
  BY RegistryAssumption DEF Goto, TypeOK, Proc
<1>2. ASSUME NEW t \in Tx PROVE t \in Going' <=> t \in Going
  BY <1>1, WhoGoes DEF Registered, Live, Expired, TypeOK
<1>3. Going' = Going
  BY <1>2 DEF Going, Live, TypeOK
<1>4. ASSUME NEW t \in Going PROVE tx'[t] = tx[t]
  BY DEF Registered, Going, Live, TypeOK
<1> QED
  BY <1>3, <1>4 DEF Fewer

LEMMA SameWork ==
    ASSUME Going' = Going, Fewer
    PROVE  readsBar' = readsBar /\ pendingBar' = pendingBar
<1>1. ASSUME NEW t \in Tx
      PROVE  (IF t \in Going' THEN ReadsOf(tx'[t]) ELSE {}) = IF t \in Going THEN ReadsOf(tx[t]) ELSE {}
  BY DEF Fewer
<1>2. ASSUME NEW t \in Tx
      PROVE  (IF t \in Going' THEN tx'[t].events ELSE <<>>) = IF t \in Going THEN tx[t].events ELSE <<>>
  BY DEF Fewer
<1> QED
  BY <1>1, <1>2 DEF readsBar, pendingBar

LEMMA AdminSteps ==
    ASSUME NoDeletes, IInv, TypeOK', logBar' = logBar, NEW a \in Admin,
           (\E j \in Jobs : Request(a, j)) \/ AdminStep(a)
    PROVE  Abstract!Next
<1> USE DEF IInv
<1>1. PICK stage : Goto(a, stage)
  BY DEF Request, AdminStep, Pause, Resume, PostProjections, DeleteProjections, DeleteEvents, WorkFails
<1>2. UNCHANGED <<txs, idle, tx>> \/ Registered(Live, tx)
  BY DEF Request, AdminStep, Pause, Resume, PostProjections, DeleteProjections, DeleteEvents, WorkFails,
         registryVars
<1>3. Going' = Going /\ Fewer
  BY <1>1, <1>2, AdminKeeps
<1>4. CASE paused' = paused
  BY <1>3, <1>4, DropStep
<1>5. CASE Pause(a) /\ paused' # paused
  <2>1. Live = {} /\ paused' = TRUE
    BY <1>5 DEF Pause
  <2>2. Going = {}
    BY <2>1 DEF Going
  <2>3. Abstract!Pause
    BY <1>3, <2>1, <2>2, SameWork DEF Abstract!Pause
  <2> QED
    BY <2>3 DEF Abstract!Next
<1>6. CASE Resume(a) /\ paused' # paused
  <2>1. paused' = FALSE
    BY <1>6 DEF Resume
  <2>2. Abstract!Resume
    BY <1>3, <2>1, SameWork DEF Abstract!Resume
  <2> QED
    BY <2>2 DEF Abstract!Next
<1>7. Pause(a) \/ Resume(a) \/ paused' = paused
  BY DEF Request, AdminStep, PostProjections, DeleteProjections, DeleteEvents, WorkFails, fileVars
<1> QED
  BY <1>4, <1>5, <1>6, <1>7

(***************************************************************************)
(* Time, the end of calls and of the server.                               *)
(***************************************************************************)
LEMMA TimeStep ==
    ASSUME IInv, TypeOK', logBar' = logBar, NEW t \in Tx, Tick(t) \/ Release(t) \/ EndCommit(t)
    PROVE  Abstract!Next
<1> USE DEF IInv
<1>1. CASE Tick(t)
  <2>1. UNCHANGED <<txs, tx, pc, paused>> /\ idle \subseteq idle'
    BY <1>1 DEF Tick, callVars, fileVars
  <2>2. ASSUME NEW u \in Tx, u \in Going' PROVE u \in Going
    BY <2>1, <2>2, WhoGoes
  <2>3. Going' \subseteq Going
    BY <2>2 DEF Going, Live, TypeOK
  <2> QED
    BY <2>1, <2>3, UntouchedFewer, DropStep
<1>2. CASE Release(t)
  <2>1. /\ pc[t] = "called" /\ t \in txs /\ paused' = paused
        /\ \A u \in Tx : pc'[u] = IF u = t THEN "free" ELSE pc[u]
    BY <1>2 DEF Release, BusyIsOpen, Goto, TypeOK, Proc, fileVars
  <2>2. t \in Going
    BY <2>1, WhoGoes
  <2>3. ASSUME NEW u \in Tx, u \in Going' PROVE u \in Going /\ tx'[u] = tx[u]
    BY <1>2, <2>1, <2>2, <2>3, WhoGoes DEF Release, Live, Expired, TypeOK
  <2>4. Fewer
    BY <2>3 DEF Fewer, Going, Live, TypeOK
  <2> QED
    BY <2>1, <2>4, DropStep
<1>3. CASE EndCommit(t)
  <2>1. /\ Registered(Live \ {t}, [tx EXCEPT ![t] = NewTransaction]) /\ paused' = paused
        /\ \A u \in Tx : u # t => pc'[u] = pc[u]
    BY <1>3 DEF EndCommit, Goto, TypeOK, Proc, fileVars
  <2>2. [tx EXCEPT ![t] = NewTransaction] \in [Tx -> Transaction]
    BY NewIsTransaction DEF TypeOK
  <2>3. \A u \in Live \ {t} : u \in Tx /\ [tx EXCEPT ![t] = NewTransaction][u] = tx[u] /\ pc'[u] = pc[u]
    BY <2>1 DEF Live, TypeOK
  <2>4. Fewer
    BY <2>1, <2>2, <2>3, HeldFewer
  <2> QED
    BY <2>1, <2>4, DropStep
<1> QED
  BY <1>1, <1>2, <1>3

LEMMA ServerStep ==
    ASSUME IInv, TypeOK', logBar' = logBar, Sweep \/ Close \/ Restart
    PROVE  Abstract!Next
<1> USE DEF IInv
<1>1. CASE Sweep
  <2>1. Registered(Live, tx) /\ UNCHANGED <<pc, paused>>
    BY <1>1 DEF Sweep, callVars, fileVars
  <2>2. tx \in [Tx -> Transaction] /\ Live \subseteq Tx
    BY DEF Live, TypeOK
  <2>3. Fewer
    BY <2>1, <2>2, HeldFewer
  <2> QED
    BY <2>1, <2>3, DropStep
<1>2. CASE Close
  <2>1. UNCHANGED <<txs, idle, tx, pc, paused>>
    BY <1>2 DEF Close, registryVars, callVars, fileVars
  <2>2. Going' = Going
    BY <2>1 DEF Going, Live, Expired
  <2> QED
    BY <2>1, <2>2, UntouchedFewer, DropStep
<1>3. CASE Restart
  <2>1. Going' = {} /\ paused' = paused
    BY <1>3 DEF Restart, Going, Live, fileVars
  <2>2. Fewer
    BY <2>1 DEF Fewer
  <2> QED
    BY <2>1, <2>2, DropStep
<1> QED
  BY <1>1, <1>2, <1>3

(***************************************************************************)
(* Every step is one of EventLog, or changes nothing it speaks of.         *)
(***************************************************************************)
LEMMA EveryStepMaps ==
    ASSUME NoDeletes, RInv, IInv', [Next]_vars
    PROVE  [Abstract!Next]_(Abstract!vars)
<1>1. IInv /\ TypeOK' /\ IInv'
  BY DEF RInv, IInv
<1>2. CASE UNCHANGED vars
  <2>1. UNCHANGED <<txs, idle, tx, events, paused, nextSeq, start, pc>>
    BY <1>2 DEF vars, registryVars, fileVars, counterVars, callVars
  <2>2. Going' = Going /\ LastCommitted' = LastCommitted
    BY <2>1 DEF Going, Live, Expired, LastCommitted
  <2>3. UNCHANGED <<logBar, readsBar, pendingBar>>
    BY <2>1, <2>2 DEF logBar, readsBar, pendingBar
  <2> QED
    BY <2>1, <2>2, <2>3 DEF Abstract!vars
<1>3. ASSUME NEW t \in Tx, CommitWrite(t) PROVE Abstract!Next
  BY <1>1, <1>3, CommitStep
<1>4. ASSUME Next, \A t \in Tx : ~CommitWrite(t) PROVE Abstract!Next
  <2>1. logBar' = logBar
    BY <1>1, <1>4, LogStays
  <2>2. CASE Sweep \/ Close \/ Restart
    BY <1>1, <2>1, <2>2, ServerStep
  <2>3. ASSUME NEW t \in Tx, ClientCall(t) PROVE Abstract!Next
    BY <1>1, <2>1, <2>3, ClientStep
  <2>4. ASSUME NEW t \in Tx, Tick(t) \/ Release(t) \/ EndCommit(t) PROVE Abstract!Next
    BY <1>1, <2>1, <2>4, TimeStep
  <2>5. ASSUME NEW t \in Tx, WriteStep(t) PROVE Abstract!Next
    BY <1>1, <1>4, <2>1, <2>5, ServedStep DEF WriteStep, Proc
  <2>6. ASSUME NEW a \in Admin, (\E j \in Jobs : Request(a, j)) \/ AdminStep(a) PROVE Abstract!Next
    BY <1>1, <2>1, <2>6, AdminSteps
  <2>7. ASSUME NEW p \in Proc, QueueStep(p) PROVE Abstract!Next
    BY <1>1, <2>1, <2>7, ServedStep
  <2> QED
    BY <1>4, <2>2, <2>3, <2>4, <2>5, <2>6, <2>7 DEF Next
<1> QED
  BY <1>2, <1>3, <1>4

LEMMA InitMaps == Init => Abstract!Init
<1> SUFFICES ASSUME Init PROVE Abstract!Init
  OBVIOUS
<1>1. Going = {}
  BY DEF Init, Going, Live
<1>2. LastCommitted = 0
  BY DEF Init, LastCommitted, Proc
<1>3. logBar = <<>>
  BY <1>2 DEF logBar
<1>4. readsBar = [t \in Tx |-> {}] /\ pendingBar = [t \in Tx |-> <<>>]
  BY <1>1 DEF readsBar, pendingBar
<1> QED
  BY <1>1, <1>3, <1>4 DEF Abstract!Init, Init

-----------------------------------------------------------------------------

(***************************************************************************)
(* Where nobody may delete the events, the server implements EventLog: for *)
(* any number of transactions, requests and kinds of events, any limits,   *)
(* crashes and shutdowns, each commit that is written is one step on the   *)
(* log, and finds all its reads as they were.                              *)
(***************************************************************************)
THEOREM Refinement ==
    ASSUME NoDeletes
    PROVE  Spec => IsAnEventLog
<1>1. RInv /\ IInv' /\ [Next]_vars => [Abstract!Next]_(Abstract!vars)
  BY EveryStepMaps
<1> QED
  BY <1>1, InitMaps, SpecRInv, SpecIInv, PTL DEF Spec, IsAnEventLog, Abstract!Spec

(***************************************************************************)
(* There too, the log is for ever: an event that was committed is never    *)
(* lost, and keeps its position, its kind and its transaction.             *)
(***************************************************************************)
THEOREM EventsAreForEver ==
    ASSUME NoDeletes
    PROVE  Spec => [][events \subseteq events']_vars
<1>1. IInv /\ [Next]_vars => [events \subseteq events']_vars
  BY EventsStay
<1> QED
  BY <1>1, SpecIInv, PTL DEF Spec
=============================================================================
