----------------------------- MODULE FifoProofs -----------------------------
(***************************************************************************)
(* The safety of the ticket line, for every set of requests and every      *)
(* MaxQueued.                                                              *)
(*                                                                         *)
(* Neither OneTurn nor InTicketOrder is inductive: a step that hands the   *)
(* turn over only looks at one ticket and at served.  What carries them is *)
(* where the tickets lie: all below next, no two alike, the holder's equal *)
(* to served, and those of the waiting at served or above.                 *)
(*                                                                         *)
(* The second part is the refinement of Line: in the order of the tickets  *)
(* the requests in line are one sequence.  The third is about the sleepers *)
(* and the broadcasts: whoever may go on is awake.                         *)
(***************************************************************************)
EXTENDS Fifo, FiniteSetTheorems, SequenceTheorems, TLAPS

Tickets ==
    /\ served <= next
    /\ \A r \in InLine : ticket[r] < next
    /\ \A r \in Req : pc[r] = "waiting" => served <= ticket[r]
    /\ \A r \in Req : pc[r] \in Holding => ticket[r] = served
    /\ \A r, s \in InLine : ticket[r] = ticket[s] => r = s

\* Writer.Close closes the writer before the queue.
CloseOrder == qclosed => wclosed

\* Manager.waiting: until the line is closed, no ticket was given up, so the
\* two counters measure the line, and MaxQueued bounds it.
LineMeasured ==
    ~qclosed => /\ Cardinality(InLine) = next - served
                /\ MaxQueued > 0 => Cardinality(InLine) <= MaxQueued + 1

Measure == IsFiniteSet(InLine) /\ LineMeasured

IInv == TypeOK /\ Tickets /\ CloseOrder

-----------------------------------------------------------------------------

(***************************************************************************)
(* What a request that holds the turn has to do with the others: the       *)
(* positions of the tickets give both properties.                          *)
(***************************************************************************)
LEMMA TicketsSuffice == IInv => OneTurn /\ InTicketOrder
<1> SUFFICES ASSUME IInv PROVE OneTurn /\ InTicketOrder
  OBVIOUS
<1> USE DEF IInv, TypeOK, Tickets, InLine, Holding
<1>1. OneTurn
  BY DEF OneTurn
<1>2. InTicketOrder
  <2> SUFFICES ASSUME NEW r \in Req, NEW s \in Req,
                      pc[r] \in Holding, pc[s] \in {"waiting"} \cup Holding, r # s
               PROVE  ticket[r] < ticket[s]
    BY DEF InTicketOrder
  <2>1. ticket[r] = served /\ ticket[r] # ticket[s]
    OBVIOUS
  <2>2. served <= ticket[s]
    OBVIOUS
  <2> QED
    BY <2>1, <2>2
<1> QED
  BY <1>1, <1>2

(***************************************************************************)
(* An empty line: when the counters meet, nobody is in line, so the one    *)
(* that joins has the turn to itself.                                      *)
(***************************************************************************)
LEMMA CountersMeet == IInv /\ next = served => InLine = {}
  BY DEF IInv, TypeOK, Tickets, InLine, Holding

LEMMA InitIInv == Init => IInv
<1> SUFFICES ASSUME Init PROVE IInv
  OBVIOUS
<1> USE DEF Init
<1>1. TypeOK
  BY DEF TypeOK, States
<1>2. \A r \in Req : pc[r] = "idle"
  OBVIOUS
<1>3. InLine = {}
  BY <1>2 DEF InLine, Holding
<1>4. Tickets /\ CloseOrder
  BY <1>2, <1>3 DEF Tickets, CloseOrder, Holding
<1> QED
  BY <1>1, <1>4 DEF IInv

(***************************************************************************)
(* Every step of Join, RunInTurn, Done and Close keeps the tickets in      *)
(* place.                                                                  *)
(***************************************************************************)
LEMMA NextIInv == IInv /\ [Next]_vars => IInv'
<1> SUFFICES ASSUME IInv, [Next]_vars PROVE IInv'
  OBVIOUS
<1> USE DEF IInv, TypeOK, Tickets, CloseOrder, InLine, States, Holding, Outcomes
<1>1. CASE CloseWriter
  BY <1>1 DEF CloseWriter
<1>2. CASE CloseQueue
  BY <1>2 DEF CloseQueue
<1>3. ASSUME NEW r \in Req, JoinClosed(r) \/ JoinFull(r)
      PROVE  IInv'
  BY <1>3 DEF JoinClosed, JoinFull
<1>4. ASSUME NEW r \in Req, JoinTicket(r)
      PROVE  IInv'
  <2> USE <1>4 DEF JoinTicket
  <2>1. TypeOK' /\ CloseOrder'
    OBVIOUS
  <2>2. CASE next = served
    <3>1. \A s \in Req : pc[s] \notin {"waiting"} \cup Holding
      BY <2>2, CountersMeet
    <3>2. \A s \in Req : pc'[s] \in {"waiting"} \cup Holding => s = r
      BY <3>1, <2>2
    <3> QED
      BY <2>1, <2>2, <3>2
  <2>3. CASE next # served
    <3>1. \A s \in Req : s # r => pc'[s] = pc[s] /\ ticket'[s] = ticket[s]
      BY <2>3
    <3>2. pc'[r] = "waiting" /\ ticket'[r] = next
      BY <2>3
    <3> QED
      BY <2>1, <2>3, <3>1, <3>2
  <2> QED
    BY <2>2, <2>3
<1>5. ASSUME NEW r \in Req, TakeTurn(r)
      PROVE  IInv'
  BY <1>5 DEF TakeTurn
<1>6. ASSUME NEW r \in Req, GiveUp(r) \/ SleepAgain(r)
      PROVE  IInv'
  BY <1>6 DEF GiveUp, SleepAgain
<1>7. ASSUME NEW r \in Req, StartWork(r) \/ FinishWork(r)
      PROVE  IInv'
  BY <1>7 DEF StartWork, FinishWork
<1>8. ASSUME NEW r \in Req, Done(r)
      PROVE  IInv'
  <2> USE <1>8 DEF Done
  <2>1. TypeOK' /\ CloseOrder'
    OBVIOUS
  <2>2. ticket[r] = served /\ served < next
    OBVIOUS
  <2>3. \A s \in InLine' : s # r /\ s \in InLine /\ pc[s] = "waiting" /\ pc'[s] = pc[s]
    <3> SUFFICES ASSUME NEW s \in InLine' PROVE s # r /\ s \in InLine /\ pc[s] = "waiting" /\ pc'[s] = pc[s]
      OBVIOUS
    <3>1. s # r /\ s \in InLine /\ pc'[s] = pc[s]
      OBVIOUS
    <3>2. pc[s] \notin Holding
      BY <3>1, <2>2
    <3> QED
      BY <3>1, <3>2
  <2>4. \A s \in InLine' : ticket[s] # served /\ served <= ticket[s]
    BY <2>2, <2>3
  <2> QED
    BY <2>1, <2>2, <2>3, <2>4
<1>9. CASE UNCHANGED vars
  BY <1>9 DEF vars
<1> QED
  BY <1>1, <1>2, <1>3, <1>4, <1>5, <1>6, <1>7, <1>8, <1>9 DEF Next, Move

LEMMA SpecIInv == Spec => []IInv
  BY InitIInv, NextIInv, PTL DEF Spec

-----------------------------------------------------------------------------

(***************************************************************************)
(* The variables keep their types.                                         *)
(***************************************************************************)
THEOREM TypeCorrect == Spec => []TypeOK
<1>1. IInv => TypeOK
  BY DEF IInv
<1> QED
  BY <1>1, SpecIInv, PTL

(***************************************************************************)
(* The turn is exclusive: fn has the write connection to itself, for any   *)
(* number of requests, whenever the writer is closed.                      *)
(***************************************************************************)
THEOREM TurnIsExclusive == Spec => []OneTurn
  BY TicketsSuffice, SpecIInv, PTL

(***************************************************************************)
(* The turn goes to tickets in order, and passes nobody by.                *)
(***************************************************************************)
THEOREM TurnsInOrder == Spec => []InTicketOrder
  BY TicketsSuffice, SpecIInv, PTL

(***************************************************************************)
(* Writer.Close: once the queue is closed, no request starts its work.     *)
(***************************************************************************)
THEOREM ClosedMeansClosed == Spec => NoWorkAfterClose
<1> DEFINE Starts(r) == pc'[r] = "working" /\ pc[r] # "working"
<1>1. ASSUME IInv, [Next]_vars
      PROVE  [\A r \in Req : Starts(r) => ~qclosed]_vars
  <2> SUFFICES ASSUME NEW r \in Req, Starts(r), Next PROVE ~qclosed
    BY <1>1
  <2>1. PICK s \in Req : JoinClosed(s) \/ JoinFull(s) \/ JoinTicket(s) \/ Move(s)
    BY DEF Next, CloseWriter, CloseQueue
  <2>2. StartWork(s)
    BY <2>1, <1>1 DEF IInv, TypeOK, Move, JoinClosed, JoinFull, JoinTicket, TakeTurn, GiveUp,
                      SleepAgain, FinishWork, Done
  <2>3. ~wclosed
    BY <2>2, <1>1 DEF StartWork, IInv, TypeOK
  <2> QED
    BY <2>3, <1>1 DEF IInv, CloseOrder
<1> QED
  BY <1>1, SpecIInv, PTL DEF Spec, NoWorkAfterClose

(***************************************************************************)
(* Manager.waiting measures the line: until it is closed, no ticket was    *)
(* given up, so the line holds as many requests as the counters are apart, *)
(* and MaxQueued caps those that wait behind the turn.                     *)
(***************************************************************************)
LEMMA InitMeasure == Init => Measure
<1> SUFFICES ASSUME Init PROVE Measure
  OBVIOUS
<1>1. InLine = {}
  BY DEF Init, InLine, Holding
<1>2. IsFiniteSet(InLine) /\ Cardinality(InLine) = 0
  BY <1>1, FS_EmptySet
<1> QED
  BY <1>2, FifoAssumption DEF Init, Measure, LineMeasured

LEMMA NextMeasure == IInv /\ Measure /\ [Next]_vars => Measure'
<1> SUFFICES ASSUME IInv, Measure, [Next]_vars PROVE Measure'
  OBVIOUS
<1> USE FifoAssumption DEF IInv, TypeOK, Measure, LineMeasured
<1>1. ASSUME InLine' = InLine, next' - served' = next - served, qclosed' = FALSE => qclosed = FALSE
      PROVE  Measure'
  BY <1>1
<1>2. CASE CloseWriter
  BY <1>1, <1>2 DEF CloseWriter, InLine
<1>3. CASE CloseQueue
  BY <1>1, <1>3 DEF CloseQueue, InLine
<1>4. ASSUME NEW r \in Req, JoinClosed(r) \/ JoinFull(r)
      PROVE  Measure'
  <2>1. InLine' = InLine
    BY <1>4 DEF JoinClosed, JoinFull, InLine, Holding
  <2> QED
    BY <1>1, <1>4, <2>1 DEF JoinClosed, JoinFull
<1>5. ASSUME NEW r \in Req, JoinTicket(r)
      PROVE  Measure'
  <2> USE <1>5 DEF JoinTicket
  <2>1. InLine' = InLine \cup {r} /\ r \notin InLine
    BY DEF InLine, Holding
  <2>2. IsFiniteSet(InLine') /\ Cardinality(InLine') = Cardinality(InLine) + 1
    BY <2>1, FS_AddElement
  <2>3. Cardinality(InLine') = next' - served'
    BY <2>2
  <2>4. MaxQueued > 0 => next - served <= MaxQueued
    BY DEF Waiting, Tickets
  <2> QED
    BY <2>2, <2>3, <2>4
<1>6. ASSUME NEW r \in Req, TakeTurn(r) \/ SleepAgain(r) \/ StartWork(r) \/ FinishWork(r)
      PROVE  Measure'
  <2>1. InLine' = InLine
    BY <1>6 DEF TakeTurn, SleepAgain, StartWork, FinishWork, InLine, Holding
  <2> QED
    BY <1>1, <1>6, <2>1 DEF TakeTurn, SleepAgain, StartWork, FinishWork
<1>7. ASSUME NEW r \in Req, GiveUp(r) \/ Done(r)
      PROVE  Measure'
  <2>1. InLine' = InLine \ {r} /\ r \in InLine
    BY <1>7 DEF GiveUp, Done, InLine, Holding
  <2>2. IsFiniteSet(InLine') /\ Cardinality(InLine') = Cardinality(InLine) - 1
    BY <2>1, FS_RemoveElement
  <2>3. CASE GiveUp(r)
    BY <2>2, <2>3 DEF GiveUp
  <2>4. CASE Done(r)
    BY <2>2, <2>4 DEF Done
  <2> QED
    BY <1>7, <2>3, <2>4
<1>8. CASE UNCHANGED vars
  BY <1>1, <1>8 DEF vars, InLine
<1> QED
  BY <1>2, <1>3, <1>4, <1>5, <1>6, <1>7, <1>8 DEF Next, Move

(***************************************************************************)
(* The counters say what Join must know: as long as they measure an open   *)
(* line, Waiting has reached MaxQueued when more than MaxQueued requests   *)
(* are in line, and not before.                                            *)
(***************************************************************************)
LEMMA WaitingTells ==
    IInv /\ Measure /\ ~qclosed /\ MaxQueued > 0
    => (Waiting >= MaxQueued <=> Cardinality(InLine) > MaxQueued)
  BY FifoAssumption DEF IInv, TypeOK, Tickets, Measure, LineMeasured, Waiting

(***************************************************************************)
(* Join: a request that comes to an open line is refused if and only if    *)
(* MaxQueued others wait behind the turn, for every MaxQueued.             *)
(***************************************************************************)
THEOREM RefusedWhenFull == Spec => CapIsExact
<1> DEFINE Comes(r) == pc[r] = "idle" /\ pc'[r] # "idle" /\ ~qclosed
           Full     == MaxQueued > 0 /\ Cardinality(InLine) > MaxQueued
<1>1. ASSUME IInv, Measure, [Next]_vars
      PROVE  [\A r \in Req : Comes(r) => (pc'[r] = "full" <=> Full)]_vars
  <2> SUFFICES ASSUME NEW r \in Req, Comes(r), Next PROVE pc'[r] = "full" <=> Full
    BY <1>1
  <2>1. pc \in [Req -> States]
    BY <1>1 DEF IInv, TypeOK
  <2>2. PICK s \in Req : JoinClosed(s) \/ JoinFull(s) \/ JoinTicket(s) \/ Move(s)
    BY DEF Next, CloseWriter, CloseQueue
  <2>3. s = r /\ (JoinFull(r) \/ JoinTicket(r))
    BY <2>1, <2>2 DEF Move, JoinClosed, JoinFull, JoinTicket, TakeTurn, GiveUp, SleepAgain,
                      StartWork, FinishWork, Done
  <2>4. pc'[r] = "full" <=> JoinFull(r)
    BY <2>1, <2>3 DEF JoinFull, JoinTicket
  <2>5. JoinFull(r) => Full
    BY <1>1, WaitingTells DEF JoinFull
  <2>6. JoinTicket(r) => ~Full
    <3> SUFFICES ASSUME JoinTicket(r), MaxQueued > 0 PROVE ~(Waiting >= MaxQueued)
      BY <1>1, WaitingTells
    <3> QED
      BY <1>1, FifoAssumption DEF JoinTicket, Waiting, IInv, TypeOK
  <2> QED
    BY <2>3, <2>4, <2>5, <2>6
<1> QED
  BY <1>1, InitMeasure, NextMeasure, SpecIInv, PTL DEF Spec, CapIsExact

-----------------------------------------------------------------------------

(***************************************************************************)
(* A finite set in the order of its tickets: what Place and InOrder are,   *)
(* and what becomes of them when one joins or leaves.                      *)
(***************************************************************************)
Ordered(S, t) ==
    /\ IsFiniteSet(S)
    /\ \A s \in S : t[s] \in Nat
    /\ \A r, s \in S : t[r] = t[s] => r = s

Upto(r, S, t) == {s \in S : t[s] <= t[r]}

LEMMA PlaceRange ==
    ASSUME NEW S, NEW t, Ordered(S, t), NEW r \in S
    PROVE  /\ IsFiniteSet(Upto(r, S, t))
           /\ Place(r, S, t) = Cardinality(Upto(r, S, t))
           /\ Place(r, S, t) \in 1..Cardinality(S)
           /\ Cardinality(S) \in Nat
<1> DEFINE U == Upto(r, S, t)
<1>1. U \in SUBSET S /\ r \in U
  BY DEF Upto, Ordered
<1>2. IsFiniteSet(U) /\ Cardinality(U) <= Cardinality(S)
  BY <1>1, FS_Subset DEF Ordered
<1>3. Cardinality(U) \in Nat /\ Cardinality(S) \in Nat /\ Cardinality(U) # 0
  BY <1>1, <1>2, FS_CardinalityType, FS_EmptySet DEF Ordered
<1>4. Place(r, S, t) = Cardinality(U)
  BY DEF Place, Upto
<1> HIDE DEF U
<1>5. Place(r, S, t) \in 1..Cardinality(S)
  BY <1>2, <1>3, <1>4
<1> QED
  BY <1>2, <1>3, <1>4, <1>5 DEF U

LEMMA PlaceMonotone ==
    ASSUME NEW S, NEW t, Ordered(S, t), NEW r \in S, NEW s \in S, t[r] < t[s]
    PROVE  Place(r, S, t) < Place(s, S, t)
<1>1. Upto(r, S, t) \in SUBSET Upto(s, S, t) /\ s \in Upto(s, S, t) /\ s \notin Upto(r, S, t)
  BY DEF Upto, Ordered
<1>2. IsFiniteSet(Upto(s, S, t))
  BY PlaceRange
<1>3. /\ Cardinality(Upto(r, S, t)) <= Cardinality(Upto(s, S, t))
      /\ Cardinality(Upto(r, S, t)) # Cardinality(Upto(s, S, t))
  BY <1>1, <1>2, FS_Subset
<1>4. /\ Place(r, S, t) = Cardinality(Upto(r, S, t))
      /\ Place(s, S, t) = Cardinality(Upto(s, S, t))
      /\ Place(r, S, t) \in Int
      /\ Place(s, S, t) \in Int
  BY PlaceRange
<1> QED
  BY <1>3, <1>4

LEMMA PlaceInjective ==
    ASSUME NEW S, NEW t, Ordered(S, t), NEW r \in S, NEW s \in S, Place(r, S, t) = Place(s, S, t)
    PROVE  r = s
<1>1. Place(r, S, t) \in Int
  BY PlaceRange
<1>2. ~(t[r] < t[s]) /\ ~(t[s] < t[r])
  BY <1>1, PlaceMonotone
<1>3. t[r] \in Nat /\ t[s] \in Nat
  BY DEF Ordered
<1>4. t[r] = t[s]
  BY <1>2, <1>3
<1> QED
  BY <1>4 DEF Ordered

\* Every place of 1..n is taken: an injection between sets of one size is onto.
LEMMA PlaceOnto ==
    ASSUME NEW S, NEW t, Ordered(S, t), NEW i \in 1..Cardinality(S)
    PROVE  \E r \in S : Place(r, S, t) = i
<1> DEFINE n == Cardinality(S)
           f == [r \in S |-> Place(r, S, t)]
<1>1. n \in Nat
  BY FS_CardinalityType DEF Ordered
<1>2. f \in [S -> 1..n]
  BY PlaceRange
<1>3. \A r, s \in S : f[r] = f[s] => r = s
  BY PlaceInjective
<1>4. f \in Injection(S, 1..n)
  <2> HIDE DEF f, n
  <2> QED
    BY <1>2, <1>3 DEF Injection, IsInjective
<1>5. IsFiniteSet(1..n) /\ Cardinality(1..n) = n
  <2>1. 1 \in Int /\ n \in Int
    BY <1>1
  <2>2. IsFiniteSet(1..n) /\ Cardinality(1..n) = IF 1 > n THEN 0 ELSE n - 1 + 1
    BY <2>1, FS_Interval
  <2> QED
    BY <1>1, <2>2
<1>6. f \in Surjection(S, 1..n)
  BY <1>4, <1>5, FS_Injection
<1>7. \A j \in 1..n : \E r \in S : f[r] = j
  BY <1>6 DEF Surjection
<1> QED
  BY <1>7

LEMMA InOrderIs ==
    ASSUME NEW S, NEW t, Ordered(S, t)
    PROVE  /\ InOrder(S, t) \in Seq(S)
           /\ Len(InOrder(S, t)) = Cardinality(S)
           /\ Cardinality(S) \in Nat
           /\ \A r \in S : InOrder(S, t)[Place(r, S, t)] = r
           /\ \A i \in 1..Cardinality(S) : Place(InOrder(S, t)[i], S, t) = i
<1> DEFINE q == InOrder(S, t)
           n == Cardinality(S)
<1>1. n \in Nat
  BY FS_CardinalityType DEF Ordered
<1>2. \A i \in 1..n : q[i] \in S /\ Place(q[i], S, t) = i
  BY PlaceOnto DEF InOrder
<1>3. DOMAIN q = 1..n /\ q = [i \in 1..n |-> q[i]]
  BY DEF InOrder
<1>4. q \in [1..n -> S]
  BY <1>2, <1>3
<1>5. q \in Seq(S) /\ Len(q) = n
  BY <1>1, <1>3, <1>4
<1>6. \A r \in S : q[Place(r, S, t)] = r
  <2> TAKE r \in S
  <2>1. Place(r, S, t) \in 1..n
    BY PlaceRange
  <2>2. q[Place(r, S, t)] \in S /\ Place(q[Place(r, S, t)], S, t) = Place(r, S, t)
    BY <1>2, <2>1
  <2> HIDE DEF q
  <2> QED
    BY <2>2, PlaceInjective
<1> QED
  BY <1>1, <1>2, <1>5, <1>6

\* A sequence with everyone at their place is the line.
LEMMA OnlyOrder ==
    ASSUME NEW S, NEW t, Ordered(S, t), NEW q \in Seq(S), Len(q) = Cardinality(S),
           \A r \in S : q[Place(r, S, t)] = r
    PROVE  q = InOrder(S, t)
<1> DEFINE o == InOrder(S, t)
<1>1. o \in Seq(S) /\ Len(o) = Cardinality(S)
  BY InOrderIs
<1>2. ASSUME NEW i \in 1..Len(q) PROVE q[i] = o[i]
  <2>1. PICK r \in S : Place(r, S, t) = i
    BY PlaceOnto
  <2> QED
    BY <2>1, InOrderIs
<1> HIDE DEF o
<1>3. q = o
  BY <1>1, <1>2, SeqEqual
<1> QED
  BY <1>3 DEF o

\* Only the tickets of those in line count.
LEMMA SameTickets ==
    ASSUME NEW S, NEW t, NEW u, \A s \in S : t[s] = u[s]
    PROVE  InOrder(S, t) = InOrder(S, u)
<1>1. \A r \in S : Place(r, S, t) = Place(r, S, u)
  <2> TAKE r \in S
  <2>1. {s \in S : t[s] <= t[r]} = {s \in S : u[s] <= u[r]}
    OBVIOUS
  <2> QED
    BY <2>1 DEF Place
<1>2. \A i \in 1..Cardinality(S) :
         (CHOOSE r \in S : Place(r, S, t) = i) = (CHOOSE r \in S : Place(r, S, u) = i)
  BY <1>1
<1> QED
  BY <1>2 DEF InOrder

\* The one with the largest ticket stands last...
LEMMA InOrderJoins ==
    ASSUME NEW S, NEW t, NEW r, r \notin S, Ordered(S \cup {r}, t), \A s \in S : t[s] < t[r]
    PROVE  InOrder(S \cup {r}, t) = Append(InOrder(S, t), r)
<1> DEFINE T == S \cup {r}
           q == InOrder(S, t)
           n == Cardinality(S)
<1>1. Ordered(S, t)
  BY FS_Subset DEF Ordered
<1>2. q \in Seq(S) /\ Len(q) = n /\ n \in Nat /\ \A s \in S : q[Place(s, S, t)] = s
  BY <1>1, InOrderIs
<1>3. Cardinality(T) = n + 1
  BY <1>1, FS_AddElement DEF Ordered
<1>4. Place(r, T, t) = n + 1
  <2>1. Upto(r, T, t) = T
    BY DEF Upto, Ordered
  <2> QED
    BY <2>1, <1>3, PlaceRange
<1>5. \A s \in S : Place(s, T, t) = Place(s, S, t) /\ Place(s, S, t) \in 1..n
  <2> TAKE s \in S
  <2>1. ~(t[r] <= t[s])
    BY DEF Ordered
  <2>2. Upto(s, T, t) = Upto(s, S, t)
    BY <2>1 DEF Upto
  <2> QED
    BY <2>2, <1>1, PlaceRange
<1> HIDE DEF q, n
<1>6. Append(q, r) \in Seq(T) /\ Len(Append(q, r)) = n + 1
  BY <1>2
<1>7. \A s \in T : Append(q, r)[Place(s, T, t)] = s
  <2>1. Append(q, r)[Place(r, T, t)] = r
    BY <1>2, <1>4
  <2>2. ASSUME NEW s \in S PROVE Append(q, r)[Place(s, T, t)] = s
    <3>1. Place(s, T, t) \in 1..n /\ q[Place(s, T, t)] = s
      BY <1>2, <1>5
    <3>2. Append(q, r)[Place(s, T, t)] = q[Place(s, T, t)]
      BY <1>2, <3>1
    <3> QED
      BY <3>1, <3>2
  <2> QED
    BY <2>1, <2>2
<1> HIDE DEF T
<1>8. Append(q, r) = InOrder(T, t)
  <2>1. Ordered(T, t)
    BY DEF T
  <2> QED
    BY <2>1, <1>3, <1>6, <1>7, OnlyOrder
<1> QED
  BY <1>8 DEF q, T

\* ... the one with the smallest stands first...
LEMMA InOrderHead ==
    ASSUME NEW S, NEW t, NEW r \in S, Ordered(S, t), \A s \in S : t[r] <= t[s]
    PROVE  Place(r, S, t) = 1 /\ InOrder(S, t) # <<>> /\ Head(InOrder(S, t)) = r
<1>1. Upto(r, S, t) = {r}
  BY DEF Upto, Ordered
<1>2. Place(r, S, t) = 1 /\ 1 \in 1..Cardinality(S)
  BY <1>1, PlaceRange, FS_Singleton
<1>3. InOrder(S, t)[1] = r /\ Len(InOrder(S, t)) = Cardinality(S) /\ InOrder(S, t) \in Seq(S)
  BY <1>2, InOrderIs
<1> QED
  BY <1>2, <1>3

\* ... and who leaves does so from their place.
LEMMA InOrderLeaves ==
    ASSUME NEW S, NEW t, NEW r \in S, Ordered(S, t)
    PROVE  LET q == InOrder(S, t)
               k == Place(r, S, t)
           IN  /\ k \in 1..Len(q)
               /\ q[k] = r
               /\ InOrder(S \ {r}, t) = SubSeq(q, 1, k - 1) \o SubSeq(q, k + 1, Len(q))
<1> DEFINE q == InOrder(S, t)
           k == Place(r, S, t)
           T == S \ {r}
           n == Cardinality(S)
           a == SubSeq(q, 1, k - 1)
           b == SubSeq(q, k + 1, Len(q))
<1>1. Ordered(T, t)
  BY FS_RemoveElement DEF Ordered
<1>2. /\ q \in Seq(S)
      /\ Len(q) = n
      /\ n \in Nat
      /\ \A s \in S : q[Place(s, S, t)] = s
      /\ \A i \in 1..n : Place(q[i], S, t) = i
  BY InOrderIs
<1>3. k \in 1..n /\ q[k] = r
  BY <1>2, PlaceRange
<1>4. Cardinality(T) = n - 1
  BY FS_RemoveElement DEF Ordered
<1>5. ASSUME NEW s \in T
      PROVE  /\ Place(s, S, t) \in 1..n
             /\ Place(s, S, t) < k => Place(s, T, t) = Place(s, S, t)
             /\ Place(s, S, t) > k => Place(s, T, t) = Place(s, S, t) - 1
             /\ Place(s, S, t) # k
  <2>1. Place(s, S, t) \in 1..n /\ Place(s, S, t) # k
    BY PlaceRange, PlaceInjective
  <2>2. t[s] \in Nat /\ t[r] \in Nat /\ t[s] # t[r]
    BY DEF Ordered
  <2>3. CASE t[s] < t[r]
    <3>1. Upto(s, T, t) = Upto(s, S, t)
      BY <2>2, <2>3 DEF Upto
    <3>2. Place(s, T, t) = Place(s, S, t) /\ Place(s, S, t) < k
      BY <3>1, <2>3, <1>1, PlaceRange, PlaceMonotone
    <3> QED
      BY <3>2, <2>1, <1>3
  <2>4. CASE t[r] < t[s]
    <3>1. Upto(s, T, t) = Upto(s, S, t) \ {r} /\ r \in Upto(s, S, t)
      BY <2>2, <2>4 DEF Upto
    <3>2. IsFiniteSet(Upto(s, S, t)) /\ Place(s, S, t) = Cardinality(Upto(s, S, t))
      BY PlaceRange
    <3>3. Place(s, T, t) = Cardinality(Upto(s, T, t))
      BY <1>1, PlaceRange
    <3>4. Place(s, T, t) = Place(s, S, t) - 1
      BY <3>1, <3>2, <3>3, FS_RemoveElement
    <3>5. k < Place(s, S, t)
      BY <2>4, PlaceMonotone
    <3> QED
      BY <3>4, <3>5, <2>1, <1>3
  <2> QED
    BY <2>2, <2>3, <2>4
<1>6. ASSUME NEW i \in 1..n, i # k PROVE q[i] \in T
  <2>1. q[i] \in S /\ Place(q[i], S, t) = i
    BY <1>2
  <2> QED
    BY <2>1, <1>6
<1>7. a \in Seq(T) /\ Len(a) = k - 1 /\ \A i \in 1..(k - 1) : a[i] = q[i]
  <2>1. \A i \in 1..(k - 1) : q[i] \in T
    BY <1>3, <1>2, <1>6
  <2>2. 1 \in Int /\ k - 1 \in Int /\ k - 1 >= 0
    BY <1>3, <1>2
  <2>3. /\ SubSeq(q, 1, k - 1) \in Seq(T)
        /\ Len(SubSeq(q, 1, k - 1)) = IF 1 <= k - 1 THEN k - 1 - 1 + 1 ELSE 0
        /\ \A i \in 1..(k - 1 - 1 + 1) : SubSeq(q, 1, k - 1)[i] = q[1 + i - 1]
    <3> HIDE DEF T
    <3> QED
      BY <2>1, <2>2, SubSeqProperties
  <2> QED
    BY <2>2, <2>3
<1>8. b \in Seq(T) /\ Len(b) = n - k /\ \A i \in 1..(n - k) : b[i] = q[k + i]
  <2>1. \A i \in (k + 1)..n : q[i] \in T
    BY <1>3, <1>2, <1>6
  <2>2. k + 1 \in Int /\ n \in Int /\ k \in Int /\ k <= n
    BY <1>3, <1>2
  <2>3. /\ SubSeq(q, k + 1, n) \in Seq(T)
        /\ Len(SubSeq(q, k + 1, n)) = IF k + 1 <= n THEN n - (k + 1) + 1 ELSE 0
        /\ \A i \in 1..(n - (k + 1) + 1) : SubSeq(q, k + 1, n)[i] = q[k + 1 + i - 1]
    <3> HIDE DEF T, n
    <3> QED
      BY <2>1, <2>2, SubSeqProperties
  <2>4. b = SubSeq(q, k + 1, n)
    BY <1>2
  <2>5. n - (k + 1) + 1 = n - k /\ \A i \in 1..(n - k) : k + 1 + i - 1 = k + i
    BY <2>2
  <2> HIDE DEF b, n
  <2> QED
    BY <2>2, <2>3, <2>4, <2>5
<1> HIDE DEF a, b, n, T
<1>9. /\ a \o b \in Seq(T)
      /\ Len(a \o b) = n - 1
      /\ \A i \in 1..(n - 1) : (a \o b)[i] = IF i <= k - 1 THEN a[i] ELSE b[i - (k - 1)]
  <2>1. /\ a \o b \in Seq(T)
        /\ Len(a \o b) = Len(a) + Len(b)
        /\ \A i \in 1..(Len(a) + Len(b)) : (a \o b)[i] = IF i <= Len(a) THEN a[i] ELSE b[i - Len(a)]
    BY <1>7, <1>8, ConcatProperties
  <2>2. Len(a) + Len(b) = n - 1
    BY <1>7, <1>8, <1>2, <1>3
  <2> QED
    BY <2>1, <2>2, <1>7
<1>10. ASSUME NEW s \in T PROVE (a \o b)[Place(s, T, t)] = s
  <2> DEFINE p == Place(s, S, t)
  <2>1. p \in 1..n /\ p # k /\ q[p] = s
    BY <1>2, <1>5 DEF T
  <2>2. CASE p < k
    <3>1. Place(s, T, t) = p
      BY <1>5, <2>2
    <3> HIDE DEF p
    <3>2. p \in 1..(n - 1) /\ p <= k - 1 /\ p \in 1..(k - 1)
      BY <2>1, <2>2, <1>2, <1>3
    <3> QED
      BY <3>1, <3>2, <2>1, <1>7, <1>9
  <2>3. CASE p > k
    <3>1. Place(s, T, t) = p - 1
      BY <1>5, <2>3
    <3> HIDE DEF p
    <3>2. /\ p - 1 \in 1..(n - 1)
          /\ ~(p - 1 <= k - 1)
          /\ p - 1 - (k - 1) = p - k
          /\ p - k \in 1..(n - k)
          /\ k + (p - k) = p
      BY <2>1, <2>3, <1>2, <1>3
    <3>3. (a \o b)[p - 1] = b[p - k]
      BY <3>2, <1>9
    <3>4. b[p - k] = q[p]
      BY <3>2, <1>8
    <3> QED
      BY <3>1, <3>3, <3>4, <2>1
  <2>4. p \in Int /\ k \in Int /\ p # k
    BY <2>1, <1>2, <1>3
  <2> HIDE DEF p
  <2>5. p < k \/ p > k
    BY <2>4
  <2> QED
    BY <2>2, <2>3, <2>5
<1>11. a \o b = InOrder(T, t)
  <2>1. a \o b \in Seq(T) /\ Len(a \o b) = Cardinality(T)
    BY <1>4, <1>9
  <2> QED
    BY <2>1, <1>1, <1>10, OnlyOrder
<1> QED
  BY <1>2, <1>3, <1>11 DEF a, b, T

-----------------------------------------------------------------------------

(***************************************************************************)
(* The ticket line implements Line: what the mapping needs besides IInv is *)
(* that the line is finite, that the counters measure it, and that a       *)
(* request skips its work only once the writer is closed.                  *)
(***************************************************************************)
Skips == \A r \in Req : pc[r] = "skipped" => wclosed

FInv == IInv /\ Measure /\ Skips

LEMMA InitFInv == Init => FInv
<1>1. Init => Skips
  BY DEF Init, Skips
<1> QED
  BY <1>1, InitIInv, InitMeasure DEF FInv

LEMMA NextFInv == FInv /\ [Next]_vars => FInv'
<1> SUFFICES ASSUME FInv, [Next]_vars PROVE FInv'
  OBVIOUS
<1>1. IInv /\ Measure /\ Skips /\ TypeOK
  BY DEF FInv, IInv
<1>2. IInv' /\ Measure'
  BY <1>1, NextIInv, NextMeasure
<1>3. Skips'
  <2> SUFFICES ASSUME NEW r \in Req, pc'[r] = "skipped" PROVE wclosed'
    BY DEF Skips
  <2>1. wclosed => wclosed'
    BY <1>1 DEF TypeOK, Next, Move, vars, CloseWriter, CloseQueue, JoinClosed, JoinFull, JoinTicket, TakeTurn,
                GiveUp, SleepAgain, StartWork, FinishWork, Done
  <2>2. pc[r] = "skipped" \/ StartWork(r)
    BY <1>1 DEF TypeOK, Next, Move, vars, CloseWriter, CloseQueue, JoinClosed, JoinFull, JoinTicket, TakeTurn,
                GiveUp, SleepAgain, StartWork, FinishWork, Done
  <2>3. ASSUME StartWork(r) PROVE wclosed
    BY <1>1, <2>3 DEF StartWork, TypeOK
  <2> QED
    BY <1>1, <2>1, <2>2, <2>3 DEF Skips
<1> QED
  BY <1>2, <1>3 DEF FInv

LEMMA LineIsOrdered ==
    ASSUME FInv
    PROVE  /\ Ordered(InLine, ticket)
           /\ InLine \subseteq Req
           /\ lineBar \in Seq(InLine)
           /\ Len(lineBar) = Cardinality(InLine)
           /\ L!InLine = InLine
<1>1. Ordered(InLine, ticket)
  BY DEF FInv, IInv, TypeOK, Tickets, Measure, Ordered, InLine
<1>2. lineBar \in Seq(InLine) /\ Len(lineBar) = Cardinality(InLine)
  BY <1>1, InOrderIs DEF lineBar
<1>3. L!InLine \subseteq InLine
  BY <1>2 DEF L!InLine
<1>4. ASSUME NEW r \in InLine PROVE r \in L!InLine
  <2>1. lineBar[Place(r, InLine, ticket)] = r /\ Place(r, InLine, ticket) \in DOMAIN lineBar
    BY <1>1, <1>2, InOrderIs, PlaceRange DEF lineBar
  <2> QED
    BY <2>1 DEF L!InLine
<1> QED
  BY <1>1, <1>2, <1>3, <1>4 DEF InLine

\* A step that leaves everyone in line where they are.
LEMMA SameLine ==
    ASSUME InLine' = InLine, ticket' = ticket
    PROVE  lineBar' = lineBar
BY DEF lineBar

\* The request that holds the turn is at the head, and nobody else works.
LEMMA HolderIsHead ==
    ASSUME FInv, NEW r \in Req, pc[r] \in Holding
    PROVE  /\ r \in InLine
           /\ L!HasTurn(r)
           /\ Place(r, InLine, ticket) = 1
           /\ workingBar <=> pc[r] \in {"working", "worked"}
<1>1. r \in InLine
  BY DEF InLine
<1>2. \A s \in InLine : ticket[r] <= ticket[s]
  BY <1>1 DEF FInv, IInv, TypeOK, Tickets, InLine
<1>3. Place(r, InLine, ticket) = 1 /\ lineBar # <<>> /\ Head(lineBar) = r
  BY <1>1, <1>2, LineIsOrdered, InOrderHead DEF lineBar
<1>4. \A s \in Req : pc[s] \in Holding => s = r
  BY TicketsSuffice DEF FInv, OneTurn
<1>5. workingBar <=> pc[r] \in {"working", "worked"}
  BY <1>4 DEF workingBar, Holding
<1> QED
  BY <1>1, <1>3, <1>5 DEF L!HasTurn

\* Whoever leaves the line leaves it from their place; the head leaves its tail.
LEMMA LeavesTheLine ==
    ASSUME FInv, NEW r \in InLine, InLine' = InLine \ {r}, ticket' = ticket
    PROVE  /\ \E i \in DOMAIN lineBar :
                 /\ lineBar[i] = r
                 /\ lineBar' = SubSeq(lineBar, 1, i - 1) \o SubSeq(lineBar, i + 1, Len(lineBar))
           /\ Place(r, InLine, ticket) = 1 => lineBar' = Tail(lineBar)
<1> DEFINE k == Place(r, InLine, ticket)
           q == lineBar
<1>1. Ordered(InLine, ticket) /\ q \in Seq(InLine)
  BY LineIsOrdered
<1>2. /\ k \in 1..Len(q)
      /\ q[k] = r
      /\ InOrder(InLine \ {r}, ticket) = SubSeq(q, 1, k - 1) \o SubSeq(q, k + 1, Len(q))
  BY <1>1, InOrderLeaves DEF lineBar
<1>3. lineBar' = SubSeq(q, 1, k - 1) \o SubSeq(q, k + 1, Len(q))
  BY <1>2 DEF lineBar
<1>4. k \in DOMAIN q
  BY <1>1, <1>2
<1> HIDE DEF k, q
<1>5. ASSUME k = 1 PROVE lineBar' = Tail(q)
  <2>1. q # <<>> /\ Len(q) \in Nat
    BY <1>1, <1>2
  <2>2. SubSeq(q, 1, k - 1) = <<>>
    BY <1>5, SubSeqEmpty
  <2>3. Tail(q) \in Seq(InLine) /\ Tail(q) = SubSeq(q, 2, Len(q))
    BY <1>1, <2>1, HeadTailProperties, TailIsSubSeq
  <2>4. <<>> \o Tail(q) = Tail(q)
    BY <2>3, ConcatEmptySeq
  <2> QED
    BY <1>3, <1>5, <2>2, <2>3, <2>4
<1> QED
  BY <1>2, <1>3, <1>4, <1>5 DEF k, q

LEMMA InitMaps == Init => L!Init
<1> SUFFICES ASSUME Init PROVE L!Init
  OBVIOUS
<1>1. FInv
  BY InitFInv
<1>2. InLine = {}
  BY DEF Init, InLine, Holding
<1>3. lineBar \in Seq({}) /\ Len(lineBar) = 0
  BY <1>1, <1>2, LineIsOrdered, FS_EmptySet
<1>4. lineBar = <<>>
  BY <1>3
<1>5. workingBar = FALSE
  BY DEF Init, workingBar
<1> QED
  BY <1>4, <1>5 DEF Init, L!Init

\* Join takes a place at the end of a line that is not full.
LEMMA JoinEnters ==
    ASSUME FInv, NEW r \in Req, JoinTicket(r)
    PROVE  L!Enter(r)
<1> USE DEF JoinTicket
<1>1. /\ TypeOK
      /\ r \notin InLine
      /\ InLine' = InLine \cup {r}
      /\ \A s \in InLine : ticket'[s] = ticket[s] /\ ticket'[s] < ticket'[r]
  <2>1. TypeOK /\ Tickets
    BY DEF FInv, IInv
  <2>2. r \notin InLine /\ InLine' = InLine \cup {r}
    BY <2>1 DEF TypeOK, InLine, Holding
  <2>3. ticket'[r] = next /\ \A s \in InLine : ticket'[s] = ticket[s] /\ ticket[s] < next
    BY <2>1, <2>2 DEF TypeOK, Tickets, InLine
  <2> QED
    BY <2>1, <2>2, <2>3
<1>2. FInv'
  BY NextFInv DEF Next
<1>3. Ordered(InLine \cup {r}, ticket')
  <2>1. Ordered(InLine', ticket')
    BY <1>2 DEF FInv, IInv, TypeOK, Tickets, Measure, Ordered, InLine
  <2> QED
    BY <1>1, <2>1
<1>4. lineBar' = Append(InOrder(InLine, ticket'), r)
  <2>1. r \notin InLine /\ \A s \in InLine : ticket'[s] < ticket'[r]
    BY <1>1
  <2>2. InOrder(InLine \cup {r}, ticket') = Append(InOrder(InLine, ticket'), r)
    <3> DEFINE S == InLine
               t == ticket'
    <3>1. r \notin S /\ Ordered(S \cup {r}, t) /\ \A s \in S : t[s] < t[r]
      BY <2>1, <1>3
    <3> HIDE DEF S, t
    <3>2. InOrder(S \cup {r}, t) = Append(InOrder(S, t), r)
      BY <3>1, InOrderJoins
    <3> QED
      BY <3>2 DEF S, t
  <2>3. lineBar' = InOrder(InLine', ticket')
    BY DEF lineBar
  <2> QED
    BY <2>2, <2>3, <1>1
<1>5. InOrder(InLine, ticket') = lineBar
  BY <1>1, SameTickets DEF lineBar
<1>6. workingBar' = workingBar
  BY <1>1 DEF workingBar, TypeOK
<1>7. r \notin L!InLine
  BY <1>1, LineIsOrdered
<1>8. ~L!Full
  <2>1. MaxQueued > 0 => next - served <= MaxQueued
    BY FifoAssumption DEF Waiting, FInv, IInv, TypeOK, Tickets
  <2>2. Len(lineBar) = next - served
    BY LineIsOrdered DEF FInv, Measure, LineMeasured
  <2>3. MaxQueued \in Nat /\ next - served \in Int
    BY <1>1, FifoAssumption DEF TypeOK
  <2> QED
    BY <2>1, <2>2, <2>3 DEF L!Full
<1> QED
  BY <1>4, <1>5, <1>6, <1>7, <1>8 DEF L!Enter

\* The work begins unless the writer is closed: then nothing is seen of it.
LEMMA StartBegins ==
    ASSUME FInv, NEW r \in Req, StartWork(r)
    PROVE  L!Begin(r) \/ UNCHANGED L!vars
<1>1. TypeOK /\ pc[r] = "turn"
  BY DEF FInv, IInv, StartWork
<1>2. L!HasTurn(r) /\ ~workingBar
  BY <1>1, HolderIsHead DEF Holding
<1>3. InLine' = InLine
  BY <1>1 DEF StartWork, TypeOK, InLine, Holding
<1>4. lineBar' = lineBar
  BY <1>3, SameLine DEF StartWork
<1>5. CASE wclosed
  <2>1. ~workingBar'
    BY <1>1, <1>2, <1>5 DEF StartWork, TypeOK, workingBar
  <2>2. workingBar' = workingBar
    BY <2>1, <1>2 DEF workingBar
  <2> QED
    BY <2>2, <1>4 DEF StartWork, L!vars
<1>6. CASE ~wclosed
  <2>1. pc'[r] = "working"
    BY <1>1, <1>6 DEF StartWork, TypeOK
  <2>2. workingBar' = TRUE
    BY <2>1 DEF workingBar
  <2> QED
    BY <2>2, <1>2, <1>4, <1>6 DEF StartWork, L!Begin
<1> QED
  BY <1>5, <1>6

\* turn.Done ends the work and the turn, or turns away who skipped its work.
LEMMA DoneLeaves ==
    ASSUME FInv, NEW r \in Req, Done(r)
    PROVE  L!Leave(r) \/ L!TurnAway(r)
<1>1. TypeOK /\ pc[r] \in {"worked", "skipped"} /\ ticket' = ticket /\ wclosed' = wclosed
  BY DEF FInv, IInv, Done
<1>2. r \in InLine /\ InLine' = InLine \ {r}
  BY <1>1 DEF Done, TypeOK, InLine, Holding
<1>3. L!HasTurn(r) /\ Place(r, InLine, ticket) = 1 /\ (workingBar <=> pc[r] = "worked")
  BY <1>1, HolderIsHead DEF Holding
<1>4. ~workingBar'
  <2>1. \A s \in Req : pc[s] \in Holding => s = r
    BY <1>1, TicketsSuffice DEF FInv, OneTurn, Holding
  <2> QED
    BY <1>1, <2>1 DEF Done, TypeOK, workingBar, Holding
<1>5. CASE pc[r] = "worked"
  <2>1. lineBar' = Tail(lineBar)
    BY <1>1, <1>2, <1>3, LeavesTheLine
  <2>2. workingBar' = FALSE /\ workingBar
    BY <1>3, <1>4, <1>5 DEF workingBar
  <2> QED
    BY <1>1, <1>3, <2>1, <2>2 DEF L!Leave
<1>6. CASE pc[r] = "skipped"
  <2>1. wclosed
    BY <1>6 DEF FInv, Skips
  <2>2. workingBar' = workingBar /\ ~workingBar
    BY <1>3, <1>4, <1>6 DEF workingBar
  <2>3. \E i \in DOMAIN lineBar :
           /\ lineBar[i] = r
           /\ lineBar' = SubSeq(lineBar, 1, i - 1) \o SubSeq(lineBar, i + 1, Len(lineBar))
    BY <1>1, <1>2, LeavesTheLine
  <2> QED
    BY <1>1, <2>1, <2>2, <2>3 DEF L!TurnAway
<1> QED
  BY <1>1, <1>5, <1>6

\* A request that gives up is one the closed line lets go of.
LEMMA GiveUpIsTurnAway ==
    ASSUME FInv, NEW r \in Req, GiveUp(r)
    PROVE  L!TurnAway(r)
<1>1. TypeOK /\ pc[r] = "waiting" /\ qclosed /\ wclosed /\ ticket' = ticket /\ wclosed' = wclosed
  BY DEF FInv, IInv, CloseOrder, GiveUp
<1>2. r \in InLine /\ InLine' = InLine \ {r}
  BY <1>1 DEF GiveUp, TypeOK, InLine, Holding
<1>3. workingBar' = workingBar
  BY <1>1 DEF GiveUp, TypeOK, workingBar
<1>4. ASSUME workingBar PROVE ~L!HasTurn(r)
  <2>1. PICK s \in Req : pc[s] \in {"working", "worked"}
    BY <1>4 DEF workingBar
  <2>2. L!HasTurn(s)
    BY <2>1, HolderIsHead DEF Holding
  <2> QED
    BY <1>1, <2>1, <2>2 DEF L!HasTurn
<1>5. \E i \in DOMAIN lineBar :
         /\ lineBar[i] = r
         /\ lineBar' = SubSeq(lineBar, 1, i - 1) \o SubSeq(lineBar, i + 1, Len(lineBar))
  BY <1>1, <1>2, LeavesTheLine
<1> QED
  BY <1>1, <1>3, <1>4, <1>5 DEF L!TurnAway

\* Every other step of the ticket line is invisible, but the first half of
\* Writer.Close.
LEMMA QuietSteps ==
    ASSUME FInv,
           \/ CloseQueue
           \/ UNCHANGED vars
           \/ \E r \in Req : JoinClosed(r) \/ JoinFull(r) \/ TakeTurn(r) \/ SleepAgain(r) \/ FinishWork(r)
    PROVE  UNCHANGED L!vars
<1>1. TypeOK
  BY DEF FInv, IInv
<1>2. ticket' = ticket /\ wclosed' = wclosed
  BY DEF CloseQueue, vars, JoinClosed, JoinFull, TakeTurn, SleepAgain, FinishWork
<1>3. InLine' = InLine
  BY <1>1 DEF CloseQueue, vars, JoinClosed, JoinFull, TakeTurn, SleepAgain, FinishWork, TypeOK, InLine, Holding
<1>4. workingBar' = workingBar
  BY <1>1 DEF CloseQueue, vars, JoinClosed, JoinFull, TakeTurn, SleepAgain, FinishWork, TypeOK, workingBar
<1> QED
  BY <1>2, <1>3, <1>4, SameLine DEF L!vars

LEMMA CloseCloses ==
    ASSUME FInv, CloseWriter
    PROVE  L!Close
<1>1. lineBar' = lineBar /\ workingBar' = workingBar
  BY SameLine DEF CloseWriter, InLine, workingBar
<1> QED
  BY <1>1 DEF CloseWriter, L!Close

LEMMA EveryStepMaps == FInv /\ [Next]_vars => [L!Next]_(L!vars)
<1> SUFFICES ASSUME FInv, [Next]_vars PROVE [L!Next]_(L!vars)
  OBVIOUS
<1>1. CASE CloseWriter
  BY <1>1, CloseCloses DEF L!Next
<1>2. ASSUME NEW r \in Req, JoinTicket(r) PROVE [L!Next]_(L!vars)
  BY <1>2, JoinEnters DEF L!Next
<1>3. ASSUME NEW r \in Req, StartWork(r) PROVE [L!Next]_(L!vars)
  BY <1>3, StartBegins DEF L!Next
<1>4. ASSUME NEW r \in Req, Done(r) PROVE [L!Next]_(L!vars)
  BY <1>4, DoneLeaves DEF L!Next
<1>5. ASSUME NEW r \in Req, GiveUp(r) PROVE [L!Next]_(L!vars)
  BY <1>5, GiveUpIsTurnAway DEF L!Next
<1> QED
  BY <1>1, <1>2, <1>3, <1>4, <1>5, QuietSteps DEF Next, Move

(***************************************************************************)
(* The ticket line is a line: for every set of requests and every          *)
(* MaxQueued, Join, RunInTurn, Done and Close do nothing that one line     *)
(* whose head works could not do.  The liveness of IsALine is not in it.   *)
(***************************************************************************)
THEOREM StepsOfALine == Spec => L!Init /\ [][L!Next]_(L!vars)
BY InitMaps, InitFInv, NextFInv, EveryStepMaps, PTL DEF Spec

-----------------------------------------------------------------------------

(***************************************************************************)
(* No wake-up is lost: nobody sleeps on a turn that is theirs, or on a     *)
(* closed line.                                                            *)
(***************************************************************************)
Wakes ==
    /\ qclosed => asleep = {}
    /\ \A r \in asleep : pc[r] = "waiting" /\ ticket[r] # served

\* While anyone is in line, one of them goes on: the request that holds the
\* turn, or one that is awake and will not sleep again.
NobodyStranded ==
    InLine # {} => \E r \in InLine :
                      \/ pc[r] \in Holding
                      \/ /\ pc[r] = "waiting" /\ r \notin asleep
                         /\ ticket[r] = served \/ qclosed

LEMMA InitWakes == Init => Wakes
  BY DEF Init, Wakes

LEMMA NextWakes == IInv /\ Wakes /\ [Next]_vars => Wakes'
<1> SUFFICES ASSUME IInv, Wakes, [Next]_vars PROVE Wakes'
  OBVIOUS
<1> USE DEF IInv, TypeOK, Wakes
<1>1. CASE CloseWriter \/ CloseQueue \/ UNCHANGED vars
  BY <1>1 DEF CloseWriter, CloseQueue, vars
<1>2. ASSUME NEW r \in Req, JoinClosed(r) \/ JoinFull(r)
      PROVE  Wakes'
  BY <1>2 DEF JoinClosed, JoinFull
<1>3. ASSUME NEW r \in Req, JoinTicket(r)
      PROVE  Wakes'
  BY <1>3 DEF JoinTicket
<1>4. ASSUME NEW r \in Req, TakeTurn(r) \/ GiveUp(r) \/ SleepAgain(r) \/ StartWork(r) \/ FinishWork(r)
      PROVE  Wakes'
  BY <1>4 DEF TakeTurn, GiveUp, SleepAgain, StartWork, FinishWork
<1>5. ASSUME NEW r \in Req, Done(r)
      PROVE  Wakes'
  BY <1>5 DEF Done
<1> QED
  BY <1>1, <1>2, <1>3, <1>4, <1>5 DEF Next, Move

\* Until the line is closed, every ticket from served on is held: as many
\* requests are in line as the counters are apart, no two with one ticket.
LEMMA ServedIsInLine ==
    ASSUME FInv, ~qclosed, InLine # {}
    PROVE  \E r \in InLine : ticket[r] = served
<1> DEFINE f == [r \in InLine |-> ticket[r]]
           T == served..(next - 1)
<1>1. TypeOK /\ Tickets
  BY DEF FInv, IInv
<1>2. \A r \in InLine : ticket[r] \in T
  <2> TAKE r \in InLine
  <2>1. served <= ticket[r] /\ ticket[r] < next
    BY <1>1 DEF TypeOK, Tickets, InLine
  <2> QED
    BY <2>1, <1>1 DEF TypeOK, InLine
<1>3. \A r, s \in InLine : ticket[r] = ticket[s] => r = s
  BY <1>1 DEF Tickets
<1>4. f \in Injection(InLine, T)
  <2>1. f \in [InLine -> T] /\ \A r, s \in InLine : f[r] = f[s] => r = s
    BY <1>2, <1>3
  <2> HIDE DEF f, T
  <2> QED
    BY <2>1 DEF Injection, IsInjective
<1>5. IsFiniteSet(InLine) /\ Cardinality(InLine) = next - served
  BY DEF FInv, Measure, LineMeasured
<1>6. Cardinality(InLine) # 0
  BY <1>5, FS_EmptySet
<1>7. served \in Int /\ next - 1 \in Int /\ next \in Int /\ served <= next /\ served < next
  BY <1>1, <1>5, <1>6 DEF TypeOK, Tickets
<1>8. IsFiniteSet(T) /\ Cardinality(T) = next - served
  <2>1. IsFiniteSet(T) /\ Cardinality(T) = IF served > next - 1 THEN 0 ELSE next - 1 - served + 1
    BY <1>7, FS_Interval
  <2> QED
    BY <2>1, <1>7
<1>9. f \in Surjection(InLine, T)
  BY <1>4, <1>5, <1>8, FS_Injection
<1>10. served \in T
  BY <1>7
<1>11. \E r \in InLine : f[r] = served
  BY <1>9, <1>10 DEF Surjection
<1> QED
  BY <1>11

(***************************************************************************)
(* Join, Done and Close: the broadcast reaches everyone it has to.  For    *)
(* any number of requests, while anyone is in line, the one with the turn  *)
(* works, or the one whose turn it is is awake, or, once the line is       *)
(* closed, whoever is left is.                                             *)
(***************************************************************************)
THEOREM NoWakeUpIsLost == Spec => []NobodyStranded
<1>1. FInv /\ Wakes => NobodyStranded
  <2> SUFFICES ASSUME FInv, Wakes, InLine # {}
               PROVE  \E r \in InLine : \/ pc[r] \in Holding
                                        \/ /\ pc[r] = "waiting" /\ r \notin asleep
                                           /\ ticket[r] = served \/ qclosed
    BY DEF NobodyStranded
  <2>1. \A r \in InLine : pc[r] \in Holding \/ pc[r] = "waiting"
    BY DEF InLine
  <2>2. CASE qclosed
    BY <2>1, <2>2 DEF Wakes
  <2>3. CASE ~qclosed
    BY <2>1, <2>3, ServedIsInLine DEF Wakes
  <2> QED
    BY <2>2, <2>3
<1>2. FInv => IInv
  BY DEF FInv
<1> QED
  BY <1>1, <1>2, InitFInv, NextFInv, InitWakes, NextWakes, PTL DEF Spec
=============================================================================
