-------------------------------- MODULE Fifo --------------------------------
(***************************************************************************)
(* The ticket line of internal/queue, as internal/writer drives it.        *)
(*                                                                         *)
(* Each request runs Writer.RunInTurn once.  Manager.Join holds m.mu from  *)
(* the closed check to the first m.changed.Wait, so it is one step; Wait   *)
(* gives m.mu up and sleeps in that same step, and a broadcast only makes  *)
(* the sleepers runnable: each takes m.mu again and looks at its own       *)
(* ticket in a step of its own, in any order.  Writer.Close is two steps,  *)
(* one per mutex.                                                          *)
(***************************************************************************)
EXTENDS Integers, FiniteSets, Sequences

CONSTANTS Req,        \* the requests, one call of RunInTurn each
          MaxQueued   \* Config.MaxQueued; 0 means uncapped

ASSUME FifoAssumption == MaxQueued \in Nat

VARIABLES next,      \* Manager.next, the ticket the next request gets
          served,    \* Manager.served, the ticket that holds the turn
          qclosed,   \* Manager.closed
          wclosed,   \* Writer.closed
          pc,        \* where each request is in RunInTurn
          ticket,    \* the local variable ticket of Join, for a request that joined
          asleep     \* the requests asleep on Manager.changed

vars == <<next, served, qclosed, wclosed, pc, ticket, asleep>>

(***************************************************************************)
(* idle     RunInTurn is not called yet                                    *)
(* waiting  in the loop of Join, with a ticket                             *)
(* turn     Join returned a Turn                                           *)
(* working  fn runs, then the checkpoint                                   *)
(* worked   fn is over; the deferred turn.Done is still to come            *)
(* skipped  ErrClosed found in turn; the deferred turn.Done is to come     *)
(* done, shut, full, away     over: it worked; it had its turn after the   *)
(*          writer was closed; the line was full; Join returned ErrClosed  *)
(***************************************************************************)
Holding  == {"turn", "working", "worked", "skipped"}
Outcomes == {"done", "shut", "full", "away"}
States   == {"idle", "waiting"} \cup Holding \cup Outcomes

TypeOK ==
    /\ next \in Nat
    /\ served \in Nat
    /\ qclosed \in BOOLEAN
    /\ wclosed \in BOOLEAN
    /\ pc \in [Req -> States]
    /\ ticket \in [Req -> Nat]
    /\ asleep \subseteq Req

InLine == {r \in Req : pc[r] \in {"waiting"} \cup Holding}

\* Mutant of Waiting: the request whose turn it is counts as one that waits.
WaitingOrServed == next - served

\* Manager.waiting.
Waiting == IF next = served THEN 0 ELSE next - served - 1

-----------------------------------------------------------------------------

Init ==
    /\ next = 0
    /\ served = 0
    /\ qclosed = FALSE
    /\ wclosed = FALSE
    /\ pc = [r \in Req |-> "idle"]
    /\ ticket = [r \in Req |-> 0]
    /\ asleep = {}

\* Join on a closed Manager returns ErrClosed, whatever the depth.
JoinClosed(r) ==
    /\ pc[r] = "idle"
    /\ qclosed
    /\ pc' = [pc EXCEPT ![r] = "away"]
    /\ UNCHANGED <<next, served, qclosed, wclosed, ticket, asleep>>

\* Join on a full line returns ErrFull.
JoinFull(r) ==
    /\ pc[r] = "idle"
    /\ ~qclosed
    /\ MaxQueued > 0
    /\ Waiting >= MaxQueued
    /\ pc' = [pc EXCEPT ![r] = "full"]
    /\ UNCHANGED <<next, served, qclosed, wclosed, ticket, asleep>>

\* Mutant of JoinTicket: nobody waits, so the turn is free.
JoinTicketWhenNoneWaits(r) ==
    /\ pc[r] = "idle"
    /\ ~qclosed
    /\ MaxQueued > 0 => Waiting < MaxQueued
    /\ ticket' = [ticket EXCEPT ![r] = next]
    /\ next' = next + 1
    /\ IF Waiting = 0
       THEN pc' = [pc EXCEPT ![r] = "turn"] /\ UNCHANGED asleep
       ELSE pc' = [pc EXCEPT ![r] = "waiting"] /\ asleep' = asleep \cup {r}
    /\ UNCHANGED <<served, qclosed, wclosed>>

\* Mutant of JoinTicket: one more request than MaxQueued may wait.
JoinTicketOneMore(r) ==
    /\ pc[r] = "idle"
    /\ ~qclosed
    /\ MaxQueued > 0 => Waiting <= MaxQueued
    /\ ticket' = [ticket EXCEPT ![r] = next]
    /\ next' = next + 1
    /\ IF next = served
       THEN pc' = [pc EXCEPT ![r] = "turn"] /\ UNCHANGED asleep
       ELSE pc' = [pc EXCEPT ![r] = "waiting"] /\ asleep' = asleep \cup {r}
    /\ UNCHANGED <<served, qclosed, wclosed>>

\* Join takes a ticket.  The ticket served is a turn at once; any other waits.
JoinTicket(r) ==
    /\ pc[r] = "idle"
    /\ ~qclosed
    /\ MaxQueued > 0 => Waiting < MaxQueued
    /\ ticket' = [ticket EXCEPT ![r] = next]
    /\ next' = next + 1
    /\ IF next = served
       THEN pc' = [pc EXCEPT ![r] = "turn"] /\ UNCHANGED asleep
       ELSE pc' = [pc EXCEPT ![r] = "waiting"] /\ asleep' = asleep \cup {r}
    /\ UNCHANGED <<served, qclosed, wclosed>>

\* Mutant of TakeTurn: the first to wake takes a free turn.
TakeFreeTurn(r) ==
    /\ pc[r] = "waiting"
    /\ r \notin asleep
    /\ \A s \in Req : pc[s] \notin Holding
    /\ pc' = [pc EXCEPT ![r] = "turn"]
    /\ UNCHANGED <<next, served, qclosed, wclosed, ticket, asleep>>

\* A woken request whose ticket is served has the turn, closed or not.
TakeTurn(r) ==
    /\ pc[r] = "waiting"
    /\ r \notin asleep
    /\ ticket[r] = served
    /\ pc' = [pc EXCEPT ![r] = "turn"]
    /\ UNCHANGED <<next, served, qclosed, wclosed, ticket, asleep>>

\* Mutant of GiveUp: the line is not closed.
GiveUpAnyway(r) ==
    /\ pc[r] = "waiting"
    /\ r \notin asleep
    /\ ticket[r] # served
    /\ pc' = [pc EXCEPT ![r] = "away"]
    /\ UNCHANGED <<next, served, qclosed, wclosed, ticket, asleep>>

\* A woken request whose ticket is not served leaves once the line is closed...
GiveUp(r) ==
    /\ pc[r] = "waiting"
    /\ r \notin asleep
    /\ ticket[r] # served
    /\ qclosed
    /\ pc' = [pc EXCEPT ![r] = "away"]
    /\ UNCHANGED <<next, served, qclosed, wclosed, ticket, asleep>>

\* ... and sleeps again otherwise.
SleepAgain(r) ==
    /\ pc[r] = "waiting"
    /\ r \notin asleep
    /\ ticket[r] # served
    /\ ~qclosed
    /\ asleep' = asleep \cup {r}
    /\ UNCHANGED <<next, served, qclosed, wclosed, pc, ticket>>

\* Mutant of StartWork: Writer.closed is not read.
StartWorkUnchecked(r) ==
    /\ pc[r] = "turn"
    /\ pc' = [pc EXCEPT ![r] = "working"]
    /\ UNCHANGED <<next, served, qclosed, wclosed, ticket, asleep>>

\* In turn, RunInTurn reads Writer.closed, under Writer.mu, before fn.
StartWork(r) ==
    /\ pc[r] = "turn"
    /\ pc' = [pc EXCEPT ![r] = IF wclosed THEN "skipped" ELSE "working"]
    /\ UNCHANGED <<next, served, qclosed, wclosed, ticket, asleep>>

\* fn and the checkpoint are over: fn returned, with or without an error, or
\* panicked.  turn.Done is deferred: it comes in every case.
FinishWork(r) ==
    /\ pc[r] = "working"
    /\ pc' = [pc EXCEPT ![r] = "worked"]
    /\ UNCHANGED <<next, served, qclosed, wclosed, ticket, asleep>>

\* Mutant of Done: Signal, which wakes one sleeper, for Broadcast.
DoneSignal(r) ==
    /\ pc[r] \in {"worked", "skipped"}
    /\ served' = served + 1
    /\ IF asleep = {} THEN UNCHANGED asleep ELSE \E s \in asleep : asleep' = asleep \ {s}
    /\ pc' = [pc EXCEPT ![r] = IF pc[r] = "worked" THEN "done" ELSE "shut"]
    /\ UNCHANGED <<next, qclosed, wclosed, ticket>>

\* Mutant of Done: the turn goes back.
DoneBack(r) ==
    /\ pc[r] \in {"worked", "skipped"}
    /\ served' = served - 1
    /\ asleep' = {}
    /\ pc' = [pc EXCEPT ![r] = IF pc[r] = "worked" THEN "done" ELSE "shut"]
    /\ UNCHANGED <<next, qclosed, wclosed, ticket>>

\* turn.Done: the turn goes to the next ticket, and every sleeper wakes.
Done(r) ==
    /\ pc[r] \in {"worked", "skipped"}
    /\ served' = served + 1
    /\ asleep' = {}
    /\ pc' = [pc EXCEPT ![r] = IF pc[r] = "worked" THEN "done" ELSE "shut"]
    /\ UNCHANGED <<next, qclosed, wclosed, ticket>>

\* Writer.Close, first half: no work begins from here on.
CloseWriter ==
    /\ ~wclosed
    /\ wclosed' = TRUE
    /\ UNCHANGED <<next, served, qclosed, pc, ticket, asleep>>

\* Writer.Close, second half: Manager.Close.  The server calls Close twice;
\* the second time changes nothing: once closed, nobody sleeps.
CloseQueue ==
    /\ wclosed
    /\ ~qclosed
    /\ qclosed' = TRUE
    /\ asleep' = {}
    /\ UNCHANGED <<next, served, wclosed, pc, ticket>>

Move(r) == TakeTurn(r) \/ GiveUp(r) \/ SleepAgain(r) \/ StartWork(r) \/ FinishWork(r) \/ Done(r)

Next ==
    \/ CloseWriter
    \/ CloseQueue
    \/ \E r \in Req : JoinClosed(r) \/ JoinFull(r) \/ JoinTicket(r) \/ Move(r)

\* A goroutine that can go on does, a write ends, and a Close that began is
\* carried to its end.  Nothing makes a client call, and nothing begins a Close.
Fairness == WF_vars(CloseQueue) /\ \A r \in Req : WF_vars(Move(r))

Spec == Init /\ [][Next]_vars /\ Fairness

-----------------------------------------------------------------------------

(***************************************************************************)
(* Manager and turn.go: the turn is exclusive.  At most one request is     *)
(* between a successful Join and its turn.Done, so fn has the write        *)
(* connection to itself.                                                   *)
(***************************************************************************)
OneTurn ==
    \A r, s \in Req : pc[r] \in Holding /\ pc[s] \in Holding => r = s

(***************************************************************************)
(* Manager: the turn goes to tickets in order.  While a request holds the  *)
(* turn, whoever joined before it is over: nobody is passed by, and        *)
(* nobody's turn comes back.                                               *)
(***************************************************************************)
InTicketOrder ==
    \A r, s \in Req :
        /\ pc[r] \in Holding
        /\ pc[s] \in {"waiting"} \cup Holding
        /\ r # s
        => ticket[r] < ticket[s]

(***************************************************************************)
(* Join: the cap is exact.  A request that comes to an open line is        *)
(* refused if MaxQueued others wait behind the one whose turn it is, and   *)
(* only then: neither one sooner nor one later, whatever the turns taken   *)
(* in between did to the two counters that stand for the line.             *)
(***************************************************************************)
CapIsExact ==
    [][\A r \in Req :
         pc[r] = "idle" /\ pc'[r] # "idle" /\ ~qclosed
         => (pc'[r] = "full" <=> MaxQueued > 0 /\ Cardinality(InLine) > MaxQueued)]_vars

(***************************************************************************)
(* Writer.Close: "turns away every request waiting and every later one".   *)
(* Once the queue is closed, no request starts its work: the writer was    *)
(* closed first, so even the one that is handed the turn finds it closed.  *)
(***************************************************************************)
NoWorkAfterClose ==
    [][\A r \in Req : pc'[r] = "working" /\ pc[r] # "working" => ~qclosed]_vars

(***************************************************************************)
(* Join and Done: no wake-up is lost.  A request that joined is over in    *)
(* the end, by its turn or by a Close, whatever the others do.             *)
(***************************************************************************)
EveryoneLeaves == \A r \in Req : r \in InLine ~> pc[r] \in Outcomes

-----------------------------------------------------------------------------
(* The refinement mapping to Line. *)

\* How many of S are in line up to r, r included, and S in the order of the
\* tickets.
Place(r, S, t) == Cardinality({s \in S : t[s] <= t[r]})

InOrder(S, t) == [i \in 1..Cardinality(S) |-> CHOOSE r \in S : Place(r, S, t) = i]

lineBar    == InOrder(InLine, ticket)
workingBar == \E r \in Req : pc[r] \in {"working", "worked"}

L == INSTANCE Line WITH
        Proc    <- Req,
        line    <- lineBar,
        working <- workingBar,
        closed  <- wclosed

(***************************************************************************)
(* The ticket line is a line: requests work one at a time in the order     *)
(* they joined, are turned away only once the writer is closed and before  *)
(* they work, and all leave.  A request that is refused never joined, and  *)
(* is a stutter of Line: who is refused is CapIsExact's.                   *)
(***************************************************************************)
IsALine == L!Spec
=============================================================================
