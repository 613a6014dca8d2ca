-------------------------------- MODULE Line --------------------------------
(***************************************************************************)
(* What the write queue of TamarackDB promises, without tickets, locks or  *)
(* condition variables: one line of requests.  The request at the head has *)
(* the turn; it works, leaves, and the next one is at the head.  Closing   *)
(* the writer lets the work under way finish and turns every other request *)
(* away.                                                                   *)
(*                                                                         *)
(* Fifo.tla is the ticket line of internal/queue and internal/writer, and  *)
(* implements this module.  Registry.tla uses these actions as its queue.  *)
(***************************************************************************)
EXTENDS Naturals, Sequences

CONSTANTS Proc,       \* the requests that may wait for a turn
          MaxQueued   \* how many may wait behind the turn; 0 means no limit

VARIABLES line,      \* the requests in line, in the order they joined
          working,   \* TRUE while the request at the head works
          closed     \* TRUE once the writer is closed

vars == <<line, working, closed>>

InLine == {line[i] : i \in DOMAIN line}

HasTurn(p) == line # <<>> /\ Head(line) = p

\* queue.Manager.waiting() >= maxQueued: the head does not count as waiting.
Full == MaxQueued > 0 /\ Len(line) > MaxQueued

-----------------------------------------------------------------------------

Init == line = <<>> /\ working = FALSE /\ closed = FALSE

\* Mutant of Enter: the last that came is the next.
EnterNext(p) ==
    /\ p \notin InLine
    /\ ~Full
    /\ line' = IF working THEN <<Head(line), p>> \o Tail(line) ELSE <<p>> \o line
    /\ UNCHANGED <<working, closed>>

\* p takes its place at the end of the line.
Enter(p) ==
    /\ p \notin InLine
    /\ ~Full
    /\ line' = Append(line, p)
    /\ UNCHANGED <<working, closed>>

\* p, at the head, starts its work.
Begin(p) ==
    /\ HasTurn(p)
    /\ ~working
    /\ ~closed
    /\ working' = TRUE
    /\ UNCHANGED <<line, closed>>

\* p ends its work, and with it its turn.
Leave(p) ==
    /\ HasTurn(p)
    /\ working
    /\ line' = Tail(line)
    /\ working' = FALSE
    /\ UNCHANGED closed

\* Closed, the line lets go of a request that does not work yet.
TurnAway(p) ==
    /\ closed
    /\ working => ~HasTurn(p)
    /\ \E i \in DOMAIN line :
          /\ line[i] = p
          /\ line' = SubSeq(line, 1, i - 1) \o SubSeq(line, i + 1, Len(line))
    /\ UNCHANGED <<working, closed>>

Close == ~closed /\ closed' = TRUE /\ UNCHANGED <<line, working>>

Next ==
    \/ Close
    \/ \E p \in Proc : Enter(p) \/ Begin(p) \/ Leave(p) \/ TurnAway(p)

\* Nobody has to join, and nobody has to close; whoever is in line moves on.
Fairness ==
    \A p \in Proc : WF_vars(Begin(p)) /\ WF_vars(Leave(p)) /\ WF_vars(TurnAway(p))

Spec == Init /\ [][Next]_vars /\ Fairness
=============================================================================
