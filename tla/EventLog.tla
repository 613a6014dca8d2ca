------------------------------ MODULE EventLog ------------------------------
(***************************************************************************)
(* What TamarackDB promises the clients of its transactions, with no       *)
(* position, counter, queue, lock or clock: a log, transactions that read  *)
(* it and gather events, and a commit that is one step.  A commit writes   *)
(* only if every read of its transaction would read the same again, and    *)
(* an event never enters the log while it is paused.                       *)
(*                                                                         *)
(* Registry.tla implements it, under the mapping at its end.               *)
(***************************************************************************)
EXTENDS Naturals, Sequences

CONSTANTS Tx, Kind

VARIABLES log,      \* the events, in order
          still,    \* a pause is in place
          open,     \* the transactions that go on
          reads,    \* what each has read: queries, and the positions they matched
          pending   \* the events each is to write

vars == <<log, still, open, reads, pending>>

Matched(q) == {i \in DOMAIN log : log[i] \in q}

Init ==
    /\ log = <<>>
    /\ still = FALSE
    /\ open = {}
    /\ reads = [t \in Tx |-> {}]
    /\ pending = [t \in Tx |-> <<>>]

Begin(t) ==
    /\ ~still
    /\ t \notin open
    /\ open' = open \cup {t}
    /\ UNCHANGED <<log, still, reads, pending>>

Read(t, q) ==
    /\ t \in open
    /\ reads' = [reads EXCEPT ![t] = @ \cup {[query |-> q, saw |-> Matched(q)]}]
    /\ UNCHANGED <<log, still, open, pending>>

Write(t, batch) ==
    /\ t \in open
    /\ pending' = [pending EXCEPT ![t] = @ \o batch]
    /\ UNCHANGED <<log, still, open, reads>>

Forget(gone) ==
    /\ open' = open \ gone
    /\ reads' = [t \in Tx |-> IF t \in gone THEN {} ELSE reads[t]]
    /\ pending' = [t \in Tx |-> IF t \in gone THEN <<>> ELSE pending[t]]

Commit(t) ==
    /\ t \in open
    /\ \A r \in reads[t] : r.saw = Matched(r.query)
    /\ log' = log \o pending[t]
    /\ Forget({t})
    /\ UNCHANGED still

\* Transactions end without a trace: abandoned, refused, expired, or lost with
\* the server.
Drop(gone) ==
    /\ Forget(gone)
    /\ UNCHANGED <<log, still>>

Pause ==
    /\ open = {}
    /\ still' = TRUE
    /\ UNCHANGED <<log, open, reads, pending>>

Resume ==
    /\ still' = FALSE
    /\ UNCHANGED <<log, open, reads, pending>>

Next ==
    \/ \E t \in Tx :
          \/ Begin(t)
          \/ \E q \in SUBSET Kind : Read(t, q)
          \/ \E k \in Kind : Write(t, <<k>>)
          \/ Commit(t)
    \/ \E gone \in SUBSET open : Drop(gone)
    \/ Pause
    \/ Resume

Spec == Init /\ [][Next]_vars
=============================================================================
