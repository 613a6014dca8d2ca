----------------------------- MODULE MCRegistry -----------------------------
(***************************************************************************)
(* Registry on small sets, and a client that wants the pause.              *)
(***************************************************************************)
EXTENDS Registry, TLC

\* A request of the pause.
AskForPause(a) == Request(a, [request |-> "pause", writes |-> NoWrites])

(***************************************************************************)
(* A client that wants the pause: it asks again and again, and time        *)
(* passes.  The store does not fail to record the pause for ever.          *)
(***************************************************************************)
Driven ==
    /\ \A t \in Tx : WF_vars(Tick(t))
    /\ \A a \in Admin : SF_vars(Pause(a)) /\ SF_vars(AskForPause(a))

DrivenSpec == Spec /\ Driven

(***************************************************************************)
(* From some time on no client calls on its transaction, but to commit it  *)
(* or to end it.  Without this a pause may never come: a GetProjection     *)
(* counts against no limit, a projection that is written again counts      *)
(* once, and the release of each call starts the idle time over.           *)
(***************************************************************************)
ClientsRest == <>[][\A t \in Tx : ~(pc[t] = "free" /\ pc'[t] = "called")]_pc

(***************************************************************************)
(* tx.Pause: "the caller calls it again until the pause is in place".      *)
(* Once the clients stop reading and writing, it comes to be in place,     *)
(* unless it is resumed, or the server stops: Begin refuses, so the open   *)
(* transactions only go down, and each ends with its commit or expires.    *)
(***************************************************************************)
PauseComes ==
    ClientsRest => (pause = "PauseRequested" ~> pause # "PauseRequested" \/ closed)

(***************************************************************************)
(* http-api.md, "Delete events": "Sequence Positions go on: the next event *)
(* doesn't get sequence 1".  The last position never goes back.            *)
(***************************************************************************)
PositionsGoOn == [][LastCommitted' >= LastCommitted]_vars

\* Transactions are interchangeable, and so are the kinds of events.
Symmetric == Permutations(Tx) \cup Permutations(Kind)
=============================================================================
