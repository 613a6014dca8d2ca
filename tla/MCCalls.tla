------------------------------- MODULE MCCalls -------------------------------
(***************************************************************************)
(* Calls on small sets.                                                    *)
(***************************************************************************)
EXTENDS Calls, TLC

Symmetric == Permutations(Key) \cup Permutations(Payload)
=============================================================================
