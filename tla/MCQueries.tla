----------------------------- MODULE MCQueries -----------------------------
(***************************************************************************)
(* Queries on small sets.  The values of tags and the types of events are  *)
(* interchangeable.                                                        *)
(***************************************************************************)
EXTENDS Queries, TLC

Symmetric == Permutations(Type) \cup Permutations(Value)
=============================================================================
