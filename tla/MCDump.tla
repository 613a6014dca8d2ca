------------------------------- MODULE MCDump -------------------------------
(***************************************************************************)
(* Dumps of up to three lines, that begin at 1 or later: two batches, the  *)
(* last one full or not.  A tag may come twice, as a string and in an      *)
(* array, and an object may be over the limit on tags.                     *)
(***************************************************************************)
EXTENDS Dump, TLC

Symmetry == Permutations(Name)

\* What the bounds must allow for the interesting cases to happen.
ASSUME MaxLines > Batch /\ MaxMembers > 1 /\ MaxValues > 1
=============================================================================
