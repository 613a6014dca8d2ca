----------------------------- MODULE MCDatabase -----------------------------
(***************************************************************************)
(* Two processes of any program and of three versions, so that a binary    *)
(* may be too new for a file to migrate; a dump may take two batches.      *)
(***************************************************************************)
EXTENDS Database, TLC

Symmetry == Permutations(Proc)

\* The bounds leave room for a dump of two batches, and for two writes: in a new
\* file, or one after a dump of one event.
ASSUME MaxDump > Batch /\ MaxLast >= MaxDump
=============================================================================
