------------------------------ MODULE MCBackup ------------------------------
(***************************************************************************)
(* Two runs against an instance whose log is longer than a page, whose     *)
(* writes hold up to two events and so may lie across two pages, and whose *)
(* WAL crosses its threshold more than once.                               *)
(***************************************************************************)
EXTENDS Backup, TLC

\* What the bounds must allow for the interesting cases to happen: a page that
\* is full, and a checkpoint that gives up twice.
ASSUME MaxEvents > PageLimit /\ MaxGrown >= 2 * Threshold
=============================================================================
