-------------------------------- MODULE Copy --------------------------------
(***************************************************************************)
(* What a backup promises whoever restores it: the file is the source's    *)
(* log up to some event, whatever was killed, cut or started twice on the  *)
(* way.  Backup.tla implements it.                                         *)
(***************************************************************************)
EXTENDS Naturals, Sequences

VARIABLES log,   \* the source's events
          file   \* the events of the backup file

vars == <<log, file>>

Init == log = <<>> /\ file = <<>>

Grow ==
    /\ Len(log') > Len(log)
    /\ SubSeq(log', 1, Len(log)) = log
    /\ UNCHANGED file

CatchUp ==
    /\ \E n \in Len(file)+1 .. Len(log) : file' = SubSeq(log, 1, n)
    /\ UNCHANGED log

Next == Grow \/ CatchUp

Spec == Init /\ [][Next]_vars
=============================================================================
