------------------------------- MODULE MCFifo -------------------------------
(***************************************************************************)
(* Fifo on a small set of requests.                                        *)
(***************************************************************************)
EXTENDS Fifo
=============================================================================
