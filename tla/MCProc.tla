------------------------------- MODULE MCProc -------------------------------
(* Proc for TLC; the configurations give the table sizes and the codes.    *)
EXTENDS Proc
=============================================================================
