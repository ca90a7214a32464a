------------------------------- MODULE MCDaemon -------------------------------
(* One caller and the whole daemon around it.                              *)
EXTENDS DaemonInv

CONSTANT r1
===============================================================================
