------------------------------- MODULE MCService ------------------------------
(* Two worktrees under one label.                                          *)
EXTENDS Service

CONSTANTS t1, t2
===============================================================================
