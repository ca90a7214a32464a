----------------------------- MODULE MCSupervisor -----------------------------
(* Supervisor on a small instance: model values and symmetry for TLC.      *)
EXTENDS SupervisorInv, TLC

CONSTANTS r1, r2, r3

Symmetric == Permutations(Requests)
===============================================================================
