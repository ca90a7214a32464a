------------------------------- MODULE MCLaunch -------------------------------
(* Every way to give the budget, and every pair of backend and device, around one *)
(* plain command line.                                                            *)
EXTENDS Launch

Plain == [bind |-> "loopback", python |-> TRUE, memory_flag |-> Unset, memory_env |-> Unset,
          limits |-> [l \in Limits |-> 1],
          python_env |-> [items |-> "fine", memory |-> Unset],
          backend |-> "mlx", device |-> "auto", checkpoint |-> "english",
          worker_memory |-> Unset, no_warmup |-> FALSE]

\* Unset, empty, unreadable, and numbers below, at and above the bounds.
Texts == {Unset, Raw("empty", 0), Raw("garbage", 0), Raw("grouped", 3072)}
         \cup {Number(n) : n \in {-5, 0, 511, 512, 1024, 2048, 4096}}

Budgets ==
    {[Plain EXCEPT !.memory_flag = t] : t \in Texts}
    \cup {[Plain EXCEPT !.memory_env = t, !.no_warmup = b] : t \in Texts, b \in BOOLEAN}
    \cup {[Plain EXCEPT !.python_env.memory = t, !.memory_flag = f] :
             t \in Texts, f \in {Unset, Number(512)}}
    \cup {[Plain EXCEPT !.worker_memory = t, !.python_env.memory = e] :
             t \in Texts, e \in {Unset, Number(1024), Raw("garbage", 0)}}

Choices == {[Plain EXCEPT !.backend = b, !.device = d, !.checkpoint = c] :
               b \in Backends, d \in Devices, c \in Checkpoints}

Refusals ==
    {[Plain EXCEPT !.bind = b] : b \in {"public", "malformed"}}
    \cup {[Plain EXCEPT !.limits[l] = 0] : l \in Limits}
    \cup {[Plain EXCEPT !.python_env.items = i] : i \in {"unsplit", "nameless"}}
    \cup {[Plain EXCEPT !.python = FALSE]}

MCCommands == Budgets \cup Choices \cup Refusals
MCHeld     == {0, 300, 900, 2500}
MCBatches  == {128, 700}
===============================================================================
