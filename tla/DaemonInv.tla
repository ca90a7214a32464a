------------------------------- MODULE DaemonInv -------------------------------
(***************************************************************************)
(* Why the safety properties of Daemon hold: the inductive invariant of    *)
(* the supervisor, and how main, the watcher and a probe of readiness      *)
(* stand to it.                                                            *)
(***************************************************************************)
EXTENDS Daemon, SupervisorInv

\* Which of its futures main awaits, and whether it still holds the startup's receiver.
MainOwns ==
    /\ main = "interrupted" => owner # "starting"
    /\ main = "failed" => owner = "stopped"
    /\ main \in {"attach", "attached", "serving", "stop"} => owner = "attached"
    /\ main \in {"stopping", "draining"} => owner \in Stopping \cup {"stop"}
    /\ main \in {"starting", "interrupted", "failed"} => listener # "consumed"

\* main waits for the HTTP server, and leaves successfully, only after a signal.
SignalRemembered ==
    /\ main \in {"interrupted", "draining"} => signalled
    /\ exit = "success" => signalled

\* The watcher, and the exit that it schedules, come after the report of the loss.
WatchedFatal == watch \in {"told", "kill"} \/ fuse => fatal

\* What a probe that began after a loss has read, and what it may still read.
LossSeen ==
    late /\ probe # "idle" => /\ outcome = "Restart" /\ sup # "publish"
                              /\ probe = "info" => seen \in {"Failed", "ShuttingDown"}

WholeInv == /\ Inv /\ DaemonTypeOK
            /\ MainOwns /\ SignalRemembered /\ WatchedFatal /\ LossSeen
            /\ NoOrphanAtExit
===============================================================================
