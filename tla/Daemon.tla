-------------------------------- MODULE Daemon --------------------------------
(***************************************************************************)
(* The whole daemon: main (src/src/main.rs), its fail-fast watcher and the *)
(* delayed exit (src/src/lib.rs), the HTTP handlers that ask for readiness *)
(* (src/src/api.rs), composed with the worker handle and its supervisor.   *)
(*                                                                         *)
(* Supervisor's owner is the future that main awaits: the startup future,  *)
(* then worker.shutdown().  main itself stands at the points below.        *)
(***************************************************************************)
EXTENDS Supervisor

CONSTANT FailFast   \* config.fail_fast

ASSUME FailFastAssumption == FailFast \in BOOLEAN

VARIABLES
    main,      \* where main stands
    signalled, \* SIGINT or SIGTERM was taken from its select
    stalled,   \* a client holds the HTTP server open with half a body
    attached,  \* AppSlot.worker
    readiness, \* AppSlot.readiness
    watch,     \* the watcher task
    fuse,      \* the fail-fast exit is scheduled
    probe,     \* a /readyz handler, between its two locks
    seen,      \* the state it read
    late,      \* it began after a loss of the worker was published
    answer,    \* what the last probe answered
    exit       \* of the process

outer == <<main, signalled, stalled, attached, readiness, watch, fuse, probe, seen, late,
           answer, exit>>
http  == <<stalled, probe, seen, late, answer>>
app   == <<attached, readiness>>

daemonVars == <<vars, outer>>

DaemonTypeOK ==
    /\ TypeOK
    /\ main \in {"starting", "interrupted", "failed", "attach", "attached", "serving",
                 "stop", "stopping", "draining"}
    /\ {signalled, stalled, attached, fuse, late} \subseteq BOOLEAN
    /\ readiness \in {"Loading", "Ready", "Failed", "Stopping"}
    /\ watch \in {"none", "waiting", "told", "kill", "done", "aborted"}
    /\ probe \in {"idle", "state", "info"}
    /\ seen \in {"Starting", "Ready", "Failed", "ShuttingDown"}
    /\ answer \in {"none", "ready", "loading", "unavailable"}
    /\ exit \in {"none", "success", "failed"}

DaemonInit ==
    /\ Init
    /\ main = "starting" /\ signalled = FALSE /\ stalled = FALSE
    /\ attached = FALSE /\ readiness = "Loading"
    /\ watch = "none" /\ fuse = FALSE
    /\ probe = "idle" /\ seen = "Starting" /\ late = FALSE /\ answer = "none"
    /\ exit = "none"

Running == exit = "none"

-------------------------------------------------------------------------------
(* The parts that Supervisor describes, while the process lives            *)

Supervise == Running /\ SupervisorStep /\ UNCHANGED outer
Child     == Running /\ ChildActs /\ UNCHANGED outer

\* The router answers unavailable itself until a worker is attached.
Predict(r) == /\ Running /\ (phase[r] = "new" => attached)
              /\ Caller(r) /\ UNCHANGED outer
TooEarly(r) == /\ Running /\ phase[r] = "new" /\ ~attached
               /\ Return(r, "unavailable")
               /\ UNCHANGED <<handle, start, sup, session, process, owner, outer>>

-------------------------------------------------------------------------------
(* main                                                                    *)

\* The future that main awaits makes a step.
Startup == Running /\ (StartFails \/ StartTimeout) /\ UNCHANGED outer
Shutdown == /\ Running
            /\ StopAdmitting \/ PokeSupervisor \/ Stopped \/ ForceStop \/ KillWaitOver
            /\ UNCHANGED outer

\* Mutant of LeaveMain: the child is not killed when it is dropped.
LeaveMainOnly(code) ==
    /\ Running /\ exit' = code
    /\ UNCHANGED <<vars, main, signalled, app, watch, fuse, http>>

\* main returns: the runtime is dropped, its tasks with it, and a child that is
\* still owned by one is killed (kill_on_drop).
LeaveMain(code) ==
    /\ Running /\ exit' = code
    /\ sigkilled' = (sigkilled \/ (sup # "end" /\ child \notin {"none", "reaped"}))
    /\ UNCHANGED <<handle, start, sup, session, stdin, stdout, child, owner, calls>>
    /\ UNCHANGED <<main, signalled, app, watch, fuse, http>>

StartOk ==
    /\ Running /\ Started
    /\ main' = "attach"
    /\ UNCHANGED <<signalled, app, watch, fuse, http, exit>>

\* A signal while the model loads, or while the startup future is stopping a worker
\* that failed to: it is dropped, and shutdown() runs from its beginning.
Interrupt ==
    /\ Running /\ main = "starting" /\ owner # "stopped"
    /\ main' = "interrupted" /\ signalled' = TRUE
    /\ listener' = "dropped" /\ owner' = "stop"
    /\ UNCHANGED <<handle, slot, sup, session, process, calls>>
    /\ UNCHANGED <<app, watch, fuse, http, exit>>

Interrupted == main = "interrupted" /\ owner = "stopped" /\ LeaveMain("success")

\* The startup future has returned an error, after its own shutdown().
StartError ==
    /\ Running /\ main = "starting" /\ owner = "stopped"
    /\ readiness' = "Failed" /\ main' = "failed"
    /\ UNCHANGED <<vars, signalled, attached, watch, fuse, http, exit>>

FailClosed == main = "failed" /\ LeaveMain("failed")

\* attach() fills the worker's slot, then publishes readiness.
Attach ==
    /\ Running /\ main = "attach"
    /\ attached' = TRUE /\ main' = "attached"
    /\ UNCHANGED <<vars, signalled, readiness, watch, fuse, http, exit>>

Serving ==
    /\ Running /\ main = "attached"
    /\ readiness' = "Ready" /\ watch' = "waiting" /\ main' = "serving"
    /\ UNCHANGED <<vars, signalled, attached, fuse, http, exit>>

\* A signal, or the end of the HTTP server, which nobody asked for.  The watcher is
\* aborted: at once if it waits for a fault, else at its next await.
StopServing ==
    /\ Running /\ main = "serving"
    /\ signalled' \in BOOLEAN
    /\ watch' = IF watch = "waiting" THEN "aborted" ELSE watch
    /\ main' = "stop"
    /\ UNCHANGED <<vars, app, fuse, http, exit>>

StopWorker ==
    /\ Running /\ main = "stop"
    /\ readiness' = "Stopping" /\ main' = "stopping"
    /\ Signal
    /\ UNCHANGED <<signalled, attached, watch, fuse, http, exit>>

\* Mutant of ServerLost: however the server ended, main returns success.
ServerLostQuietly == main = "stopping" /\ owner = "stopped" /\ ~signalled /\ LeaveMain("success")

\* Only after a signal does the server end by itself, and only then is it waited for.
WorkerStopped ==
    /\ Running /\ main = "stopping" /\ owner = "stopped" /\ signalled
    /\ main' = "draining"
    /\ UNCHANGED <<vars, signalled, app, watch, fuse, http, exit>>

ServerLost == main = "stopping" /\ owner = "stopped" /\ ~signalled /\ LeaveMain("failed")

\* No handler is running and no client is in the middle of a request.
Quiet == /\ ~stalled /\ probe = "idle"
         /\ \A r \in Requests : phase[r] \notin {"admitted", "sending", "waiting"}

\* Mutant of DrainTimeout: the server is waited for without a deadline.
DrainWithout == main = "draining" /\ Quiet /\ LeaveMain("success")

Drained      == main = "draining" /\ Quiet /\ LeaveMain("success")
DrainTimeout == main = "draining" /\ LeaveMain("success")

MainStep == \/ StartOk \/ StartError \/ FailClosed \/ Interrupted
            \/ Attach \/ Serving \/ StopWorker \/ WorkerStopped \/ ServerLost
            \/ Drained \/ DrainTimeout

-------------------------------------------------------------------------------
(* The watcher                                                             *)

WatchFatal ==
    /\ Running /\ watch = "waiting" /\ fatal
    /\ watch' = "told"
    /\ UNCHANGED <<vars, main, signalled, app, fuse, http, exit>>

\* Mutant of WatchPublish: the policy is inverted.
WatchPublishInverted ==
    /\ Running /\ watch = "told"
    /\ readiness' = "Failed"
    /\ watch' = IF FailFast THEN "done" ELSE "kill"
    /\ UNCHANGED <<vars, main, signalled, attached, fuse, http, exit>>

WatchPublish ==
    /\ Running /\ watch = "told"
    /\ readiness' = "Failed"
    /\ watch' = IF FailFast THEN "kill" ELSE "done"
    /\ UNCHANGED <<vars, main, signalled, attached, fuse, http, exit>>

\* kill_now() returns at once: no pid is recorded any more (FatalIsFinal).
WatchSchedule ==
    /\ Running /\ watch = "kill" /\ ~pid
    /\ watch' = "done" /\ fuse' = TRUE
    /\ UNCHANGED <<vars, main, signalled, app, http, exit>>

\* The abort reaches the watcher at the lock of kill_now().
WatchAborted ==
    /\ Running /\ watch = "kill" /\ main \in {"stop", "stopping", "draining"}
    /\ watch' = "aborted"
    /\ UNCHANGED <<vars, main, signalled, app, fuse, http, exit>>

\* process::exit: nothing is dropped, nothing is killed.
FailFastExit ==
    /\ Running /\ fuse
    /\ exit' = "failed"
    /\ UNCHANGED <<vars, main, signalled, app, watch, fuse, http>>

-------------------------------------------------------------------------------
(* HTTP                                                                    *)

\* A client sends half a body and no more.
Stall == /\ Running /\ ~stalled
         /\ stalled' = TRUE
         /\ UNCHANGED <<vars, main, signalled, app, watch, fuse, probe, seen, late, answer,
                        exit>>

\* readyz reads the slot, then the state, then the metadata, each under its own lock.
ReadSlot ==
    /\ Running /\ probe = "idle"
    /\ IF attached THEN probe' = "state" /\ UNCHANGED answer
                   ELSE answer' = "loading" /\ UNCHANGED probe
    /\ late' = (outcome = "Restart" /\ sup # "publish")
    /\ UNCHANGED <<vars, main, signalled, stalled, app, watch, fuse, seen, exit>>

\* Mutant of ReadState: the readiness that main published stands for the state.
ReadStatePublished ==
    /\ Running /\ probe = "state"
    /\ seen' = (IF readiness = "Ready" THEN "Ready" ELSE state) /\ probe' = "info"
    /\ UNCHANGED <<vars, main, signalled, stalled, app, watch, fuse, late, answer, exit>>

ReadState ==
    /\ Running /\ probe = "state"
    /\ seen' = state /\ probe' = "info"
    /\ UNCHANGED <<vars, main, signalled, stalled, app, watch, fuse, late, answer, exit>>

\* Mutant of ReadInfo: a state that is neither ready nor starting is passed on.
ReadInfoRaw ==
    /\ Running /\ probe = "info"
    /\ answer' = IF seen = "Ready" /\ info THEN "ready" ELSE seen
    /\ probe' = "idle"
    /\ UNCHANGED <<vars, main, signalled, stalled, app, watch, fuse, seen, late, exit>>

ReadInfo ==
    /\ Running /\ probe = "info"
    /\ answer' = CASE seen = "Ready" /\ info  -> "ready"
                   [] seen = "Ready" /\ ~info -> "loading"
                   [] seen = "Starting"       -> "loading"
                   [] OTHER                   -> "unavailable"
    /\ probe' = "idle"
    /\ UNCHANGED <<vars, main, signalled, stalled, app, watch, fuse, seen, late, exit>>

Http == Stall \/ ReadSlot \/ ReadState \/ ReadInfo

-------------------------------------------------------------------------------
Exited == exit # "none" /\ UNCHANGED daemonVars

DaemonNext ==
    \/ Supervise \/ Child \/ Startup \/ Shutdown \/ Interrupt \/ StopServing \/ MainStep
    \/ WatchFatal \/ WatchPublish \/ WatchSchedule \/ WatchAborted \/ FailFastExit
    \/ Http \/ Exited
    \/ \E r \in Requests : Predict(r) \/ TooEarly(r)

DaemonSpec == DaemonInit /\ [][DaemonNext]_daemonVars

\* As in Supervisor; main, the watcher and the delayed exit are polled too, and the
\* timers of the startup future, of shutdown() and of the drain fire.
FairDaemonSpec ==
    /\ DaemonSpec
    /\ WF_daemonVars(Supervise)
    /\ SF_daemonVars(Running /\ TakeJob /\ UNCHANGED outer)
    /\ SF_daemonVars(Running /\ SeeChildExit /\ UNCHANGED outer)
    /\ SF_daemonVars(Running /\ IdleFrame /\ UNCHANGED outer)
    /\ WF_daemonVars(Running /\ Kill /\ UNCHANGED outer)
    /\ WF_daemonVars(Startup) /\ WF_daemonVars(Shutdown) /\ WF_daemonVars(MainStep)
    /\ WF_daemonVars(WatchFatal) /\ WF_daemonVars(WatchPublish)
    /\ WF_daemonVars(WatchSchedule) /\ WF_daemonVars(FailFastExit)
    /\ WF_daemonVars(Child /\ (sigkilled \/ child = "leaving") /\ child' = "exited")

-------------------------------------------------------------------------------
\* "so no orphan worker is ever left behind" (worker.rs:397), for the process: on
\* every way out, the fail-fast exit without destructors included, the child is gone
\* or was sent SIGKILL.
NoOrphanAtExit == exit # "none" => child \in {"none", "exited", "reaped"} \/ sigkilled

\* launchd restarts the daemon only after an unsuccessful exit (README.md:443): it
\* leaves successfully only when it was told to stop.
SuccessOnlyIfAsked == exit = "success" => signalled

\* A probe that begins after a loss was published does not say ready.
ReadyzKnowsLoss ==
    [][probe = "info" /\ probe' = "idle" /\ late => answer' # "ready"]_daemonVars

\* "readiness is tracked here and reports accurately while the worker is still
\* loading or has failed" (api.rs:24): a probe that found a worker attached does not
\* say that the model is loading.
LoadingOnlyBeforeReady ==
    [][probe = "info" /\ probe' = "idle" => answer' # "loading"]_daemonVars

\* With fail-fast, a daemon that lost its worker exits.
LossEndsProcess == FailFast /\ fatal ~> exit # "none"

\* A signal ends the process, whatever the worker and the clients do.
SignalEndsProcess == signalled ~> exit # "none"
===============================================================================
