----------------------------- MODULE DaemonProofs -----------------------------
(***************************************************************************)
(* Proofs about Daemon, for any number of callers, any faults of the       *)
(* worker and either policy: what is proved of the worker handle holds in  *)
(* the process around it, which drops futures and exits as it does.        *)
(***************************************************************************)
EXTENDS DaemonInv, SupervisorInSync, SupervisorRefinement

-------------------------------------------------------------------------------
(* The handle inside the daemon                                            *)

\* A step of the daemon is one of the handle's, or one of the three that only the process
\* can make: it drops the startup future, it drops everything, the router answers itself.
LEMMA DaemonSteps ==
    ASSUME [DaemonNext]_daemonVars
    PROVE  \/ [Next]_vars
           \/ Interrupt
           \/ \E code \in {"success", "failed"} : LeaveMain(code)
           \/ \E r \in Requests : TooEarly(r)
<1>1. CASE UNCHANGED daemonVars
  BY <1>1 DEF daemonVars
<1>2. CASE Supervise \/ Child \/ Startup \/ Shutdown
  BY <1>2 DEF Supervise, Child, Startup, Shutdown, Next, OwnerStep
<1>3. CASE MainStep
  BY <1>3 DEF MainStep, StartOk, StartError, FailClosed, Interrupted, Attach, Serving, StopWorker,
              WorkerStopped, ServerLost, Drained, DrainTimeout, Next, OwnerStep
<1>4. CASE StopServing \/ WatchFatal \/ WatchPublish \/ WatchSchedule \/ WatchAborted
           \/ FailFastExit \/ Http \/ Exited
  BY <1>4 DEF StopServing, WatchFatal, WatchPublish, WatchSchedule, WatchAborted, FailFastExit,
              Http, Stall, ReadSlot, ReadState, ReadInfo, Exited, daemonVars
<1>5. CASE \E r \in Requests : Predict(r)
  BY <1>5 DEF Predict, Next
<1> QED
  BY <1>1, <1>2, <1>3, <1>4, <1>5 DEF DaemonNext

\* Dropping the startup future, at whatever point of its own shutdown(), keeps the invariant:
\* it is a receiver that goes, and nobody has been admitted yet.
LEMMA InterruptKeeps == ASSUME Inv, MainOwns, Interrupt PROVE Inv'
<1> USE DEF handle, session, process, calls, Interrupt
<1>1. TypeOK' /\ JobInHand'
  BY DEF Inv, TypeOK, JobInHand
<1>2. FramesMatchIds' /\ OwnAnswer'
  BY DEF Inv, FramesMatchIds, OwnAnswer, RequestMatches, AnswerMatches
<1>3. WaitingHeld' /\ HeldOnce' /\ QueueEmptied'
  BY DEF Inv, WaitingHeld, HeldOnce, QueueEmptied, Inside, Early
<1>4. ChildAccounted' /\ OutcomeDecided' /\ FatalLast'
  BY DEF Inv, ChildAccounted, OutcomeDecided, FatalLast
<1>5. OnlyPokeBeforeReady'
  BY DEF Inv, MainOwns, OnlyPokeBeforeReady, Stopping
<1> QED
  BY <1>1, <1>2, <1>3, <1>4, <1>5 DEF Inv

\* So does the end of main: that SIGKILL was sent is never held against the child.
LEMMA LeaveKeeps == ASSUME Inv, NEW code, LeaveMain(code) PROVE Inv'
<1> USE DEF handle, start, session, calls, LeaveMain
<1>1. TypeOK' /\ JobInHand'
  BY DEF Inv, TypeOK, JobInHand
<1>2. FramesMatchIds' /\ OwnAnswer'
  BY DEF Inv, FramesMatchIds, OwnAnswer, RequestMatches, AnswerMatches
<1>3. WaitingHeld' /\ HeldOnce' /\ QueueEmptied'
  BY DEF Inv, WaitingHeld, HeldOnce, QueueEmptied, Inside, Early
<1>4. ChildAccounted' /\ OutcomeDecided' /\ FatalLast'
  BY DEF Inv, TypeOK, ChildAccounted, OutcomeDecided, FatalLast
<1>5. OnlyPokeBeforeReady'
  BY DEF Inv, OnlyPokeBeforeReady
<1> QED
  BY <1>1, <1>2, <1>3, <1>4, <1>5 DEF Inv

\* And a refusal of the router's, which no job of the handle's stands for.
LEMMA TooEarlyKeeps == ASSUME Inv, NEW r \in Requests, TooEarly(r) PROVE Inv'
<1> USE DEF handle, start, session, process, TooEarly, Return
<1>1. /\ phase' = [phase EXCEPT ![r] = "returned"] /\ reply' = [reply EXCEPT ![r] = "unavailable"]
      /\ "unavailable" \in Errors
  BY VerdictsApart
<1>2. TypeOK' /\ JobInHand'
  BY <1>1 DEF Inv, TypeOK, JobInHand
<1>3. FramesMatchIds' /\ OwnAnswer'
  BY <1>1, VerdictsApart DEF Inv, TypeOK, FramesMatchIds, OwnAnswer, RequestMatches, AnswerMatches
<1>4. WaitingHeld' /\ HeldOnce' /\ QueueEmptied'
  BY <1>1 DEF Inv, TypeOK, WaitingHeld, HeldOnce, QueueEmptied, Inside, Early
<1>5. ChildAccounted' /\ OutcomeDecided' /\ FatalLast'
  BY DEF Inv, ChildAccounted, OutcomeDecided, FatalLast
<1>6. OnlyPokeBeforeReady'
  BY <1>1 DEF Inv, TypeOK, OnlyPokeBeforeReady
<1> QED
  BY <1>2, <1>3, <1>4, <1>5, <1>6 DEF Inv

LEMMA HandleKeeps == Inv /\ MainOwns /\ [DaemonNext]_daemonVars => Inv'
  BY DaemonSteps, InvNext, InterruptKeeps, LeaveKeeps, TooEarlyKeeps

-------------------------------------------------------------------------------
(* What the rest of the daemon relies on                                   *)

\* The owner moves by its own steps only, and only it takes up or drops the receiver.
LEMMA OwnerMoves ==
    ASSUME SupervisorStep \/ ChildActs \/ \E r \in Requests : Caller(r)
    PROVE  UNCHANGED <<owner, listener>>
<1> USE DEF handle, start, session, process, calls
<1>1. CASE SupervisorStep
  BY <1>1 DEF SupervisorStep, Begin, SpawnOk, SpawnFails, RecordPid, LoopTop, StartupDeadline,
              TakeJob, SeeChildExit, IdleFrame, IdleEof, IdlePoll, Announce, Inform, CheckJob,
              WriteOk, WriteFails, WaitFrame, WaitEof, WaitPoll, InferenceDeadline, Kill, Publish,
              Closing, Reap, GraceOver, GiveUp, MarkState, Clear, Report, Drain, Drop
<1>2. CASE ChildActs
  BY <1>2 DEF ChildActs, WorkerReady, WorkerCannotLoad, Serve, ServeWrong, Stray, Exit, ChildStep
<1>3. CASE \E r \in Requests : Caller(r)
  BY <1>3 DEF Caller, Admit, CheckState, Send, Receive, Cancel
<1> QED
  BY <1>1, <1>2, <1>3

\* A reported loss stays reported, and a published one published.
LEMMA LossStays ==
    ASSUME Inv, [Next]_vars
    PROVE  /\ fatal => fatal'
           /\ outcome = "Restart" /\ sup # "publish" => outcome' = "Restart" /\ sup' # "publish"
<1> USE DEF handle, start, session, process, calls
<1>1. CASE SupervisorStep
  BY <1>1 DEF SupervisorStep, Begin, SpawnOk, SpawnFails, RecordPid, LoopTop, StartupDeadline,
              TakeJob, SeeChildExit, IdleFrame, IdleEof, IdlePoll, Announce, Inform, CheckJob,
              WriteOk, WriteFails, WaitFrame, WaitEof, WaitPoll, InferenceDeadline, Kill, Publish,
              Closing, Reap, GraceOver, GiveUp, MarkState, Clear, Report, Drain, Drop,
              Inv, OutcomeDecided, BeforeEnd, SessionPoints
<1>2. CASE OwnerStep \/ Signal \/ Finished \/ UNCHANGED vars
  BY <1>2 DEF OwnerStep, Started, StartFails, StartTimeout, StopAdmitting, PokeSupervisor, Stopped,
              ForceStop, KillWaitOver, Signal, Finished, vars
<1>3. CASE ChildActs
  BY <1>3 DEF ChildActs, WorkerReady, WorkerCannotLoad, Serve, ServeWrong, Stray, Exit, ChildStep
<1>4. CASE \E r \in Requests : Caller(r)
  BY <1>4 DEF Caller, Admit, CheckState, Send, Receive, Cancel
<1> QED
  BY <1>1, <1>2, <1>3, <1>4 DEF Next

LEMMA DaemonLossStays ==
    ASSUME Inv, [DaemonNext]_daemonVars
    PROVE  /\ fatal => fatal'
           /\ outcome = "Restart" /\ sup # "publish" => outcome' = "Restart" /\ sup' # "publish"
<1>1. CASE [Next]_vars
  BY <1>1, LossStays
<1>2. CASE Interrupt
  BY <1>2 DEF Interrupt, handle, session
<1>3. CASE \E code \in {"success", "failed"} : LeaveMain(code)
  BY <1>3 DEF LeaveMain, handle, session
<1>4. CASE \E r \in Requests : TooEarly(r)
  BY <1>4 DEF TooEarly, handle, session
<1> QED
  BY <1>1, <1>2, <1>3, <1>4, DaemonSteps

\* After the exit nothing happens.
LEMMA AfterExit == ASSUME [DaemonNext]_daemonVars, exit # "none" PROVE UNCHANGED daemonVars
  BY DEF DaemonNext, Running, Supervise, Child, Startup, Shutdown, Interrupt, StopServing, MainStep,
         StartOk, StartError, FailClosed, Interrupted, Attach, Serving, StopWorker, WorkerStopped,
         ServerLost, Drained, DrainTimeout, LeaveMain, WatchFatal, WatchPublish, WatchSchedule,
         WatchAborted, FailFastExit, Http, Stall, ReadSlot, ReadState, ReadInfo, Exited, Predict,
         TooEarly

\* The daemon's own variables keep their types.
OuterType ==
    /\ main \in {"starting", "interrupted", "failed", "attach", "attached", "serving",
                 "stop", "stopping", "draining"}
    /\ {signalled, stalled, attached, fuse, late} \subseteq BOOLEAN
    /\ readiness \in {"Loading", "Ready", "Failed", "Stopping"}
    /\ watch \in {"none", "waiting", "told", "kill", "done", "aborted"}
    /\ probe \in {"idle", "state", "info"}
    /\ seen \in {"Starting", "Ready", "Failed", "ShuttingDown"}
    /\ answer \in {"none", "ready", "loading", "unavailable"}
    /\ exit \in {"none", "success", "failed"}

LEMMA OuterTypeNext == ASSUME TypeOK, OuterType, [DaemonNext]_daemonVars PROVE OuterType'
<1> USE DEF outer, app, http, OuterType
<1>1. CASE Supervise \/ Child \/ Startup \/ Shutdown \/ \E r \in Requests : Predict(r) \/ TooEarly(r)
  BY <1>1 DEF Supervise, Child, Startup, Shutdown, Predict, TooEarly
<1>2. CASE Interrupt \/ StopServing
  BY <1>2 DEF Interrupt, StopServing
<1>3. CASE MainStep
  BY <1>3 DEF MainStep, StartOk, StartError, FailClosed, Interrupted, Attach, Serving, StopWorker,
              WorkerStopped, ServerLost, Drained, DrainTimeout, LeaveMain
<1>4. CASE WatchFatal \/ WatchPublish \/ WatchSchedule \/ WatchAborted \/ FailFastExit
  BY <1>4 DEF WatchFatal, WatchPublish, WatchSchedule, WatchAborted, FailFastExit
<1>5. CASE Http
  BY <1>5 DEF Http, Stall, ReadSlot, ReadState, ReadInfo, TypeOK
<1>6. CASE Exited \/ UNCHANGED daemonVars
  BY <1>6 DEF Exited, daemonVars
<1> QED
  BY <1>1, <1>2, <1>3, <1>4, <1>5, <1>6 DEF DaemonNext

LEMMA MainOwnsNext == ASSUME Inv, MainOwns, [DaemonNext]_daemonVars PROVE MainOwns'
<1> USE DEF outer, app, http, MainOwns, Stopping
<1>1. CASE Supervise \/ Child \/ \E r \in Requests : Predict(r)
  BY <1>1, OwnerMoves DEF Supervise, Child, Predict
<1>2. CASE Startup
  BY <1>2 DEF Startup, StartFails, StartTimeout
<1>3. CASE Shutdown
  BY <1>3 DEF Shutdown, StopAdmitting, PokeSupervisor, Stopped, ForceStop, KillWaitOver, start
<1>4. CASE Interrupt \/ StopServing \/ \E r \in Requests : TooEarly(r)
  BY <1>4 DEF Interrupt, StopServing, TooEarly, vars, start
<1>5. CASE MainStep
  BY <1>5 DEF MainStep, StartOk, StartError, FailClosed, Interrupted, Attach, Serving, StopWorker,
              WorkerStopped, ServerLost, Drained, DrainTimeout, LeaveMain, Started, Signal, vars, start
<1>6. CASE \/ WatchFatal \/ WatchPublish \/ WatchSchedule \/ WatchAborted \/ FailFastExit \/ Http
           \/ Exited \/ UNCHANGED daemonVars
  BY <1>6 DEF WatchFatal, WatchPublish, WatchSchedule, WatchAborted, FailFastExit, Http, Stall,
              ReadSlot, ReadState, ReadInfo, Exited, daemonVars, vars
<1> QED
  BY <1>1, <1>2, <1>3, <1>4, <1>5, <1>6 DEF DaemonNext

LEMMA SignalNext ==
    ASSUME SignalRemembered, [DaemonNext]_daemonVars PROVE SignalRemembered'
<1> USE DEF outer, app, http, SignalRemembered
<1>1. CASE Supervise \/ Child \/ Startup \/ Shutdown \/ \E r \in Requests : Predict(r) \/ TooEarly(r)
  BY <1>1 DEF Supervise, Child, Startup, Shutdown, Predict, TooEarly
<1>2. CASE Interrupt \/ StopServing
  BY <1>2 DEF Interrupt, StopServing, Running
<1>3. CASE MainStep
  BY <1>3 DEF MainStep, StartOk, StartError, FailClosed, Interrupted, Attach, Serving, StopWorker,
              WorkerStopped, ServerLost, Drained, DrainTimeout, LeaveMain
<1>4. CASE \/ WatchFatal \/ WatchPublish \/ WatchSchedule \/ WatchAborted \/ FailFastExit \/ Http
           \/ Exited \/ UNCHANGED daemonVars
  BY <1>4 DEF WatchFatal, WatchPublish, WatchSchedule, WatchAborted, FailFastExit, Http, Stall,
              ReadSlot, ReadState, ReadInfo, Exited, daemonVars
<1> QED
  BY <1>1, <1>2, <1>3, <1>4 DEF DaemonNext

LEMMA WatchedNext == ASSUME Inv, WatchedFatal, [DaemonNext]_daemonVars PROVE WatchedFatal'
<1> USE DaemonLossStays DEF outer, app, http, WatchedFatal
<1>1. CASE Supervise \/ Child \/ Startup \/ Shutdown \/ \E r \in Requests : Predict(r) \/ TooEarly(r)
  BY <1>1 DEF Supervise, Child, Startup, Shutdown, Predict, TooEarly
<1>2. CASE Interrupt \/ StopServing
  BY <1>2 DEF Interrupt, StopServing
<1>3. CASE MainStep
  BY <1>3 DEF MainStep, StartOk, StartError, FailClosed, Interrupted, Attach, Serving, StopWorker,
              WorkerStopped, ServerLost, Drained, DrainTimeout, LeaveMain
<1>4. CASE \/ WatchFatal \/ WatchPublish \/ WatchSchedule \/ WatchAborted \/ FailFastExit \/ Http
           \/ Exited \/ UNCHANGED daemonVars
  BY <1>4 DEF WatchFatal, WatchPublish, WatchSchedule, WatchAborted, FailFastExit, Http, Stall,
              ReadSlot, ReadState, ReadInfo, Exited, daemonVars
<1> QED
  BY <1>1, <1>2, <1>3, <1>4 DEF DaemonNext

\* Once the loss is published the state says so, and a probe that reads it then sees it.
LEMMA LossSeenNext == ASSUME Inv, LossSeen, [DaemonNext]_daemonVars PROVE LossSeen'
<1>1. outcome = "Restart" /\ sup # "publish" => state \in {"Failed", "ShuttingDown"}
  BY DEF Inv, OutcomeDecided
<1> USE DaemonLossStays DEF outer, app, http, LossSeen
<1>2. CASE UNCHANGED <<probe, late, seen>>
  BY <1>2
<1>3. CASE ReadSlot
  BY <1>3 DEF ReadSlot, vars
<1>4. CASE ReadState
  BY <1>1, <1>4 DEF ReadState
<1>5. CASE ReadInfo
  BY <1>5 DEF ReadInfo
<1>6. CASE \/ Supervise \/ Child \/ Startup \/ Shutdown \/ Interrupt \/ StopServing \/ MainStep
           \/ \E r \in Requests : Predict(r) \/ TooEarly(r)
  BY <1>2, <1>6 DEF Supervise, Child, Startup, Shutdown, Predict, TooEarly, Interrupt, StopServing,
                    MainStep, StartOk, StartError, FailClosed, Interrupted, Attach, Serving,
                    StopWorker, WorkerStopped, ServerLost, Drained, DrainTimeout, LeaveMain
<1>7. CASE \/ WatchFatal \/ WatchPublish \/ WatchSchedule \/ WatchAborted \/ FailFastExit \/ Stall
           \/ Exited \/ UNCHANGED daemonVars
  BY <1>2, <1>7 DEF WatchFatal, WatchPublish, WatchSchedule, WatchAborted, FailFastExit, Stall,
                    Exited, daemonVars
<1> QED
  BY <1>3, <1>4, <1>5, <1>6, <1>7 DEF DaemonNext, Http

\* The two ways out: main returns, and kill_on_drop takes what a task still owns; or the
\* process exits at once, when the loss was reported.
LEMMA NoOrphanNext ==
    ASSUME Inv, WatchedFatal, NoOrphanAtExit, [DaemonNext]_daemonVars PROVE NoOrphanAtExit'
<1>1. CASE exit # "none"
  BY <1>1, AfterExit DEF NoOrphanAtExit, daemonVars, outer, vars
<1>2. CASE UNCHANGED exit
  BY <1>1, <1>2 DEF NoOrphanAtExit
<1>3. ASSUME NEW code, LeaveMain(code) PROVE NoOrphanAtExit'
  BY <1>3 DEF LeaveMain, NoOrphanAtExit, Inv, TypeOK, ChildAccounted
<1>4. CASE FailFastExit
  BY <1>4 DEF FailFastExit, NoOrphanAtExit, WatchedFatal, Inv, FatalLast, vars
<1>5. CASE MainStep
  BY <1>2, <1>3, <1>5 DEF MainStep, StartOk, StartError, FailClosed, Interrupted, Attach, Serving,
                          StopWorker, WorkerStopped, ServerLost, Drained, DrainTimeout
<1> USE DEF outer
<1>6. CASE \/ Supervise \/ Child \/ Startup \/ Shutdown \/ Interrupt \/ StopServing
           \/ \E r \in Requests : Predict(r) \/ TooEarly(r)
  BY <1>2, <1>6 DEF Supervise, Child, Startup, Shutdown, Predict, TooEarly, Interrupt, StopServing
<1>7. CASE \/ WatchFatal \/ WatchPublish \/ WatchSchedule \/ WatchAborted \/ Http
           \/ Exited \/ UNCHANGED daemonVars
  BY <1>2, <1>7 DEF WatchFatal, WatchPublish, WatchSchedule, WatchAborted, Http, Stall,
                    ReadSlot, ReadState, ReadInfo, Exited, daemonVars
<1> QED
  BY <1>4, <1>5, <1>6, <1>7 DEF DaemonNext

-------------------------------------------------------------------------------
(* The invariant, and what follows from it                                 *)

LEMMA WholeInit == DaemonInit => WholeInv
<1> SUFFICES ASSUME DaemonInit PROVE WholeInv
  OBVIOUS
<1>1. Inv
  BY InvInit DEF DaemonInit
<1>2. DaemonTypeOK
  BY <1>1 DEF Inv, DaemonInit, DaemonTypeOK
<1>3. MainOwns /\ SignalRemembered /\ WatchedFatal /\ LossSeen /\ NoOrphanAtExit
  BY DEF DaemonInit, Init, MainOwns, SignalRemembered, WatchedFatal, LossSeen, NoOrphanAtExit
<1> QED
  BY <1>1, <1>2, <1>3 DEF WholeInv

LEMMA WholeNext == WholeInv /\ [DaemonNext]_daemonVars => WholeInv'
<1> SUFFICES ASSUME WholeInv, [DaemonNext]_daemonVars PROVE WholeInv'
  OBVIOUS
<1>1. Inv' /\ MainOwns'
  BY HandleKeeps, MainOwnsNext DEF WholeInv
<1>2. DaemonTypeOK'
  BY <1>1, OuterTypeNext DEF WholeInv, Inv, DaemonTypeOK, OuterType
<1>3. SignalRemembered' /\ WatchedFatal' /\ LossSeen' /\ NoOrphanAtExit'
  BY SignalNext, WatchedNext, LossSeenNext, NoOrphanNext DEF WholeInv
<1> QED
  BY <1>1, <1>2, <1>3 DEF WholeInv

\* The handle's invariant holds inside the daemon, whatever main drops and whenever, and
\* with it what relates main, the watcher and a probe to the handle.
THEOREM DaemonInvariance == DaemonSpec => []WholeInv
  BY WholeInit, WholeNext, PTL DEF DaemonSpec

\* So the handle keeps its promises in the daemon: each caller its own answer and nobody
\* without one, no orphan, no report before the loss is visible, no request before the handshake.
THEOREM HandleSafeInDaemon ==
    DaemonSpec => [](OwnAnswer /\ NoneStranded /\ NoOrphan /\ FatalIsFinal /\ HandshakeFirst)
<1>1. WholeInv => Inv
  BY DEF WholeInv
<1> QED
  BY DaemonInvariance, HandleSafe, <1>1, PTL

\* Nor is a request queued behind a dying worker through the router.
THEOREM NotQueuedInDaemon == DaemonSpec => NotQueuedBehindDying
<1>1. WholeInv /\ [DaemonNext]_daemonVars
      => [\A r \in Requests : phase[r] = "admitted" /\ phase'[r] = "sending"
                                => outcome # "Restart" \/ sup = "publish"]_vars
  <2> SUFFICES ASSUME WholeInv, [DaemonNext]_daemonVars, NEW r \in Requests,
                      phase[r] = "admitted", phase'[r] = "sending"
               PROVE  outcome # "Restart" \/ sup = "publish"
    OBVIOUS
  <2>1. Inv
    BY DEF WholeInv
  <2>2. CASE [Next]_vars
    BY <2>1, <2>2, PassesOnlyReady
  <2>3. CASE Interrupt \/ \E code \in {"success", "failed"} : LeaveMain(code)
    BY <2>3 DEF Interrupt, LeaveMain, calls
  <2>4. ASSUME NEW q \in Requests, TooEarly(q) PROVE FALSE
    BY <2>1, <2>4 DEF TooEarly, Return, Inv, TypeOK
  <2> QED
    BY <2>2, <2>3, <2>4, DaemonSteps
<1> QED
  BY DaemonInvariance, <1>1, PTL DEF DaemonSpec, NotQueuedBehindDying

\* With a worker that sends nothing of its own accord, the session stays in step with it
\* through everything that main drops.
THEOREM InSyncInDaemon == NoStrays => (DaemonSpec => []InSync)
<1> SUFFICES ASSUME NoStrays PROVE DaemonSpec => []InSync
  OBVIOUS
<1>1. DaemonInit => PipesInSync
  BY InSyncInit DEF DaemonInit
<1>2. WholeInv /\ PipesInSync /\ [DaemonNext]_daemonVars => PipesInSync'
  <2> SUFFICES ASSUME WholeInv, PipesInSync, [DaemonNext]_daemonVars PROVE PipesInSync'
    OBVIOUS
  <2>1. CASE [Next]_vars
    BY <2>1, InSyncNext DEF WholeInv
  <2>2. CASE \/ Interrupt \/ \E code \in {"success", "failed"} : LeaveMain(code)
             \/ \E r \in Requests : TooEarly(r)
    <3>1. UNCHANGED <<sup, slot, child, stdin, stdout>>
      BY <2>2 DEF Interrupt, LeaveMain, TooEarly, start, session, process
    <3> QED
      BY <3>1 DEF PipesInSync, PipesOpen, Heard
  <2> QED
    BY <2>1, <2>2, DaemonSteps
<1>3. WholeInv /\ PipesInSync => InSync
  BY InStep DEF WholeInv
<1> QED
  BY DaemonInvariance, <1>1, <1>2, <1>3, PTL DEF DaemonSpec

\* On every way out of the process the worker is gone or was sent SIGKILL.
THEOREM NoOrphanAtExitAlways == DaemonSpec => []NoOrphanAtExit
<1>1. WholeInv => NoOrphanAtExit
  BY DEF WholeInv
<1> QED
  BY DaemonInvariance, <1>1, PTL

\* The daemon leaves successfully only when it was told to stop.
THEOREM SuccessOnlyIfAskedAlways == DaemonSpec => []SuccessOnlyIfAsked
<1>1. WholeInv => SuccessOnlyIfAsked
  BY DEF WholeInv, SignalRemembered, SuccessOnlyIfAsked
<1> QED
  BY DaemonInvariance, <1>1, PTL

\* A probe of readiness that begins after a loss was published does not say ready.
THEOREM ReadyzKnowsLossAlways == DaemonSpec => ReadyzKnowsLoss
<1>1. WholeInv /\ [DaemonNext]_daemonVars
      => [probe = "info" /\ probe' = "idle" /\ late => answer' # "ready"]_daemonVars
  <2> SUFFICES ASSUME WholeInv, DaemonNext, probe = "info", probe' = "idle", late
               PROVE  answer' # "ready"
    OBVIOUS
  <2>1. seen \in {"Failed", "ShuttingDown"}
    BY DEF WholeInv, LossSeen
  <2>2. CASE ReadInfo
    BY <2>1, <2>2 DEF ReadInfo
  <2>3. ~UNCHANGED probe
    OBVIOUS
  <2>4. ReadInfo
    BY <2>3 DEF DaemonNext, Supervise, Child, Startup, Shutdown, Interrupt, StopServing, MainStep,
                StartOk, StartError, FailClosed, Interrupted, Attach, Serving, StopWorker,
                WorkerStopped, ServerLost, Drained, DrainTimeout, LeaveMain, WatchFatal, WatchPublish,
                WatchSchedule, WatchAborted, FailFastExit, Http, Stall, ReadSlot, ReadState, Exited,
                Predict, TooEarly, daemonVars, outer, http
  <2> QED
    BY <2>2, <2>4
<1> QED
  BY DaemonInvariance, <1>1, PTL DEF DaemonSpec, ReadyzKnowsLoss

-------------------------------------------------------------------------------
(* The daemon implements the abstract resident model                       *)

\* A refusal by the router refuses one call that nobody has taken.
LEMMA TooEarlyRefines ==
    ASSUME Inv, NEW r \in Requests, TooEarly(r) PROVE Abstract!Next \/ UNCHANGED Abstract!vars
<1>1. reply[r] = "none" /\ reply \in [Requests -> {"none"} \cup Errors \cup Jobs]
  BY DEF TooEarly, Inv, HeldOnce, Early, TypeOK
<1>2. OnlyRefuses
  BY <1>1, VerdictsApart DEF TooEarly, Return, OnlyRefuses, Inv, TypeOK
<1>3. Life' = Life
  BY DEF TooEarly, Life, start, session
<1> QED
  BY <1>2, <1>3, RefusingStep

\* What the process drops changes nothing that a caller has been told.
LEMMA DroppingRefines ==
    ASSUME Interrupt \/ \E code \in {"success", "failed"} : LeaveMain(code)
    PROVE  UNCHANGED Abstract!vars
<1>1. UNCHANGED <<outcome, slot, reply, phase>>
  BY DEF Interrupt, LeaveMain, start, session, calls
<1> QED
  BY <1>1, QuietStep

\* The whole daemon implements the abstract specification: one model, each call decided at
\* most once, its own result and only while the model serves - through startup, signals and
\* every way out.
THEOREM DaemonRefinement == DaemonSpec => ImplementsResident
<1>1. DaemonInit => Abstract!Init
  BY RefinementInit DEF DaemonInit
<1>2. WholeInv /\ [DaemonNext]_daemonVars => [Abstract!Next]_(Abstract!vars)
  BY DaemonSteps, RefinementNext, TooEarlyRefines, DroppingRefines DEF WholeInv
<1> QED
  BY <1>1, <1>2, DaemonInvariance, PTL DEF DaemonSpec, ImplementsResident, Abstract!Spec
===============================================================================
