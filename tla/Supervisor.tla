------------------------------ MODULE Supervisor ------------------------------
(***************************************************************************)
(* The resident worker and its supervisor: src/src/worker.rs.              *)
(*                                                                         *)
(* Four kinds of actor share the state of a WorkerHandle.                  *)
(*   - The callers of predict(), one per element of Requests.  A caller    *)
(*     asks once and may go away at any await.                             *)
(*   - The supervision task, supervise() and the session inside it.  Its   *)
(*     program counter sup names the await (or the lock) it stands at.     *)
(*   - The owner: the future that spawn() returns, and the task of main.rs *)
(*     that awaits it and later calls shutdown() and kill_now().           *)
(*   - The child process: python/worker.py, or with Faults a worker that   *)
(*     misbehaves the way tests/data/fake_worker.py can.                   *)
(*                                                                         *)
(* Time is not modelled.  A deadline may pass in any state in which its    *)
(* timer is armed, so every order of timers and events is covered.         *)
(***************************************************************************)
EXTENDS Naturals, Sequences, FiniteSets

CONSTANTS
    Requests,       \* the callers of predict(), each with its own payload
    Poke,           \* the null job by which shutdown() wakes the supervisor
    NoJob,          \* the session has no request in flight
    MaxConcurrent,  \* permits of the admission semaphore
    ChanCap,        \* capacity of the job channel (64 in the code)
    PipeCap,        \* bound on the frames a misbehaving worker leaves unread
    Faults          \* what the worker may do wrong, a subset of FaultKinds

FaultKinds == {"crash", "closes", "garbage", "oversized", "wrong_id", "replay", "odd_error"}

(* What predict() can return other than a result: WorkerError::kind, with  *)
(* ShuttingDown and Unavailable told apart.                                *)
Errors == {"overloaded", "unavailable", "shutting_down", "invalid_request",
           "worker_failed", "inference_timeout", "oversized_response"}

ASSUME RequestsAssumption == /\ IsFiniteSet(Requests)
                             /\ Poke \notin Requests
                             /\ NoJob \notin Requests \cup {Poke}
                             /\ (Requests \cup {Poke}) \cap (Errors \cup {"none"}) = {}
ASSUME BoundsAssumption == MaxConcurrent \in Nat /\ ChanCap \in Nat \ {0} /\ PipeCap \in Nat
ASSUME FaultsAssumption == Faults \subseteq FaultKinds

VARIABLES
    \* Inner: what every handle shares
    state,     \* Inner.state; State::Pending is never constructed
    info,      \* Inner.info holds the ready frame's metadata
    pid,       \* Inner.pid holds the child's process id
    fatal,     \* a reason was sent on Inner.fatal_tx
    done,      \* the permit stored in Inner.done
    force,     \* the permit stored in Inner.force_stop
    queue,     \* the job channel
    \* the ready one-shot
    slot,      \* ReadySlot: pending, or how it was settled
    listener,  \* its receiver: waiting, dropped, or consumed by a success
    \* the supervision task
    sup,       \* where it stands
    outcome,   \* SessionOutcome, "none" until the session ends
    job,       \* the job taken from the channel and not yet answered
    issued,    \* the jobs given an id so far: next_id = Len(issued)
    \* the child
    stdin, stdout, child, sigkilled,
    \* the owner and the callers
    owner, phase, reply

vars == <<state, info, pid, fatal, done, force, queue, slot, listener, sup, outcome,
          job, issued, stdin, stdout, child, sigkilled, owner, phase, reply>>

handle  == <<state, info, pid, fatal, done, force, queue>>
start   == <<slot, listener>>
session == <<outcome, job, issued>>
process == <<stdin, stdout, child, sigkilled>>
calls   == <<phase, reply>>

-------------------------------------------------------------------------------
Jobs == Requests \cup {Poke}
Frames == [kind : {"ready", "not_ready", "ok", "reject", "fatal", "odd_error",
                   "garbage", "oversized"},
           id : Nat, req : Jobs]

SessionPoints == {"top", "idle", "announce", "inform", "check", "write", "wait"}
SupPoints == SessionPoints \cup
             {"begin", "spawn", "record_pid", "publish", "closing", "term", "kill9",
              "mark", "clear", "report", "drain", "drop", "end"}

TypeOK ==
    /\ state \in {"Starting", "Ready", "Failed", "ShuttingDown"}
    /\ info \in BOOLEAN /\ pid \in BOOLEAN /\ fatal \in BOOLEAN
    /\ done \in BOOLEAN /\ force \in BOOLEAN /\ sigkilled \in BOOLEAN
    /\ queue \in Seq(Jobs)
    /\ slot \in {"pending", "ok", "failed", "timeout", "dropped"}
    /\ listener \in {"waiting", "dropped", "consumed"}
    /\ sup \in SupPoints
    /\ outcome \in {"none", "Shutdown", "Kill", "Restart"}
    /\ job \in Jobs \cup {NoJob}
    /\ issued \in Seq(Jobs)
    /\ stdin \in Seq([id : Nat, req : Jobs])
    /\ stdout \in Seq(Frames)
    /\ child \in {"none", "loading", "serving", "leaving", "exited", "reaped"}
    /\ owner \in {"starting", "attached", "stop", "poke", "grace", "kill_wait", "stopped"}
    /\ phase \in [Requests -> {"new", "admitted", "sending", "waiting", "returned",
                               "canceled"}]
    /\ reply \in [Requests -> {"none"} \cup Errors \cup Jobs]

Init ==
    /\ state = "Starting" /\ queue = <<>>
    /\ info = FALSE /\ pid = FALSE /\ fatal = FALSE /\ done = FALSE /\ force = FALSE
    /\ slot = "pending" /\ listener = "waiting"
    /\ sup = "begin" /\ outcome = "none" /\ job = NoJob /\ issued = <<>>
    /\ stdin = <<>> /\ stdout = <<>> /\ child = "none" /\ sigkilled = FALSE
    /\ owner = "starting"
    /\ phase = [r \in Requests |-> "new"]
    /\ reply = [r \in Requests |-> "none"]

-------------------------------------------------------------------------------
(* Callers: WorkerHandle::predict.  A result is represented by the request *)
(* whose payload the worker answered.                                      *)

Permits == Cardinality({r \in Requests : phase[r] \in {"admitted", "sending", "waiting"}})

Return(r, v) == /\ phase' = [phase EXCEPT ![r] = "returned"]
                /\ reply' = [reply EXCEPT ![r] = v]

\* try_acquire_owned; the router hands requests over only once main has attached.
Admit(r) ==
    /\ phase[r] = "new" /\ listener = "consumed"
    /\ \/ /\ Permits < MaxConcurrent
          /\ phase' = [phase EXCEPT ![r] = "admitted"]
          /\ UNCHANGED reply
       \/ /\ Permits >= MaxConcurrent
          /\ Return(r, "overloaded")
    /\ UNCHANGED <<handle, start, sup, session, process, owner>>

\* The state is read under its lock, and acted on after the lock is released.
CheckState(r) ==
    /\ phase[r] = "admitted"
    /\ \/ /\ state = "Ready"
          /\ phase' = [phase EXCEPT ![r] = "sending"]
          /\ UNCHANGED reply
       \/ state = "ShuttingDown" /\ Return(r, "shutting_down")
       \/ state \in {"Starting", "Failed"} /\ Return(r, "unavailable")
    /\ UNCHANGED <<handle, start, sup, session, process, owner>>

\* tx.send waits for room; it fails once supervise() has dropped the receiver.
Send(r) ==
    /\ phase[r] = "sending"
    /\ \/ /\ sup # "end" /\ Len(queue) < ChanCap
          /\ queue' = Append(queue, r)
          /\ phase' = [phase EXCEPT ![r] = "waiting"]
          /\ UNCHANGED reply
       \/ sup = "end" /\ Return(r, "shutting_down") /\ UNCHANGED queue
    /\ UNCHANGED <<state, info, pid, fatal, done, force, start, sup, session, process, owner>>

Receive(r) ==
    /\ phase[r] = "waiting" /\ reply[r] # "none"
    /\ phase' = [phase EXCEPT ![r] = "returned"]
    /\ UNCHANGED <<handle, start, sup, session, process, owner, reply>>

\* The client disconnects and the future is dropped, with its permit and receiver.
Cancel(r) ==
    /\ phase[r] \in {"admitted", "sending", "waiting"}
    /\ phase' = [phase EXCEPT ![r] = "canceled"]
    /\ UNCHANGED <<handle, start, sup, session, process, owner, reply>>


-------------------------------------------------------------------------------
(* The supervision task                                                    *)

\* Answer a job's one-shot: nothing happens when its caller has gone away, or
\* when there is no caller (Poke, NoJob).
Answer(j, v) == IF j \in Requests /\ phase[j] = "waiting"
                THEN [reply EXCEPT ![j] = v] ELSE reply

Settle(v) == IF slot = "pending" THEN v ELSE slot

\* run_session_inner returns: its locals (pipes, the one-shot of the job in
\* flight) are dropped.  A job not answered by v sees its channel close, which
\* predict() reports as ShuttingDown.
EndSession(o, v) ==
    /\ outcome' = o
    /\ reply' = Answer(job, v)
    /\ job' = NoJob
    /\ stdin' = <<>> /\ stdout' = <<>>
    /\ sup' = IF o = "Restart" THEN "publish" ELSE "closing"

Begin ==
    /\ sup = "begin"
    /\ sup' = IF state = "Starting" THEN "spawn" ELSE "drop"
    /\ UNCHANGED <<handle, start, session, process, owner, calls>>

SpawnOk ==
    /\ sup = "spawn"
    /\ child' = "loading" /\ sup' = "record_pid"
    /\ UNCHANGED <<handle, start, session, stdin, stdout, sigkilled, owner, calls>>

SpawnFails ==
    /\ sup = "spawn"
    /\ state' = "Failed" /\ slot' = Settle("failed") /\ sup' = "drop"
    /\ UNCHANGED <<info, pid, fatal, done, force, queue, listener, session, process,
                   owner, calls>>

RecordPid ==
    /\ sup = "record_pid"
    /\ pid' = TRUE /\ sup' = "top"
    /\ UNCHANGED <<state, info, fatal, done, force, queue, start, session, process,
                   owner, calls>>

\* The checks at the head of the loop, then the select of an idle session.
LoopTop ==
    /\ sup = "top"
    /\ IF state = "ShuttingDown" \/ (slot = "pending" /\ listener = "dropped")
       THEN EndSession("Shutdown", "shutting_down")
       ELSE sup' = "idle" /\ UNCHANGED <<outcome, reply, job, stdin, stdout>>
    /\ UNCHANGED <<handle, start, issued, child, sigkilled, owner, phase>>

StartupDeadline ==
    /\ sup = "top" /\ state # "ShuttingDown"
    /\ slot = "pending" /\ listener # "dropped"
    /\ slot' = "timeout"
    /\ EndSession("Restart", "shutting_down")
    /\ UNCHANGED <<handle, listener, issued, child, sigkilled, owner, phase>>

TakeJob ==
    /\ sup = "idle" /\ queue # <<>>
    /\ job' = Head(queue) /\ queue' = Tail(queue)
    /\ sup' = "check"
    /\ UNCHANGED <<state, info, pid, fatal, done, force, start, outcome, issued, process,
                   owner, calls>>

\* Mutant of SeeChildExit: an exit is taken for a stop.
SeeChildExitAsStop ==
    /\ sup = "idle" /\ child = "exited"
    /\ child' = "reaped"
    /\ slot' = Settle("failed")
    /\ EndSession("Shutdown", "shutting_down")
    /\ UNCHANGED <<handle, listener, issued, sigkilled, owner, phase>>

\* child.wait() in the idle select.
SeeChildExit ==
    /\ sup = "idle" /\ child = "exited"
    /\ child' = "reaped"
    /\ slot' = Settle("failed")
    /\ EndSession("Restart", "shutting_down")
    /\ UNCHANGED <<handle, listener, issued, sigkilled, owner, phase>>

\* A frame read while idle is the ready handshake or the end of the worker.
IdleFrame ==
    /\ sup = "idle" /\ stdout # <<>>
    /\ IF slot = "pending" /\ Head(stdout).kind = "ready"
       THEN /\ stdout' = Tail(stdout) /\ sup' = "announce"
            /\ UNCHANGED <<outcome, reply, job, stdin>>
       ELSE EndSession("Restart", "shutting_down")
    /\ UNCHANGED <<handle, start, issued, child, sigkilled, owner, phase>>

\* The end of the worker's output, or an error of reading it: when the process is gone, or
\* with one that closes its output and lives on.
OutputEnds == stdout = <<>> /\ (child = "exited" \/ "closes" \in Faults)

IdleEof ==
    /\ sup = "idle" /\ OutputEnds
    /\ slot' = Settle("failed")
    /\ EndSession("Restart", "shutting_down")
    /\ UNCHANGED <<handle, listener, issued, child, sigkilled, owner, phase>>

\* The poll interval elapses: back to the head of the loop.
IdlePoll ==
    /\ sup = "idle"
    /\ sup' = "top"
    /\ UNCHANGED <<handle, start, session, process, owner, calls>>

\* The handshake takes three locks in turn.
Announce ==
    /\ sup = "announce"
    /\ state' = "Ready" /\ sup' = "inform"
    /\ UNCHANGED <<info, pid, fatal, done, force, queue, start, session, process, owner,
                   calls>>

Inform ==
    /\ sup = "inform"
    /\ info' = TRUE /\ slot' = Settle("ok") /\ sup' = "top"
    /\ UNCHANGED <<state, pid, fatal, done, force, queue, listener, session, process,
                   owner, calls>>

\* Mutant of CheckJob: a job taken from the channel is always written.
CheckJobNot ==
    /\ sup = "check" /\ sup' = "write"
    /\ UNCHANGED <<handle, start, session, process, owner, calls>>

CheckJob ==
    /\ sup = "check"
    /\ IF state = "ShuttingDown"
       THEN EndSession("Shutdown", "shutting_down")
       ELSE sup' = "write" /\ UNCHANGED <<outcome, reply, job, stdin, stdout>>
    /\ UNCHANGED <<handle, start, issued, child, sigkilled, owner, phase>>

\* next_id += 1 and the frame is written within the inference deadline.
WriteOk ==
    /\ sup = "write" /\ child # "exited"
    /\ issued' = Append(issued, job)
    /\ stdin' = Append(stdin, [id |-> Len(issued) + 1, req |-> job])
    /\ sup' = "wait"
    /\ UNCHANGED <<handle, start, outcome, job, stdout, child, sigkilled, owner, calls>>

\* A broken pipe, or a worker that does not read its input.
WriteFails ==
    /\ sup = "write"
    /\ issued' = Append(issued, job)
    /\ \/ child = "exited" /\ EndSession("Restart", "worker_failed")
       \/ EndSession("Restart", "inference_timeout")
    /\ UNCHANGED <<handle, start, child, sigkilled, owner, phase>>

-------------------------------------------------------------------------------
(* A request is in flight *)

ReplyKinds == {"ok", "reject", "fatal", "odd_error"}
\* Mutant of Matches: the id of a reply is not compared.
MatchesAnyId(f) == f.kind \in ReplyKinds

Matches(f) == f.kind \in ReplyKinds /\ f.id = Len(issued)

\* Mutant of Verdict: a result is sent before its id is compared.
VerdictEarly(f) == IF f.kind = "ok" THEN f.req ELSE "worker_failed"

\* What the caller in flight is told of frame f ...
Verdict(f) == CASE f.kind = "oversized"            -> "oversized_response"
                [] Matches(f) /\ f.kind = "ok"     -> f.req
                [] Matches(f) /\ f.kind = "reject" -> "invalid_request"
                [] OTHER                           -> "worker_failed"

\* ... and whether the session goes on after it.
KeepsWorker(f) == Matches(f) /\ f.kind # "fatal"

WaitFrame ==
    /\ sup = "wait" /\ stdout # <<>>
    /\ IF KeepsWorker(Head(stdout))
       THEN /\ reply' = Answer(job, Verdict(Head(stdout)))
            /\ job' = NoJob /\ stdout' = Tail(stdout) /\ sup' = "top"
            /\ UNCHANGED <<outcome, stdin>>
       ELSE EndSession("Restart", Verdict(Head(stdout)))
    /\ UNCHANGED <<handle, start, issued, child, sigkilled, owner, phase>>

WaitEof ==
    /\ sup = "wait" /\ OutputEnds
    /\ EndSession("Restart", "worker_failed")
    /\ UNCHANGED <<handle, start, issued, child, sigkilled, owner, phase>>

\* The reply's receiver is gone.  shutdown() keeps that of Poke until it returns.
CallerGone(j) == IF j \in Requests THEN phase[j] = "canceled" ELSE owner = "stopped"

\* Mutant of WaitPoll: the request of a caller that went away is forgotten.
WaitPollForgets ==
    /\ sup = "wait" /\ CallerGone(job)
    /\ job' = NoJob /\ sup' = "top"
    /\ UNCHANGED <<handle, start, outcome, issued, process, owner, calls>>

WaitPoll ==
    /\ sup = "wait"
    /\ \/ state = "ShuttingDown" /\ EndSession("Shutdown", "shutting_down")
       \/ /\ state # "ShuttingDown" /\ CallerGone(job)
          /\ EndSession("Restart", "shutting_down")
    /\ UNCHANGED <<handle, start, issued, child, sigkilled, owner, phase>>

InferenceDeadline ==
    /\ sup = "wait"
    /\ EndSession("Restart", "inference_timeout")
    /\ UNCHANGED <<handle, start, issued, child, sigkilled, owner, phase>>

\* run_session's other branch: force_stop was notified.
Kill ==
    /\ sup \in SessionPoints /\ force
    /\ force' = FALSE
    /\ EndSession("Kill", "shutting_down")
    /\ UNCHANGED <<state, info, pid, fatal, done, queue, start, issued, child, sigkilled,
                   owner, phase>>

-------------------------------------------------------------------------------
(* After the session: run_session, the arms of supervise, shutdown_child   *)

\* Mutant of Publish: the reason is published by mark_failed only.
PublishLate ==
    /\ sup = "publish" /\ sup' = "term"
    /\ UNCHANGED <<handle, start, session, process, owner, calls>>

\* A restart reason is published before the child is killed.
Publish ==
    /\ sup = "publish"
    /\ state' = IF state \in {"Failed", "ShuttingDown"} THEN state ELSE "Failed"
    /\ sup' = "term"
    /\ UNCHANGED <<info, pid, fatal, done, force, queue, start, session, process, owner,
                   calls>>

\* The Shutdown and Kill arms; Kill sends SIGKILL first.
Closing ==
    /\ sup = "closing"
    /\ sigkilled' = (outcome = "Kill")
    /\ slot' = Settle("failed")
    /\ sup' = "term"
    /\ UNCHANGED <<handle, listener, session, stdin, stdout, child, owner, calls>>

\* shutdown_child: the child exits within the grace and is reaped ...
Reap ==
    /\ sup \in {"term", "kill9"} /\ child \in {"exited", "reaped"}
    /\ child' = "reaped"
    /\ slot' = Settle("failed")
    /\ sup' = IF outcome = "Restart" THEN "mark" ELSE "clear"
    /\ UNCHANGED <<handle, listener, session, stdin, stdout, sigkilled, owner, calls>>

\* Mutant of GraceOver: the wait is extended, nothing is sent.
GraceExtended ==
    /\ sup = "term" /\ sup' = "kill9"
    /\ UNCHANGED <<handle, start, session, process, owner, calls>>

\* ... or is sent SIGKILL ...
GraceOver ==
    /\ sup = "term"
    /\ sigkilled' = TRUE /\ sup' = "kill9"
    /\ UNCHANGED <<handle, start, session, stdin, stdout, child, owner, calls>>

\* ... and given up when it cannot be reaped within the second wait.
GiveUp ==
    /\ sup = "kill9"
    /\ slot' = Settle("failed")
    /\ sup' = IF outcome = "Restart" THEN "mark" ELSE "clear"
    /\ UNCHANGED <<handle, listener, session, process, owner, calls>>

\* Mutant of MarkState: the metadata is left as it is.
MarkStateOnly ==
    /\ sup = "mark" /\ sup' = "report"
    /\ state' = IF state = "ShuttingDown" THEN state ELSE "Failed"
    /\ UNCHANGED <<info, pid, fatal, done, force, queue, start, session, process, owner,
                   calls>>

\* mark_failed: the state, then the metadata, then the fatal channel.
MarkState ==
    /\ sup = "mark"
    /\ state' = IF state = "ShuttingDown" THEN state ELSE "Failed"
    /\ sup' = "clear"
    /\ UNCHANGED <<info, pid, fatal, done, force, queue, start, session, process, owner,
                   calls>>

\* Mutants of Clear: the pid is kept; a lost worker is not reported.
ClearInfo ==
    /\ sup = "clear"
    /\ info' = FALSE
    /\ sup' = IF outcome = "Restart" THEN "report" ELSE "drop"
    /\ UNCHANGED <<state, pid, fatal, done, force, queue, start, session, process, owner,
                   calls>>
ClearLast ==
    /\ sup = "clear" /\ sup' = "drop"
    /\ info' = FALSE /\ pid' = FALSE
    /\ UNCHANGED <<state, fatal, done, force, queue, start, session, process, owner, calls>>

Clear ==
    /\ sup = "clear"
    /\ info' = FALSE /\ pid' = FALSE
    /\ sup' = IF outcome = "Restart" THEN "report" ELSE "drop"
    /\ UNCHANGED <<state, fatal, done, force, queue, start, session, process, owner, calls>>

Report ==
    /\ sup = "report"
    /\ fatal' = TRUE /\ sup' = "drain"
    /\ UNCHANGED <<state, info, pid, done, force, queue, start, session, process, owner,
                   calls>>

\* while let Ok(job) = rx.try_recv()
Drain ==
    /\ sup = "drain"
    /\ IF queue = <<>>
       THEN sup' = "drop" /\ UNCHANGED <<queue, reply>>
       ELSE /\ queue' = Tail(queue)
            /\ reply' = Answer(Head(queue), "worker_failed")
            /\ UNCHANGED sup
    /\ UNCHANGED <<state, info, pid, fatal, done, force, start, session, process, owner,
                   phase>>

\* Mutant of Drop: the receiver outlives the task, and the queued jobs with it.
DropKeepsQueue ==
    /\ sup = "drop" /\ sup' = "end"
    /\ slot' = Settle("dropped") /\ done' = TRUE
    /\ UNCHANGED <<state, info, pid, fatal, force, queue, listener, session, process, owner,
                   calls>>

\* supervise() returns: the receiver goes, and with it the one-shots of the jobs
\* still queued; a slot never settled closes; done is notified.
Drop ==
    /\ sup = "drop"
    /\ reply' = [r \in Requests |->
                    IF phase[r] = "waiting" /\ \E i \in DOMAIN queue : queue[i] = r
                    THEN "shutting_down" ELSE reply[r]]
    /\ queue' = <<>>
    /\ slot' = Settle("dropped")
    /\ done' = TRUE
    /\ sup' = "end"
    /\ UNCHANGED <<state, info, pid, fatal, force, listener, session, process, owner, phase>>

SupervisorStep ==
    \/ Begin \/ SpawnOk \/ SpawnFails \/ RecordPid
    \/ LoopTop \/ StartupDeadline
    \/ TakeJob \/ SeeChildExit \/ IdleFrame \/ IdleEof \/ IdlePoll
    \/ Announce \/ Inform
    \/ CheckJob \/ WriteOk \/ WriteFails
    \/ WaitFrame \/ WaitEof \/ WaitPoll \/ InferenceDeadline
    \/ Kill \/ Publish \/ Closing
    \/ Reap \/ GraceOver \/ GiveUp
    \/ MarkState \/ Clear \/ Report \/ Drain \/ Drop

-------------------------------------------------------------------------------
(* The owner: the startup future of spawn(), then main.rs, shutdown() and  *)
(* kill_now()                                                              *)

Started ==
    /\ owner = "starting" /\ slot = "ok"
    /\ listener' = "consumed" /\ owner' = "attached"
    /\ UNCHANGED <<handle, slot, sup, session, process, calls>>

\* The handshake failed, or its timeout passed, or a signal arrived first: each
\* drops the receiver and goes on to shutdown().
StartFails ==
    /\ owner = "starting" /\ slot \in {"failed", "timeout", "dropped"}
    /\ listener' = "dropped" /\ owner' = "stop"
    /\ UNCHANGED <<handle, slot, sup, session, process, calls>>

StartTimeout ==
    /\ owner = "starting" /\ slot = "pending"
    /\ listener' = "dropped" /\ owner' = "stop"
    /\ UNCHANGED <<handle, slot, sup, session, process, calls>>

\* SIGINT or SIGTERM, or the HTTP server ending.
Signal ==
    /\ owner \in {"starting", "attached"}
    /\ listener' = IF owner = "starting" THEN "dropped" ELSE listener
    /\ owner' = "stop"
    /\ UNCHANGED <<handle, slot, sup, session, process, calls>>

StopAdmitting ==
    /\ owner = "stop"
    /\ state' = "ShuttingDown" /\ owner' = "poke"
    /\ UNCHANGED <<info, pid, fatal, done, force, queue, start, sup, session, process, calls>>

\* try_send: no effect on a full or closed channel.
PokeSupervisor ==
    /\ owner = "poke"
    /\ queue' = IF sup # "end" /\ Len(queue) < ChanCap THEN Append(queue, Poke) ELSE queue
    /\ owner' = "grace"
    /\ UNCHANGED <<state, info, pid, fatal, done, force, start, sup, session, process, calls>>

Stopped ==
    /\ owner \in {"grace", "kill_wait"} /\ done
    /\ done' = FALSE /\ owner' = "stopped"
    /\ UNCHANGED <<state, info, pid, fatal, force, queue, start, sup, session, process, calls>>

\* Mutant of ForceStop: kill_now waits without notifying.
ForceStopNot ==
    /\ owner = "grace"
    /\ owner' = IF pid THEN "kill_wait" ELSE "stopped"
    /\ UNCHANGED <<handle, start, sup, session, process, calls>>

\* The grace is over: kill_now notifies force_stop if a pid is recorded.
ForceStop ==
    /\ owner = "grace"
    /\ force' = (force \/ pid)
    /\ owner' = IF pid THEN "kill_wait" ELSE "stopped"
    /\ UNCHANGED <<state, info, pid, fatal, done, queue, start, sup, session, process, calls>>

KillWaitOver ==
    /\ owner = "kill_wait"
    /\ owner' = "stopped"
    /\ UNCHANGED <<handle, start, sup, session, process, calls>>

OwnerStep == Started \/ StartFails \/ StartTimeout \/ StopAdmitting \/ PokeSupervisor
             \/ Stopped \/ ForceStop \/ KillWaitOver

-------------------------------------------------------------------------------
(* The child: worker.py's main and serve                                   *)

PipesOpen == sup \in SessionPoints \cup {"record_pid"}

Emit(k, i, r) == stdout' = Append(stdout, [kind |-> k, id |-> i, req |-> r])

ChildStep(c) == /\ PipesOpen /\ child' = c
                /\ UNCHANGED <<handle, start, sup, session, sigkilled, owner, calls>>

WorkerReady ==
    /\ child = "loading"
    /\ Emit("ready", 0, Poke) /\ UNCHANGED stdin
    /\ ChildStep("serving")

WorkerCannotLoad ==
    /\ child = "loading"
    /\ Emit("not_ready", 0, Poke) /\ UNCHANGED stdin
    /\ ChildStep("leaving")

\* Poke is written as a predict whose params are null: validate_params rejects it.
Serve ==
    /\ child = "serving" /\ stdin # <<>>
    /\ stdin' = Tail(stdin)
    /\ LET f == Head(stdin)
       IN  \/ f.req # Poke /\ Emit("ok", f.id, f.req) /\ ChildStep("serving")
           \/ Emit("reject", f.id, f.req) /\ ChildStep("serving")
           \/ f.req # Poke /\ Emit("fatal", f.id, f.req) /\ ChildStep("leaving")

\* Misbehaviour while a request is at hand: a reply that echoes an id never
\* issued, or a non-fatal error whose code is neither validation nor
\* invalid_request.
ServeWrong ==
    /\ child = "serving" /\ stdin # <<>>
    /\ stdin' = Tail(stdin)
    /\ LET f == Head(stdin)
       IN  \/ "wrong_id" \in Faults /\ Emit("ok", 0, f.req)
           \/ "odd_error" \in Faults /\ Emit("odd_error", f.id, f.req)
    /\ ChildStep("serving")

\* Misbehaviour at any time: stray output, an endless line, an old reply again.
Stray ==
    /\ child \in {"loading", "serving"} /\ Len(stdout) < PipeCap
    /\ \/ "garbage" \in Faults /\ Emit("garbage", 0, Poke)
       \/ "oversized" \in Faults /\ Emit("oversized", 0, Poke)
       \/ /\ "replay" \in Faults
          /\ \E i \in 1..(Len(issued) - Len(stdin)) : Emit("ok", i, issued[i])
    /\ UNCHANGED stdin
    /\ ChildStep(child)

\* It returns from main, crashes, meets the end of its input or is signalled.
Exit ==
    /\ child \in {"loading", "serving", "leaving"}
    /\ \/ child = "leaving" \/ sigkilled \/ "crash" \in Faults
       \/ sup \in {"term", "kill9"}
       \/ child = "serving" /\ sup \in {"publish", "closing"}
    /\ child' = "exited"
    /\ UNCHANGED <<handle, start, sup, session, stdin, stdout, sigkilled, owner, calls>>

ChildActs == WorkerReady \/ WorkerCannotLoad \/ Serve \/ ServeWrong \/ Stray \/ Exit

-------------------------------------------------------------------------------
Caller(r) == Admit(r) \/ CheckState(r) \/ Send(r) \/ Receive(r) \/ Cancel(r)

AllReturned == \A r \in Requests :
                  \/ phase[r] \in {"returned", "canceled"}
                  \/ phase[r] = "new" /\ listener # "consumed"

\* The program has stopped: main returns.
Finished == /\ owner = "stopped" /\ sup = "end" /\ AllReturned
            /\ child \in {"none", "exited", "reaped"}
            /\ UNCHANGED vars

Next == \/ SupervisorStep \/ OwnerStep \/ Signal \/ ChildActs \/ Finished
        \/ \E r \in Requests : Caller(r)

Spec == Init /\ [][Next]_vars

-------------------------------------------------------------------------------
(* Fairness.  The runtime polls every ready task, the timers of the owner   *)
(* fire, and a process that was sent SIGKILL or returns from main exits.    *)
(* The idle select polls all its branches before it sleeps, so a job, a     *)
(* frame or an exit that stays ready is not passed over forever; tokio's    *)
(* channel serves blocked senders in order.                                 *)
FairSpec ==
    /\ Spec
    /\ WF_vars(SupervisorStep)
    /\ SF_vars(TakeJob) /\ SF_vars(SeeChildExit) /\ SF_vars(IdleFrame)
    /\ WF_vars(Kill)
    /\ WF_vars(OwnerStep)
    /\ WF_vars((sigkilled \/ child = "leaving") /\ Exit)
    /\ \A r \in Requests :
          /\ WF_vars(CheckState(r)) /\ SF_vars(Send(r)) /\ WF_vars(Receive(r))

-------------------------------------------------------------------------------
(* Safety                                                                  *)

\* A caller that is given a result is given its own: worker.rs:15 promises that
\* late replies are never mixed with a subsequent request.
OwnAnswer == \A r \in Requests : reply[r] \in Jobs => reply[r] = r

\* Nobody is left hanging: once the supervision task is gone, every caller still
\* waiting has been answered, or sees its channel closed.
NoneStranded == sup = "end" => \A r \in Requests : phase[r] = "waiting" => reply[r] # "none"

\* "so no orphan worker is ever left behind" (worker.rs:397): the supervision
\* task ends only after the child was reaped or sent SIGKILL.
NoOrphan == sup = "end" => child \in {"none", "reaped"} \/ sigkilled

\* main reads the fatal channel to exit at once, without destructors: by then the
\* child is gone, and no request can be admitted.
FatalIsFinal == fatal => /\ child = "reaped" \/ sigkilled
                         /\ state \in {"Failed", "ShuttingDown"}
                         /\ ~info /\ ~pid

\* No request is written before the handshake, so the arms of the wait that
\* expect a ready frame, or a reply to no request, are never taken.
HandshakeFirst == /\ sup \in {"write", "wait"} => slot # "pending"
                  /\ sup = "wait" => job # NoJob /\ issued[Len(issued)] = job

\* A session holds a job exactly between taking it and answering it.
JobInHand == sup \in {"check", "write", "wait"} <=> job # NoJob

\* With a worker that keeps the protocol, an idle session has no reply
\* outstanding, and at most one frame is ever in the pipes.
InSync == /\ sup \in {"top", "idle", "check", "write"} /\ slot # "pending"
              => stdin = <<>> /\ \A i \in DOMAIN stdout : stdout[i].kind \notin ReplyKinds
          /\ Len(stdin) + Len(stdout) <= 1

\* run_session publishes the failure before it returns, so that a request
\* arriving while the child is being killed is answered unavailable instead of
\* being queued behind a dying worker (worker.rs:541).
NotQueuedBehindDying ==
    [][\A r \in Requests :
          phase[r] = "admitted" /\ phase'[r] = "sending"
             => outcome # "Restart" \/ sup = "publish"]_vars

-------------------------------------------------------------------------------
(* What the documentation says and the code does not do                    *)

\* "Stop admitting work, ask the child to exit": a handle told to shut down never
\* offers the worker again.
ShutdownSticks == [][state = "ShuttingDown" => state' # "Ready"]_state

-------------------------------------------------------------------------------
(* Implementation of the abstract specification                            *)

Life == IF outcome # "none" \/ slot \notin {"pending", "ok"} THEN "over"
        ELSE IF slot = "pending" THEN "starting" ELSE "serving"

\* A call is decided when its one-shot is sent, whether or not its caller stays
\* to read it.
DecidedAs(r) == IF reply[r] \in Errors THEN "error"
                ELSE IF reply[r] # "none" THEN reply[r]
                ELSE IF phase[r] = "new" THEN "none" ELSE "open"

Abstract == INSTANCE Resident
                WITH life <- Life, verdict <- [r \in Requests |-> DecidedAs(r)]

\* The supervisor keeps the promises of Resident: one model, one verdict per call,
\* results only its own and only while the model serves.
ImplementsResident == Abstract!Spec

-------------------------------------------------------------------------------
(* Liveness, under FairSpec                                                *)

\* Every caller that got into the queue is answered.
Answered == \A r \in Requests :
               phase[r] \in {"sending", "waiting"} ~> phase[r] \in {"returned", "canceled"}

\* A stopped daemon stops its worker, and shutdown returns.
StopCompletes == owner = "stop" ~> (owner = "stopped" /\ sup = "end")

\* Once main serves, a worker that dies is noticed, busy or idle, and the handle
\* never again says that it is ready.
DeathNoticed ==
    listener = "consumed" /\ child = "exited" ~> [](state \notin {"Starting", "Ready"})

\* A session that ends in a restart is reported, so that main can fail fast.
LossReported == outcome = "Restart" ~> fatal
===============================================================================
