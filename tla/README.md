# layad, specified

This directory holds a TLA+ specification of layad: a local HTTP daemon that keeps one decision
model resident in a Python child process and puts one request at a time to it. The modules are
translated from the sources (`src/src/*.rs`, `src/python/worker.py`, `src/scripts/service.sh`, and
`src/tests/data/fake_worker.py` for what a misbehaving worker can do); TLC checks them on small
instances, TLAPS proves the central theorems for every value of the constants. `PROJECT.json` maps
every definition to the lines it models.

## 1. The system

| Component | State | Operations | Talks to |
| --- | --- | --- | --- |
| `worker.rs` `WorkerHandle` | state, info, pid under three locks; admission semaphore; job channel (64); fatal channel; `done` and `force_stop` (one stored permit each) | `predict`, `shutdown`, `kill_now`, `mark_failed`, `state`, `info` | HTTP handlers, main, supervision task |
| `worker.rs` supervision task | outcome of the session, job in flight, next id, inference deadline, startup deadline, ready one-shot | `supervise`, `run_session`, `run_session_inner`, `shutdown_child` | the child over two pipes and signals; callers over one-shots |
| `worker.rs` `read_frame_buffered` | buffered reader, frame buffer that survives a dropped read | one frame per call, under a cap | session |
| `python/worker.py` | resident model, request at hand | load, memory budget, warm-up, ready frame, `serve` | stdin, stdout, stderr |
| `main.rs`, `lib.rs` | position in startup, service and shutdown; watcher task; scheduled exit | startup select, attach, fail-fast watcher, signal handling, drain, exit code | handle, HTTP server, signals |
| `api.rs` | `AppSlot`: worker slot and readiness, each under its lock | `readyz`, `predict`, `systemone`, `models`, `healthz`, validation, error mapping | handle |
| `config.rs` | none after start | parse and validate options, build the worker's command line and environment | all |
| `scripts/service.sh` | the plist and its temporary file; launchd's job under the label | install, uninstall, status, plist | launchctl, the file system |
| `scripts/setup.sh`, `smoke.sh`, CI | files | linear scripts | - |

What is hard about it:

* **Concurrency.** Callers, the supervision task, main, the watcher and HTTP handlers share the
  handle. Each lock is held for one assignment, so every pair of assignments can be interleaved:
  the handshake is three of them, `mark_failed` is four, `readyz` is three reads.
* **Cancellation.** A caller may go away at any await, with its permit. Any branch of the session's
  `select!` drops the others at their await, the frame reader included.
* **One-permit notifications.** `done` and `force_stop` are single stored permits with several
  possible waiters, and the startup future may be dropped in the middle of its own `shutdown()`.
* **Failure.** The child can die, hang, flood, answer twice, late or under another id, idle or busy,
  before or after the handshake. Each must end the session, and the order of what is published
  (state, kill, metadata, pid, fatal message, queue) matters to those who watch.
* **Termination.** Every path to the exit must leave no child behind, also `process::exit`, which
  runs no destructor, and a `main` that gives up waiting.
* **Two programs, two languages.** A budget is read by clap, by Rust's `parse`, by `int()` and again by
  argparse; a question is validated by the daemon and by the worker; a number is longer in the frame
  than in the body it came in. Wherever the second program is stricter, the first must not let through
  what costs the model.
* **Scripts and launchd.** `service.sh` checks, writes and unloads in separate steps, may be interrupted
  between them, and shares its label with other worktrees; launchd starts a new daemon while the old one
  may still hold the port.

What makes each part correct:

* handle and supervisor: an answer goes to the request it belongs to; every caller is answered once;
  nobody is queued behind a dying worker; the loss is visible before it is announced; the child is
  reaped or killed; shutdown completes.
* frame reader: the frames are the lines of the stream however it is cut, under the cap.
* daemon: exit codes that mean what launchd takes them for; no orphan; readiness that is not stale.
* launch: what the daemon accepted is what the worker runs under; the two limits agree with each other
  and with the documented ceiling; no text that cannot be read ever lifts the cap.
* exchange: no content of a request costs the worker; the error a caller is told and the loss of the
  session go together; the shape of a Jev answer depends on the request only.
* service script: files of others are kept; whatever was interrupted can be run again; a loaded job comes
  to serve and an unloaded one leaves.

## 2. Modules

| Module | Models |
| --- | --- |
| `Resident` | the abstract promise of `worker.rs`: one model, loaded once, each call decided once, with its own result and only while the model serves |
| `Supervisor` | `worker.rs` in detail: callers, supervision task, owner (startup future, `shutdown`, `kill_now`), child |
| `SupervisorInv` | the inductive invariant, in named parts, and what `InSync` needs besides |
| `SupervisorProofs`, `SupervisorRefinement` | its proof, the safety theorems, and `Spec => ImplementsResident` |
| `SupervisorInSync` | `InSync`, with a worker that sends no frame of its own accord |
| `LineStream` | the abstract reader: a stream is the sequence of its lines |
| `FrameReader`, `FrameReaderProofs` | `read_frame_buffered` in the `select!` that may drop it; proof that it implements `LineStream` |
| `Daemon` | `main.rs`, `lib.rs` and the stateful part of `api.rs`, composed with `Supervisor` |
| `DaemonInv`, `DaemonProofs` | its inductive invariant; four safety properties, and that the whole daemon still implements `Resident` |
| `Config` | pure operators: `config.rs`, and the command line and environment that `worker.rs` gives the worker |
| `Launch` | from the command line to a serving worker: `main`, then `parse_args`, `load`, `apply_memory_budget`, `warmup` and the ready frame of `worker.py`, then `parse_ready`; extends `Config` |
| `LaunchProofs` | its invariant and six properties for every value of the constants |
| `Exchange` | the content of one request: validation and replies of `api.rs`, frames of `worker.rs`, validation and loop of `worker.py`; with the invariant that its properties rest on |
| `ExchangeProofs` | that invariant and four properties |
| `Service` | `service.sh`, launchd and the daemons it starts |
| `ServiceProofs` | what a step of the script knows from the steps before it, as an invariant; its type and four safety properties |
| `MCSupervisor`, `MCFrameReader`, `MCDaemon`, `MCLaunch`, `MCExchange`, `MCService` | instances for TLC |

### Resident

`life` is the model's: starting, serving, over; `verdict[r]` is what became of a call. A call may be refused
at any time, also before the model serves: at the limit of permits, by the state check, or by the
router while no handle is attached. A result may only be given while the model serves, and a verdict
never changes.

### Supervisor

`sup` is the program counter of the supervision task; each value is an await, or a place between two
lock acquisitions: `top` (the head of the loop), `idle` (the first `select!`), `announce` and
`inform` (the handshake between its locks), `check`, `write`, `wait` (a request in flight),
`publish`, `closing`, `term`, `kill9` (the two waits of `shutdown_child`), `mark`, `clear`, `report`
(`mark_failed`), `drain`, `drop`, `end`. `owner` is the program counter of the future main awaits, `phase[r]`
that of a call to `predict`. The job channel is `queue`; a one-shot's content is `reply[r]`, and a
caller reads it in a step of its own. A dropped one-shot is what `predict` makes of it:
`shutting_down`. `issued` records which job got which id, so `next_id = Len(issued)`. A frame is
a kind, an id and the payload it answers; `Frames` lists the kinds that `parse_ready` and
`parse_reply` distinguish, and everything they reject is `garbage`. A frame the worker sends for an
oversized or unreadable request carries no id and a fatal flag: for the supervisor that is a
restart like `fatal`.

`Faults` says what a worker may do wrong. With `Faults = {}` it is `worker.py` (it may still reject,
fail fatally and leave); the others are what the fake worker of the tests does, and a replay of old
replies. `closes` is an output that ends, or cannot be read, while the process lives: `OutputEnds` is
when the session may read the end.

Simplifications, each of which only adds behaviours or only merges steps that nothing observes in
between: time is not modelled, so every armed deadline may pass in any state; `mark_failed`'s clearing
of the metadata and of the pid is one step; the reasons carried by errors are dropped. The two
`child.wait()` of `shutdown_child` do not fail (`worker.rs:1117`, `1128`): where they did, the task would
end early, and `kill_on_drop` send the SIGKILL that the model has as a step. Never taken in
the code, and so absent: the closed channel at line 605 (the handle held by the task keeps a sender),
a handshake read while a request waits (779-797) and a reply to no request (798) - `HandshakeFirst` is
the reason for both - and `State::Pending`, which nothing constructs.

### FrameReader

`pipe`, `available` and `buf` are what was written, what the buffered reader holds, and
`frame_buffer`. `FillBuf` may read any prefix of the pipe; `Dropped` is the only await at which a read
can be abandoned. Bytes are ordinary (`x`), newline, carriage return, or not UTF-8 (`bad`).
`LineStream` is instantiated with `rest <- buf \o available \o pipe`. A read of the pipe that fails
(`worker.rs:1009`) has no step here: it ends the session, as `closes` does in `Supervisor`.

### Daemon

`Daemon` EXTENDS `Supervisor` and runs its steps while the process lives. `main` stands between the
awaits of `main()`; the watcher is `waiting`, `told`, at the lock of `kill_now` (`kill`), or ended; `fuse` is
the exit scheduled by `schedule_fail_fast`. A probe of `/readyz` reads the slot, the state and the
metadata in three steps. Leaving `main` drops the runtime, and `kill_on_drop` kills a child that a task
still owns; `FailFastExit` drops nothing. The watcher's wait inside `kill_now` has no step: it waits
only if a pid is recorded, which `FatalIsFinal` excludes, and a pid that were recorded would leave
`WatchSchedule` disabled and `LossEndsProcess` violated. A failure to bind the port ends the process
before anything is spawned and is left out, as is a signal that arrives before its handler is installed.
So is the arm of `main.rs:120` for a server that ended without an error: it ends on a signal only, which
the other arm takes.
When `Interrupt` drops a startup future inside `shutdown()`, the receiver of its null job goes with it;
the model keeps it until the owner stops, which matters only until the state is set again.

### Config and Launch

A text that should be a number is a record of its kind and its value; the kinds are those that some
reader treats differently: unset, empty, garbage, grouped with underscores (which Python reads and Rust
does not), number. `stage` is how far the launch has come, and names every way it can end. The daemon
gives the budget to the worker in the environment; `--python-env` is inserted over it and `--worker-arg`
comes last on the worker's command line, where the model has `--memory-mb` only: another device or
checkpoint given there is outside of `ReportsWhatWasAsked`. `grouped` stands too for a number that is too
large for `usize`, since Python reads it and Rust does not. `effective` is the ceiling that the log of
`apply_memory_budget` names, if it names one.

The inference stack is external: what the checkpoint holds, what a batch takes, and which of the
functions that the worker looks for are absent or raise (`Stacks`). Buffers that a batch gives back go to the
cache, which is trimmed to its limit then. `MiB` is a constant, so that sizes stay small for TLC.

### Exchange

One request at a time: `stage` follows it through the handler, the worker and back. A value is reduced
to what some check tells apart (`States`, `Criteria`, `Questions`), a body to its size and to whether it
grows when it is written again. `Outcomes` are what a call of the stack may come to: a result with some
of the keys of some of the questions, finite or not, too large or not; a `ValueError` or `KeyError`; any other exception; death; silence.
A request may be refused for a permit at any time, since in `Supervisor` others may hold them. A write
of the frame that fails, a timeout of it and a caller that leaves are in `Supervisor` only. The rejection of
a body that axum cannot read has the status 400 or 413 here. Frames that the daemon never
writes (`worker.py:386-400`: one that is no JSON or no object, another method) are absent.

### Service

`script` is the run of the script that is under way: its step, its command, its worktree. `plist`, `tmp`
and `job` say whose file or definition is there. `Interrupt` ends a run anywhere. Outsiders (a file
that is not managed, a job loaded from elsewhere, the operator's own `launchctl`) act between runs.
`daemon[p]` is a process: it binds the port, loads, serves and stops as `main` does, reduced to what
decides its exit code; `Daemon` has the rest.

External: launchd. As its stub in the tests has it, a job is unloaded by its label. The stub accepts a
load of a label that is loaded; the script never comes to one, and the model has none. As the plist's
keys have it, a job is started when loaded and started again unless it exited successfully. Assumed: one
run of the script at a time, outsiders between runs only (not between a check of the script and the
step it is for), nobody who removes the own plist by hand under its loaded job, and settings that the
daemon accepts.

## 3. Runs

| Run | Instance | Shows |
| --- | --- | --- |
| `faulty` | 3 callers, 2 permits, channel of 1, all faults | safety of the handle, `NotQueuedBehindDying`, the inductive invariant `Inv` (`TypeOK` is its first part), and that `Supervisor` implements `Resident` |
| `liveness` | 2 callers, 1 permit, channel of 1, crashes | `Answered`, `StopCompletes`, `DeathNoticed`, `LossReported`; `InSync` |
| `frame_reader` | all streams of up to 5 bytes, cap 3 | `LineStream` implemented, the cap, and that it ends |
| `daemon` | 1 caller, crashes and wrong ids, fail-fast | `NoOrphanAtExit`, `SuccessOnlyIfAsked`, `ReadyzKnowsLoss`, the inductive invariant `WholeInv` (`DaemonTypeOK` is a part of it), and that the daemon with all its exits implements `Resident` |
| `daemon_liveness` | no caller, crashes, fail-fast | a loss or a signal ends the process |
| `launch` | every text in every place, every pair of backend and device, every stack, with functions that report, are absent or raise | `IdleWithinBudget` (the budget or the logged value, exceeded by no more than the stack could not report), `LimitsAgree`, `UncappedOnlyIfAsked`, `BudgetAsValidated`, `ReportsWhatWasAsked` |
| `exchange` | every state, every question alone and beside another, bodies at and over the limits, every outcome | `LostToClockOrStack`, `ToldIffLost`, `LayersAgree`, `ShapeNeverDepends`; the inductive invariant `ExchangeInv` (`ExchangeTypeOK` is its first part). `MCExchange` assumes `LimitsFit`, so TLC evaluates it on the defaults |
| `service` | 2 worktrees, 2 processes, 2 failures (its type is a theorem) | `ForeignFilesKept`, `Manageable`, `RefusesForeignOnly`, `UninstalledIsGone`, `JobServes`, `UnloadedStops` |
| `shutdown_sticks`, `readyz_loading`, `never_unloads_unrelated`, `ceiling_unreported` | the instances above | the disagreements of section 6 |

Why the bounds are enough. Two callers are needed for one to receive what belongs to another, and a
third for the one that is refused at the limit of two permits. A channel of one is full as soon as one
job waits, so `Send` blocks and the null job of `shutdown()` is dropped; the code's 64 changes how often
this happens, not what happens. With one permit two callers still meet in the channel, because a caller
that goes away frees its permit and leaves its job. `PipeCap = 1` bounds only the stray output a worker leaves unread: a
second unread stray frame is never looked at, because the first ends the session. A stream of five
bytes with a cap of three holds lines under, at and over the cap, lines with and without carriage
return, an unterminated end, and every way to cut them. In `daemon_liveness` the callers are left out
because none of main's waits is for a caller; a client that never finishes its request is `stalled`.
`launch` has numbers below, at and above each bound (negative, 0, 511, 512, and budgets that do and do
not fit the checkpoint) and varies one place of the command line at a time, with the pairs that
override each other; `LaunchProofs` has all of them at once. `exchange` has the sizes of the defaults
(1 MiB, 4 MiB) and bodies at the limit, one over it and twice it. Two worktrees are enough for a foreign
file and a foreign job; two processes for a daemon that still stops and the next that cannot bind.

Fairness. `FairSpec` assumes that the runtime polls a ready task (`WF` of the supervision task, of
the owner, of a caller past its check), that the owner's timers fire, and that a process which was
sent SIGKILL or returns from `main` exits. Strong fairness is assumed where a branch of the idle
`select!` competes with the poll timer: tokio polls every branch before it sleeps, so a job, an
exit or a frame that stays ready is not passed over forever; and of `Send`, since tokio's channel
serves blocked senders in order. Nothing is assumed of the child, of callers going away or of
signals. `FairDaemonSpec` adds main, the watcher and the scheduled exit. `FairServiceSpec` assumes that launchd starts
what it means to start and that a daemon goes on from step to step; nothing is assumed of the script,
of signals or of failures, which `MaxFailures` bounds: a daemon that fails forever never serves.
`FrameReader`'s strong
fairness of `FillBuf` and `EndOfInput` says that a read which is dropped again and again is also, now
and then, not dropped: the session drops it at every poll interval only.

## 4. Proofs

**Supervisor.** `Spec => []Inv`, with `Inv` of `SupervisorInv`. The safety properties are not inductive:

* `OwnAnswer` needs `FramesMatchIds`: every frame in the pipes carries the payload issued under its id,
  and none bears an id not issued yet. A replay is then always of an older id, and `Matches` refuses it.
* `NoneStranded` needs `WaitingHeld` (a caller without an answer is queued or in hand) and
  `QueueEmptied`.
* `NoOrphan` and `FatalIsFinal` need `ChildAccounted`, `OutcomeDecided` and `FatalLast`: what is known of
  the child and of the published state at each point of the cleanup.
* `HandshakeFirst` needs `OnlyPokeBeforeReady`: before the handshake only the null job can be queued, and
  then the handle says `ShuttingDown` - except while the handshake overwrites it. It is stated of the
  state, the queue and the job in hand rather than of the owner alone, because a signal may take the
  owner out of its `shutdown()` (`Interrupt`) and leave the job it queued behind.
* The refinement needs `HeldOnce`: a job is held in one place and not answered yet, so no verdict is
  overwritten.

`SupervisorProofs` shows the invariant action by action, one lemma per part; each safety property is a
corollary. `SupervisorRefinement` maps `life` and `verdict` and shows that every step is a step of
`Resident` or a stutter. Assumptions: `Requests` is finite and apart from `Poke`, `NoJob` and the names
of errors; the permits, channel and pipe bounds are natural numbers; `Faults` is any set of the kinds.

**InSync.** `NoStrays => (Spec => []InSync)`: if the worker sends no frame of its own accord (no garbage, no flood, no
replay), no reply is outstanding or unread while the session is idle, whatever else the worker does: crash, hang,
answer under a wrong id or with an odd error. The hypothesis is a choice of
`Faults`, and the `liveness` run makes it; with a stray frame in the pipe the property is false, and the
session ends instead. `PipesInSync` is the invariant: before the handshake the worker has sent nothing
that could be a reply, after it the pipes are empty outside a wait, and at no time do they hold more
than one frame. It is inductive only beside `Inv`, whose `OnlyPokeBeforeReady` excludes a job that is written to
a worker still loading.

**Daemon.** `DaemonSpec => []WholeInv`, under the assumptions of `Supervisor` alone and for either value of `FailFast`.
`WholeInv` has the handle's `Inv` as its first
part: nothing in `main` may break it, which is not obvious of `Interrupt`, which drops the startup future at any of
its awaits and begins the shutdown again, of `LeaveMain`, which drops the supervision task wherever it stands and
kills the child that it still owns, and of `TooEarly`, a call refused while no handle is attached. The other parts
relate `main` to the handle: `MainOwns` says which future `main` awaits at each of its places, and that a startup
which did not succeed was never told `ready`; `SignalRemembered`, that `main` is on its way to a successful exit only
after a signal; `WatchedFatal`, that the watcher acts, and the exit is scheduled, only after the report of the loss, so that
by `FatalLast` and `ChildAccounted` the child is gone by then, which is `NoOrphanAtExit` on the exit that runs no destructors; `LossSeen`,
that a probe which began after the report has not read a state that was ready. From it follow `NoOrphanAtExit`,
`SuccessOnlyIfAsked` and `ReadyzKnowsLoss`, and that what is proved of the handle alone holds inside the daemon too
(`HandleSafeInDaemon`, `NotQueuedInDaemon`, `InSyncInDaemon`). `DaemonRefinement` carries the refinement
of `Resident` over to the whole daemon: a step of the handle is one by `RefinementNext` of
`SupervisorRefinement`, `TooEarly` is a refusal, and each other step of `main`, the watcher, the probe or
the runtime, the dropped startup and the dropped task included, is a stutter.

**Exchange.** `ExchangeSpec => []ExchangeInv` for any set of well-formed bodies, any limits and any outcomes. `PassedOn` says that
a request past the handler was found valid, under the body's limit, and waits for a session that is not given up;
`ReplyKnown`, that a reply is one of five frames, each with the reason it was written for. `ToldIffLost` needs both: that each of
the five carries its fatal flag exactly if its code is told as a loss, and that a request is never waited for after
the session ended. `LayersAgree` is the lemma `ValidatorsAgree` about the two validators - whatever the first accepts the second
accepts, but for a text of separators - brought to the worker by `PassedOn`. `LostToClockOrStack` is proved under
`LimitsFit` (`64 + (MaxBody * 19) \div 5 <= MaxInput`), which the limits by default satisfy and a larger `--max-body-bytes` need
not; without it it is false. `ShapeNeverDepends` needs `AnswerKnown` only: a 200 is built from the request that was posted.

**FrameReader.** `Spec => []TypeOK`, `Spec => []Bounded` and `Spec => ReadsLines`, for any cap and any set of
streams. The invariant adds that a read is in progress only before the end; `Bounded` (the buffer holds no
newline) is what makes the first line of `buf \o available \o pipe` end where `Consume` cuts it.
The lemmas about sequences (`LineAcrossPieces`, `LineNotBefore`, `Piece`) are stated once.

**Launch.** `LaunchSpec => []LaunchInv` for any set of command lines, any sizes and any stack, and from it
the five properties of the run. They are not inductive: `LimitsAgree` needs that the limits and the logged
ceiling are unset until one step sets them from the same measurement (`LimitsSet`); `IdleWithinBudget` needs
also that what is in the cache was
cleared or trimmed (`CacheTrimmed`), which is why `AtRest` leaves out the time between a load that leaves
buffers behind, with a stack that has no `clear_cache`, and the first batch. It holds of every stack, also
of one without a working counter: the process then exceeds the ceiling by at most the checkpoint that was
not measured, and `CeilingCoversProcess`, the ceiling as the documentation has it, is false (section 6).
`CeilingKeptIfReported` says when it is true: `CeilingCoversProcess` holds in every state in which the
stack's counter reports. `BudgetAsValidated` and
`UncappedOnlyIfAsked` need that the worker's arguments are those of the accepted command line (`BudgetRead`,
`Accepted`). `LimitsDiffer` is the arithmetic: the two maxima differ by what is in use. Assumptions: the
command lines are well-formed, a mebibyte and a batch are not empty. `LaunchTypeOK` is stated by the
proof only.

**Service.** `ServiceSpec => []ServiceInv` for any set of worktrees and processes and any number of failures. `Manageable`
is not inductive: a step rewrites or removes the file that a loaded job rests on. `Checked` says what each
step of a run knows from the steps before it - the file is ours or there is none, the job is gone before
the file is removed - and that no step of launchd's or of an outsider's takes it away while the run lasts.
`ForeignFilesKept` needs it at `Move` and `Remove`, `UninstalledIsGone` at `Remove` and `RefusesForeignOnly`
at the two checks, the last two with `Underway`: a run's end is not left over from the run before. Assumptions: the worktrees are
none of the three other names, a process number is a natural number and not 0.

**Only model-checked:** liveness, since TLAPS treats neither fairness nor ENABLED: `Answered`, `StopCompletes`,
`DeathNoticed`, `LossReported`, `LossEndsProcess`, `SignalEndsProcess`, `AllTold`, `JobServes`, `UnloadedStops`. Every
invariant and every action property of a passing run is stated by a theorem, and both refinements of `Resident` and that
of `LineStream` are proved.

## 5. What is not modelled

* Time (only its order), so that a stop can take several graces is not visible.
* The texts of errors and results, `healthz`, `models` and the fallback routes, which answer constants.
* Options that the code carries through without looking at them: paths, model id, log filter, timeouts.
* `service.sh status` and `plist`, which change nothing; the checks for macOS and for the binaries.
* Two runs of `service.sh` at once. They share `$PLIST.tmp` and check before they act without a lock.
* A daemon whose settings it refuses, under launchd: the script checks less than `validate()` (no bind address,
  no floor for the budget, no pair of backend and device), so it may report success for a
  daemon that always exits with 2 and is started again without end.
* The worker of a daemon killed by SIGKILL (`Service` has the kill, `Daemon` has not). It leaves at the end of its input, after the call it is in, of
  whose length nothing is assumed.
* `setup.sh`, `smoke.sh` and the CI workflow: linear scripts of input and output.

## 6. Disagreements met

1. **A shutdown can be undone by the handshake** (`shutdown_sticks`, `worker.rs:646`). If `shutdown()` sets
   `ShuttingDown` after the session looked at the state and before it announces the ready frame it just
   read, `Ready` overwrites it. The session then takes the null job for a request and may wait for its
   reply, and the stop ends only when the grace does, by `kill_now`. `StopCompletes` still holds; its mutant
   without the kill shows why it is needed.
2. **A lost worker can be reported as loading** (`readyz_loading`, `api.rs:151`). The state and the metadata
   are read under two locks.
3. **service.sh may unload a job that is not its own** (`never_unloads_unrelated`, `service.sh:181`, `206`). The owner
   is read from the file, the unload goes by the label: with the own plist on disk and not loaded, a
   job that was loaded from elsewhere under the label is unloaded.
4. **The ceiling does not cover a checkpoint that cannot be measured** (`ceiling_unreported`,
   `worker.py:242`). With a stack whose `get_active_memory` is absent or raises, the checkpoint counts for 0:
   a budget that it does not fit is neither raised nor logged, and the idle process stands over it by
   what the checkpoint holds. `README.md:44` and `67-69` promise a ceiling on the whole process, raised to
   fit with the effective value logged.

Noticed on the way, without a run:

* The table of errors of `README.md:380` names the code of a 504 `timeout` and has no 502. `kind()` gives
  `inference_timeout` (`worker.rs:66`), and a failed worker is answered 502 (`api.rs:445`).
* An error of an unknown code without `fatal` is told as `worker_failed`, a class that `invalidates_worker`
  calls untrustworthy, while the session goes on (`worker.rs:838`). `worker.py` marks all such errors
  fatal, so that with it the two agree (`ToldIffLost`); another worker need not.
* `python/worker.py --memory-mb -5`, through `--worker-arg`, is taken for no cap, while the same in the
  environment is refused: the flag is an `int`, the variable goes through `_memory_budget_mb`.
* `config.rs:338` says that a worker would refuse to start with a small budget; it raises the floor and
  logs it. `config.rs:387` gives every local checkpoint a directory; English is at the root.
* A text of the separators U+001C to U+001F passes `trim()` and not `strip()`: the worker refuses it, with
  the same answer (`LayersAgree`).
* `LostToClockOrStack` rests on the defaults: 1 MiB of body grows at most 3.8 times, to less than the worker's
  4 MiB. A larger `--max-body-bytes` lets a body through whose frame ends the session.

## 7. Plan

Done: `Resident`, `Supervisor` with its proofs and refinement, `FrameReader` with its proofs, `Daemon`,
`Config` and `Launch`, `Exchange`, `Service`, each with its proofs.

1. `Killed`, the SIGKILL of the daemon, in `Daemon`, with the worker it leaves behind.
2. A refinement of the timed behaviour: how many graces a stop may take.
