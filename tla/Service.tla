-------------------------------- MODULE Service --------------------------------
(***************************************************************************)
(* scripts/service.sh over launchd, and the daemons that launchd starts:   *)
(* one label, one plist path, several worktrees that each have a copy of   *)
(* the script.  The script is run by hand, one run at a time, and may be   *)
(* interrupted between any two of its steps.                               *)
(*                                                                         *)
(* External: launchd, as the test's stub and the keys RunAtLoad and        *)
(* KeepAlive of the plist have it - a loaded job is started, and started   *)
(* again unless it exits successfully; unload takes the job by its label   *)
(* and sends SIGTERM.  The stub lets a load of a loaded label succeed; the *)
(* script never comes to one, since it has unloaded the label before.      *)
(***************************************************************************)
EXTENDS Naturals

CONSTANTS
    Trees,        \* the worktrees, each with a runtime home of its own
    Pids,         \* the processes that may exist at once
    MaxFailures   \* bound on how often a daemon fails

ASSUME ServiceAssumption ==
    /\ Trees \cap {"none", "unmanaged", "elsewhere"} = {}
    /\ Pids \subseteq Nat \ {0} /\ MaxFailures \in Nat

VARIABLES
    plist,      \* whose file stands at $PLIST
    tmp,        \* whose file stands at $PLIST.tmp
    job,        \* whose definition launchd has under the label
    script,     \* the run of the script: its place, its command, its worktree
    wanted,     \* launchd means to start the job's process
    current,    \* the job's process, 0 if there is none
    daemon,     \* each process: its place in main, whether it got SIGTERM
    failures

files == <<plist, tmp>>
launchd == <<wanted, current, daemon, failures>>
serviceVars == <<plist, tmp, job, script, launchd>>

Points == {"idle", "check", "check_job", "render", "move", "unload", "check_unloaded", "load",
           "remove"}
Ends   == {"none", "ok", "refused", "failed"}

ServiceTypeOK ==
    /\ plist \in Trees \cup {"none", "unmanaged"}
    /\ tmp \in Trees \cup {"none"}
    /\ job \in Trees \cup {"none", "elsewhere"}
    /\ script \in [at : Points, command : {"install", "uninstall"}, tree : Trees, end : Ends]
    /\ wanted \in BOOLEAN /\ current \in Pids \cup {0}
    /\ daemon \in [Pids -> [at : {"none", "binding", "loading", "serving", "stopping"},
                            told : BOOLEAN]]
    /\ failures \in 0..MaxFailures

NoProcess == [at |-> "none", told |-> FALSE]

ServiceInit ==
    /\ plist \in {"none", "unmanaged"} /\ tmp = "none" /\ job = "none"
    /\ script \in [at : {"idle"}, command : {"install"}, tree : Trees, end : {"none"}]
    /\ wanted = FALSE /\ current = 0
    /\ daemon = [p \in Pids |-> NoProcess]
    /\ failures = 0

-------------------------------------------------------------------------------
(* The script                                                              *)

IsLoaded == job # "none"

\* Mutant of IsOurs: the marker is enough.
IsOursByMarker == plist \in Trees

\* The marker and the digest of this worktree's home.
IsOurs == plist = script.tree

To(point)   == script' = [script EXCEPT !.at = point]
Leave(end)  == script' = [script EXCEPT !.at = "idle", !.end = end]

Run ==
    /\ script.at = "idle"
    /\ \E c \in {"install", "uninstall"}, t \in Trees :
          script' = [at |-> "check", command |-> c, tree |-> t, end |-> "none"]
    /\ UNCHANGED <<files, job, launchd>>

\* Mutant of CheckFile: the file goes before the job does.
CheckFileRemoves ==
    /\ script.at = "check"
    /\ \/ plist # "none" /\ ~IsOurs /\ Leave("refused") /\ UNCHANGED plist
       \/ script.command = "install" /\ (plist = "none" \/ IsOurs) /\ To("check_job")
          /\ UNCHANGED plist
       \/ script.command = "uninstall" /\ plist = "none" /\ Leave("ok") /\ UNCHANGED plist
       \/ script.command = "uninstall" /\ IsOurs /\ To("unload") /\ plist' = "none"
    /\ UNCHANGED <<tmp, job, launchd>>

\* A file at the path that is not ours is refused; without one there is nothing to remove.
CheckFile ==
    /\ script.at = "check"
    /\ \/ plist # "none" /\ ~IsOurs /\ Leave("refused")
       \/ script.command = "install" /\ (plist = "none" \/ IsOurs) /\ To("check_job")
       \/ script.command = "uninstall" /\ plist = "none" /\ Leave("ok")
       \/ script.command = "uninstall" /\ plist # "none" /\ IsOurs /\ To("unload")
    /\ UNCHANGED <<files, job, launchd>>

\* Mutant of CheckJob: a loaded job is always another's.
CheckJobAny ==
    /\ script.at = "check_job"
    /\ IF IsLoaded THEN Leave("refused") ELSE To("render")
    /\ UNCHANGED <<files, job, launchd>>

CheckJob ==
    /\ script.at = "check_job"
    /\ IF plist = "none" /\ IsLoaded THEN Leave("refused") ELSE To("render")
    /\ UNCHANGED <<files, job, launchd>>

Render ==
    /\ script.at = "render" /\ To("move")
    /\ tmp' = script.tree
    /\ UNCHANGED <<plist, job, launchd>>

Move ==
    /\ script.at = "move" /\ To("unload")
    /\ plist' = tmp /\ tmp' = "none"
    /\ UNCHANGED <<job, launchd>>

\* What launchd does for unload: by label, whatever file the job was loaded from.
Unloaded ==
    /\ job' = "none" /\ wanted' = FALSE /\ current' = 0
    /\ daemon' = IF current = 0 THEN daemon ELSE [daemon EXCEPT ![current].told = TRUE]
    /\ UNCHANGED failures

\* launchctl unload fails when nothing is loaded, and may fail otherwise.  install goes on
\* whatever it says; uninstall looks again.
Unload ==
    /\ script.at = "unload"
    /\ \/ IsLoaded /\ Unloaded
          /\ To(IF script.command = "install" THEN "load" ELSE "remove")
       \/ To(IF script.command = "install" THEN "load" ELSE "check_unloaded")
          /\ UNCHANGED <<job, launchd>>
    /\ UNCHANGED files

\* Mutant of CheckUnloaded: a failed unload is tolerated, as install does.
CheckUnloadedNot ==
    /\ script.at = "check_unloaded" /\ To("remove")
    /\ UNCHANGED <<files, job, launchd>>

CheckUnloaded ==
    /\ script.at = "check_unloaded"
    /\ IF IsLoaded THEN Leave("failed") ELSE To("remove")
    /\ UNCHANGED <<files, job, launchd>>

Remove ==
    /\ script.at = "remove" /\ Leave("ok")
    /\ plist' = "none"
    /\ UNCHANGED <<tmp, job, launchd>>

\* What launchd does for load: RunAtLoad.
Loaded ==
    /\ job' = plist /\ wanted' = TRUE /\ current' = 0
    /\ UNCHANGED <<daemon, failures>>

Load ==
    /\ script.at = "load"
    /\ \/ ~IsLoaded /\ Loaded /\ Leave("ok")
       \/ Leave("failed") /\ UNCHANGED <<job, launchd>>
    /\ UNCHANGED files

\* The operator interrupts the script, or the shell dies.
Interrupt ==
    /\ script.at # "idle" /\ Leave("none")
    /\ UNCHANGED <<files, job, launchd>>

ScriptStep == \/ Run \/ CheckFile \/ CheckJob \/ Render \/ Move \/ Unload \/ CheckUnloaded
              \/ Remove \/ Load \/ Interrupt

-------------------------------------------------------------------------------
(* Others at the same label: the operator's own launchctl on the plist, an  *)
(* unmanaged file, and a job that was loaded from somewhere else            *)

ByHand ==
    /\ script.at = "idle"
    /\ \/ IsLoaded /\ Unloaded
       \/ ~IsLoaded /\ plist \in Trees /\ Loaded
    /\ UNCHANGED <<files, script>>

Outsider ==
    /\ \/ plist = "none" /\ plist' = "unmanaged" /\ UNCHANGED job
       \/ plist = "unmanaged" /\ plist' = "none" /\ UNCHANGED job
       \/ ~IsLoaded /\ job' = "elsewhere" /\ UNCHANGED plist
       \/ job = "elsewhere" /\ job' = "none" /\ UNCHANGED plist
    /\ script.at = "idle"
    /\ UNCHANGED <<tmp, script, launchd>>

-------------------------------------------------------------------------------
(* launchd and its processes                                               *)

Start(p) ==
    /\ wanted /\ current = 0 /\ daemon[p].at = "none"
    /\ wanted' = FALSE /\ current' = p
    /\ daemon' = [daemon EXCEPT ![p] = [at |-> "binding", told |-> FALSE]]
    /\ UNCHANGED <<files, job, script, failures>>

HoldsPort(p) == daemon[p].at \in {"loading", "serving"}

\* The process exits, and launchd starts the job again unless it exited successfully.
Exits(p, success) ==
    /\ daemon' = [daemon EXCEPT ![p] = NoProcess]
    /\ current' = IF current = p THEN 0 ELSE current
    /\ wanted' = IF current = p THEN ~success ELSE wanted

At(p, point) == /\ daemon' = [daemon EXCEPT ![p].at = point]
                /\ UNCHANGED <<wanted, current>>

\* Mutant of CannotBind: a port that is taken is no failure.
CannotBindQuietly(p) == Exits(p, TRUE)

CannotBind(p) == Exits(p, FALSE)

\* main binds the port before anything else; a signal before its handler is there is fatal.
Bind(p) ==
    /\ daemon[p].at = "binding"
    /\ \/ daemon[p].told /\ Exits(p, FALSE)
       \/ ~daemon[p].told /\ (\E q \in Pids : HoldsPort(q)) /\ CannotBind(p)
       \/ ~daemon[p].told /\ (\A q \in Pids : ~HoldsPort(q)) /\ At(p, "loading")
    /\ UNCHANGED <<files, job, script, failures>>

Serve(p) ==
    /\ daemon[p].at = "loading" /\ ~daemon[p].told
    /\ At(p, "serving")
    /\ UNCHANGED <<files, job, script, failures>>

\* The worker cannot be loaded or is lost, or the process itself is killed.
Fail(p) ==
    /\ daemon[p].at # "none" /\ failures < MaxFailures
    /\ failures' = failures + 1
    /\ Exits(p, FALSE)
    /\ UNCHANGED <<files, job, script>>

\* A signal of the operator's.
Terminate(p) ==
    /\ daemon[p].at \in {"loading", "serving"} /\ ~daemon[p].told
    /\ daemon' = [daemon EXCEPT ![p].told = TRUE]
    /\ UNCHANGED <<files, job, script, wanted, current, failures>>

\* Mutant of Stop: the signal is not heard while the worker loads.
StopServing(p) ==
    /\ daemon[p].at = "serving" /\ daemon[p].told
    /\ At(p, "stopping")
    /\ UNCHANGED <<files, job, script, failures>>

\* The signal is seen: the listener is closed first, then the worker is stopped.
Stop(p) ==
    /\ daemon[p].at \in {"loading", "serving"} /\ daemon[p].told
    /\ At(p, "stopping")
    /\ UNCHANGED <<files, job, script, failures>>

Exit(p) ==
    /\ daemon[p].at = "stopping"
    /\ Exits(p, TRUE)
    /\ UNCHANGED <<files, job, script, failures>>

DaemonStep(p) == Bind(p) \/ Serve(p) \/ Stop(p) \/ Exit(p)

ServiceNext ==
    \/ ScriptStep \/ ByHand \/ Outsider
    \/ \E p \in Pids : Start(p) \/ DaemonStep(p) \/ Fail(p) \/ Terminate(p)

ServiceSpec == ServiceInit /\ [][ServiceNext]_serviceVars

\* launchd starts what it means to start, and a process of the daemon's goes on.
FairServiceSpec ==
    /\ ServiceSpec
    /\ WF_serviceVars(\E p \in Pids : Start(p))
    /\ \A p \in Pids : WF_serviceVars(DaemonStep(p))

-------------------------------------------------------------------------------
(* Properties                                                              *)

\* No run of the script, interrupted or not, changes a file at the path that is not of its
\* own worktree: "It never touches plists it does not own".
ForeignFilesKept ==
    [][script.at # "idle" /\ plist \notin {"none", script.tree} => plist' = plist]_serviceVars

\* A loaded job of a worktree's always has that worktree's plist at the path, so that the
\* next run of its script finds it its own and can take it away.
Manageable == job \in Trees => plist = job

\* The script refuses only where it finds something of another's: no interruption leaves
\* its own files and its own job in a state that it takes for foreign.
RefusesForeignOnly ==
    [][script.at # "idle" /\ script'.end = "refused"
       => plist \notin {"none", script.tree} \/ job \notin {"none", script.tree}]_serviceVars

\* An uninstall that succeeds leaves neither a file nor a job of the worktree's.
UninstalledIsGone ==
    [][script.at # "idle" /\ script.command = "uninstall" /\ script'.end = "ok"
       => script.tree \notin {plist', job'}]_serviceVars

\* The process of a worktree's loaded job comes to serve, unless it is told to stop: also
\* when the job is loaded while the daemon before it still holds the port.
Due(t) == job = t /\ (wanted \/ current # 0)
ServesOrTold == current # 0 /\ (daemon[current].at = "serving" \/ daemon[current].told)
JobServes == \A t \in Trees : Due(t) ~> job # t \/ ServesOrTold

\* Once no job is loaded its daemons are gone, without anyone waiting for them.
UnloadedStops ==
    job = "none" ~> job # "none" \/ \A p \in Pids : daemon[p].at = "none"

\* "It never ... unloads unrelated services"; "Anything else at the same label is left
\* alone, loaded or not."
NeverUnloadsUnrelated ==
    [][script.at # "idle" /\ job = "elsewhere" => job' = "elsewhere"]_serviceVars
===============================================================================
