----------------------------- MODULE ServiceProofs ----------------------------
(***************************************************************************)
(* Proofs about Service, for any worktrees, processes and number of         *)
(* failures: wherever a run of the script is interrupted, what it leaves is *)
(* its own and can be taken away by the next run.                           *)
(***************************************************************************)
EXTENDS Service, TLAPS

-------------------------------------------------------------------------------
(* The inductive invariant                                                 *)

\* A run has not ended while it is under way.
Underway == script.at # "idle" => script.end = "none"

\* What each step of a run knows from the steps before it.
Checked ==
    /\ script.at \in {"check_job", "render", "move", "load"} => script.command = "install"
    /\ script.at \in {"check_unloaded", "remove"} => script.command = "uninstall"
    /\ script.at \in {"check_job", "render", "move"} => plist \in {"none", script.tree}
    /\ script.at \in {"render", "move"} => plist = script.tree \/ job = "none"
    /\ script.at = "move" => tmp = script.tree
    /\ script.at \in {"unload", "load", "check_unloaded", "remove"} => plist = script.tree
    /\ script.at = "remove" => job = "none"

ServiceInv == ServiceTypeOK /\ Underway /\ Checked /\ Manageable

Scripts == [at : Points, command : {"install", "uninstall"}, tree : Trees, end : Ends]
Daemons == [at : {"none", "binding", "loading", "serving", "stopping"}, told : BOOLEAN]

-------------------------------------------------------------------------------
(* Lemmas                                                                  *)

LEMMA NamesApart == "none" \notin Trees /\ "unmanaged" \notin Trees /\ "elsewhere" \notin Trees
BY ServiceAssumption

LEMMA ScriptTyped ==
    ASSUME script \in Scripts
    PROVE  /\ script.at \in Points /\ script.command \in {"install", "uninstall"}
           /\ script.tree \in Trees /\ script.end \in Ends
           /\ \A q \in Points : To(q) =>
                 /\ script' \in Scripts /\ script'.at = q /\ script'.command = script.command
                 /\ script'.tree = script.tree /\ script'.end = script.end
           /\ \A e \in Ends : Leave(e) =>
                 /\ script' \in Scripts /\ script'.at = "idle" /\ script'.command = script.command
                 /\ script'.tree = script.tree /\ script'.end = e
BY DEF Scripts, To, Leave, Points

\* The part of the type invariant that launchd and the processes change.
LaunchdOK == /\ wanted \in BOOLEAN /\ current \in Pids \cup {0}
             /\ daemon \in [Pids -> Daemons]
             /\ failures \in 0..MaxFailures

LEMMA TypeInParts ==
    ServiceTypeOK <=> /\ plist \in Trees \cup {"none", "unmanaged"}
                      /\ tmp \in Trees \cup {"none"}
                      /\ job \in Trees \cup {"none", "elsewhere"}
                      /\ script \in Scripts /\ LaunchdOK
BY DEF ServiceTypeOK, Scripts, LaunchdOK, Daemons

LEMMA NextInParts ==
    ASSUME plist' \in Trees \cup {"none", "unmanaged"}, tmp' \in Trees \cup {"none"},
           job' \in Trees \cup {"none", "elsewhere"}, script' \in Scripts, LaunchdOK'
    PROVE  ServiceTypeOK'
BY DEF ServiceTypeOK, Scripts, LaunchdOK, Daemons

LEMMA LaunchdSteps ==
    ASSUME LaunchdOK, Unloaded \/ Loaded \/ UNCHANGED launchd
    PROVE  LaunchdOK'
<1>1. CASE UNCHANGED launchd
  BY <1>1 DEF launchd, LaunchdOK
<1>2. CASE Loaded
  BY <1>2 DEF Loaded, LaunchdOK
<1>3. CASE Unloaded
  <2>1. daemon' \in [Pids -> Daemons]
    BY <1>3 DEF Unloaded, LaunchdOK, Daemons
  <2> QED
    BY <1>3, <2>1 DEF Unloaded, LaunchdOK
<1> QED
  BY <1>1, <1>2, <1>3

LEMMA ProcessSteps ==
    ASSUME LaunchdOK, NEW p \in Pids, Start(p) \/ DaemonStep(p) \/ Fail(p) \/ Terminate(p)
    PROVE  LaunchdOK' /\ UNCHANGED <<files, job, script>>
<1>1. ASSUME NEW b \in BOOLEAN, Exits(p, b)
      PROVE  /\ wanted' \in BOOLEAN /\ current' \in Pids \cup {0}
             /\ daemon' \in [Pids -> Daemons]
  <2>1. NoProcess \in Daemons
    BY DEF NoProcess, Daemons
  <2>2. daemon' \in [Pids -> Daemons]
    BY <1>1, <2>1 DEF Exits, LaunchdOK
  <2>3. current' \in Pids \cup {0}
    BY <1>1 DEF Exits, LaunchdOK
  <2>4. wanted' \in BOOLEAN
    BY <1>1 DEF Exits, LaunchdOK
  <2> QED
    BY <2>2, <2>3, <2>4
<1>2. ASSUME NEW q \in {"loading", "serving", "stopping"}, At(p, q)
      PROVE  /\ wanted' \in BOOLEAN /\ current' \in Pids \cup {0}
             /\ daemon' \in [Pids -> Daemons]
  BY <1>2 DEF At, LaunchdOK, Daemons
<1>3. CASE Start(p)
  BY <1>3 DEF Start, LaunchdOK, Daemons
<1>4. CASE Bind(p)
  BY <1>4, <1>1, <1>2 DEF Bind, CannotBind, LaunchdOK
<1>5. CASE Serve(p)
  BY <1>5, <1>2 DEF Serve, LaunchdOK
<1>6. CASE Stop(p)
  BY <1>6, <1>2 DEF Stop, LaunchdOK
<1>7. CASE Exit(p)
  BY <1>7, <1>1 DEF Exit, LaunchdOK
<1>8. CASE Fail(p)
  <2>1. failures' \in 0..MaxFailures
    BY <1>8, ServiceAssumption DEF Fail, LaunchdOK
  <2> QED
    BY <1>8, <1>1, <2>1 DEF Fail, LaunchdOK
<1>9. CASE Terminate(p)
  BY <1>9 DEF Terminate, LaunchdOK, Daemons
<1> QED
  BY <1>3, <1>4, <1>5, <1>6, <1>7, <1>8, <1>9 DEF DaemonStep

-------------------------------------------------------------------------------
(* The invariant holds                                                     *)

LEMMA ServiceInitInv == ServiceInit => ServiceInv
<1> SUFFICES ASSUME ServiceInit PROVE ServiceInv
  OBVIOUS
<1>1. script \in Scripts /\ script.at = "idle"
  BY DEF ServiceInit, Scripts, Points, Ends
<1>2. LaunchdOK
  <2>1. NoProcess \in Daemons
    BY DEF NoProcess, Daemons
  <2>2. wanted \in BOOLEAN
    BY DEF ServiceInit
  <2> QED
    BY <2>1, <2>2, ServiceAssumption DEF ServiceInit, LaunchdOK
<1>3. ServiceTypeOK
  BY <1>1, <1>2, TypeInParts DEF ServiceInit
<1> QED
  BY <1>1, <1>3, NamesApart DEF ServiceInv, ServiceInit, Underway, Checked, Manageable

LEMMA RunKeeps == ServiceInv /\ Run => ServiceInv'
<1> SUFFICES ASSUME ServiceInv, Run PROVE ServiceInv'
  OBVIOUS
<1>1. /\ script' \in Scripts /\ script'.at = "check" /\ script'.end = "none"
      /\ UNCHANGED <<files, job, launchd>>
  BY DEF Run, Scripts, Points, Ends
<1>2. ServiceTypeOK'
  BY <1>1, LaunchdSteps, TypeInParts, NextInParts DEF ServiceInv, files
<1> QED
  BY <1>1, <1>2 DEF ServiceInv, Underway, Checked, Manageable, files

\* Any step of a run that leaves files and job alone, and ends it or moves on to a point
\* whose facts hold.
LEMMA LookingKeeps ==
    ASSUME ServiceInv, UNCHANGED <<files, job, launchd>>,
           \/ \E e \in Ends : Leave(e)
           \/ \E q \in Points \ {"idle"} : To(q) /\ script.at # "idle" /\ Checked'
    PROVE  ServiceInv'
<1>1. script \in Scripts
  BY TypeInParts DEF ServiceInv
<1>2. script' \in Scripts /\ Underway' /\ Checked'
  BY <1>1, ScriptTyped DEF ServiceInv, Underway, Checked
<1>3. ServiceTypeOK'
  BY <1>2, LaunchdSteps, TypeInParts, NextInParts DEF ServiceInv, files
<1> QED
  BY <1>2, <1>3 DEF ServiceInv, Manageable, files

LEMMA CheckFileKeeps == ServiceInv /\ CheckFile => ServiceInv'
<1> SUFFICES ASSUME ServiceInv, CheckFile PROVE ServiceInv'
  OBVIOUS
<1>1. script \in Scripts
  BY TypeInParts DEF ServiceInv
<1>2. CASE Leave("refused") \/ Leave("ok")
  BY <1>2, LookingKeeps DEF CheckFile, Ends
<1>3. CASE To("check_job") /\ script.command = "install" /\ (plist = "none" \/ IsOurs)
  <2>1. Checked'
    BY <1>1, <1>3, ScriptTyped DEF CheckFile, Checked, IsOurs, files, Points
  <2> QED
    BY <1>3, <2>1, LookingKeeps DEF CheckFile, Points
<1>4. CASE To("unload") /\ IsOurs
  <2>1. Checked'
    BY <1>1, <1>4, ScriptTyped DEF CheckFile, Checked, IsOurs, files, Points
  <2> QED
    BY <1>4, <2>1, LookingKeeps DEF CheckFile, Points
<1> QED
  BY <1>2, <1>3, <1>4 DEF CheckFile

LEMMA CheckJobKeeps == ServiceInv /\ CheckJob => ServiceInv'
<1> SUFFICES ASSUME ServiceInv, CheckJob PROVE ServiceInv'
  OBVIOUS
<1>1. script \in Scripts
  BY TypeInParts DEF ServiceInv
<1>2. CASE Leave("refused")
  BY <1>2, LookingKeeps DEF CheckJob, Ends
<1>3. CASE To("render") /\ ~(plist = "none" /\ IsLoaded)
  <2>1. Checked'
    BY <1>1, <1>3, ScriptTyped DEF ServiceInv, CheckJob, Checked, IsLoaded, files, Points
  <2> QED
    BY <1>3, <2>1, LookingKeeps DEF CheckJob, Points
<1> QED
  BY <1>2, <1>3 DEF CheckJob

LEMMA RenderKeeps == ServiceInv /\ Render => ServiceInv'
<1> SUFFICES ASSUME ServiceInv, Render PROVE ServiceInv'
  OBVIOUS
<1>1. script \in Scripts
  BY TypeInParts DEF ServiceInv
<1>2. /\ script' \in Scripts /\ script'.at = "move" /\ script'.command = script.command
      /\ script'.tree = script.tree /\ script'.end = script.end /\ script.tree \in Trees
  BY <1>1, ScriptTyped DEF Render, Points
<1>3. ServiceTypeOK'
  BY <1>2, LaunchdSteps, TypeInParts, NextInParts DEF ServiceInv, Render
<1> QED
  BY <1>2, <1>3 DEF ServiceInv, Render, Underway, Checked, Manageable

LEMMA MoveKeeps == ServiceInv /\ Move => ServiceInv'
<1> SUFFICES ASSUME ServiceInv, Move PROVE ServiceInv'
  OBVIOUS
<1>1. script \in Scripts
  BY TypeInParts DEF ServiceInv
<1>2. /\ script' \in Scripts /\ script'.at = "unload" /\ script'.command = script.command
      /\ script'.tree = script.tree /\ script'.end = script.end /\ script.tree \in Trees
  BY <1>1, ScriptTyped DEF Move, Points
<1>3. plist' = script.tree
  BY DEF ServiceInv, Move, Checked
<1>4. ServiceTypeOK'
  BY <1>2, <1>3, LaunchdSteps, TypeInParts, NextInParts DEF ServiceInv, Move
<1>5. Manageable'
  BY <1>3, NamesApart DEF ServiceInv, Move, Checked, Manageable
<1> QED
  BY <1>2, <1>3, <1>4, <1>5 DEF ServiceInv, Move, Underway, Checked

LEMMA UnloadKeeps == ServiceInv /\ Unload => ServiceInv'
<1> SUFFICES ASSUME ServiceInv, Unload PROVE ServiceInv'
  OBVIOUS
<1>1. script \in Scripts
  BY TypeInParts DEF ServiceInv
<1>2. PICK q \in {"load", "remove", "check_unloaded"} :
        /\ To(q)
        /\ q = "load" <=> script.command = "install"
        /\ \/ UNCHANGED <<job, launchd>> /\ q # "remove"
           \/ job' = "none" /\ Unloaded
  BY DEF Unload, Unloaded
<1>3. /\ script' \in Scripts /\ script'.at = q /\ script'.command = script.command
      /\ script'.tree = script.tree /\ script'.end = script.end
      /\ script.command \in {"install", "uninstall"}
  BY <1>1, <1>2, ScriptTyped DEF Points
<1>4. ServiceTypeOK'
  BY <1>2, <1>3, LaunchdSteps, TypeInParts, NextInParts DEF ServiceInv, Unload, files
<1>5. Underway' /\ Manageable'
  BY <1>2, <1>3, NamesApart DEF ServiceInv, Unload, Underway, Manageable, files
<1>6. Checked'
  BY <1>2, <1>3 DEF ServiceInv, Unload, Checked, files
<1> QED
  BY <1>4, <1>5, <1>6 DEF ServiceInv

LEMMA CheckUnloadedKeeps == ServiceInv /\ CheckUnloaded => ServiceInv'
<1> SUFFICES ASSUME ServiceInv, CheckUnloaded PROVE ServiceInv'
  OBVIOUS
<1>1. script \in Scripts
  BY TypeInParts DEF ServiceInv
<1>2. CASE Leave("failed")
  BY <1>2, LookingKeeps DEF CheckUnloaded, Ends
<1>3. CASE To("remove") /\ ~IsLoaded
  <2>1. Checked'
    BY <1>1, <1>3, ScriptTyped DEF ServiceInv, CheckUnloaded, Checked, IsLoaded, files, Points
  <2> QED
    BY <1>3, <2>1, LookingKeeps DEF CheckUnloaded, Points
<1> QED
  BY <1>2, <1>3 DEF CheckUnloaded

LEMMA RemoveKeeps == ServiceInv /\ Remove => ServiceInv'
<1> SUFFICES ASSUME ServiceInv, Remove PROVE ServiceInv'
  OBVIOUS
<1>1. script' \in Scripts /\ script'.at = "idle"
  BY ScriptTyped, TypeInParts DEF ServiceInv, Remove, Ends
<1>2. ServiceTypeOK'
  BY <1>1, LaunchdSteps, TypeInParts, NextInParts DEF ServiceInv, Remove
<1> QED
  BY <1>1, <1>2, NamesApart DEF ServiceInv, Remove, Underway, Checked, Manageable

LEMMA LoadKeeps == ServiceInv /\ Load => ServiceInv'
<1> SUFFICES ASSUME ServiceInv, Load PROVE ServiceInv'
  OBVIOUS
<1>1. /\ script' \in Scripts /\ script'.at = "idle" /\ script.tree \in Trees
      /\ plist = script.tree
  BY ScriptTyped, TypeInParts DEF ServiceInv, Load, Checked, Ends
<1>2. UNCHANGED <<job, launchd>> \/ (Loaded /\ job' = plist)
  BY DEF Load, Loaded
<1>3. ServiceTypeOK'
  BY <1>1, <1>2, LaunchdSteps, TypeInParts, NextInParts DEF ServiceInv, Load, files
<1> QED
  BY <1>1, <1>2, <1>3 DEF ServiceInv, Load, Underway, Checked, Manageable, files

LEMMA InterruptKeeps == ServiceInv /\ Interrupt => ServiceInv'
BY LookingKeeps DEF Interrupt, Ends

LEMMA ByHandKeeps == ServiceInv /\ ByHand => ServiceInv'
<1> SUFFICES ASSUME ServiceInv, ByHand PROVE ServiceInv'
  OBVIOUS
<1>1. \/ job' = "none" /\ Unloaded
      \/ job' = plist /\ plist \in Trees /\ Loaded
  BY DEF ByHand, Unloaded, Loaded
<1>2. ServiceTypeOK'
  BY <1>1, LaunchdSteps, TypeInParts, NextInParts DEF ServiceInv, ByHand, files
<1> QED
  BY <1>1, <1>2, NamesApart DEF ServiceInv, ByHand, Underway, Checked, Manageable, files

LEMMA OutsiderKeeps == ServiceInv /\ Outsider => ServiceInv'
<1> SUFFICES ASSUME ServiceInv, Outsider PROVE ServiceInv'
  OBVIOUS
<1>1. /\ plist' \in {plist, "none", "unmanaged"} /\ job' \in {job, "none", "elsewhere"}
      /\ plist' = plist \/ (plist \in {"none", "unmanaged"} /\ job' = job)
  BY DEF Outsider
<1>2. ServiceTypeOK'
  BY <1>1, LaunchdSteps, TypeInParts, NextInParts DEF ServiceInv, Outsider
<1> QED
  BY <1>1, <1>2, NamesApart DEF ServiceInv, Outsider, Underway, Checked, Manageable

LEMMA ProcessKeeps ==
    ASSUME ServiceInv, NEW p \in Pids, Start(p) \/ DaemonStep(p) \/ Fail(p) \/ Terminate(p)
    PROVE  ServiceInv'
<1>1. LaunchdOK' /\ UNCHANGED <<files, job, script>>
  BY ProcessSteps, TypeInParts DEF ServiceInv
<1>2. ServiceTypeOK'
  BY <1>1, TypeInParts, NextInParts DEF ServiceInv, files
<1> QED
  BY <1>1, <1>2 DEF ServiceInv, Underway, Checked, Manageable, files

LEMMA NextKeeps == ServiceInv /\ [ServiceNext]_serviceVars => ServiceInv'
<1> SUFFICES ASSUME ServiceInv, [ServiceNext]_serviceVars PROVE ServiceInv'
  OBVIOUS
<1>1. CASE UNCHANGED serviceVars
  <2>1. ServiceTypeOK'
    BY <1>1, LaunchdSteps, TypeInParts, NextInParts DEF ServiceInv, serviceVars, files
  <2> QED
    BY <1>1, <2>1 DEF serviceVars, files, ServiceInv, Underway, Checked, Manageable
<1>2. CASE ScriptStep
  BY <1>2, RunKeeps, CheckFileKeeps, CheckJobKeeps, RenderKeeps, MoveKeeps, UnloadKeeps,
     CheckUnloadedKeeps, RemoveKeeps, LoadKeeps, InterruptKeeps DEF ScriptStep
<1>3. CASE ByHand \/ Outsider
  BY <1>3, ByHandKeeps, OutsiderKeeps
<1>4. CASE \E p \in Pids : Start(p) \/ DaemonStep(p) \/ Fail(p) \/ Terminate(p)
  BY <1>4, ProcessKeeps
<1> QED
  BY <1>1, <1>2, <1>3, <1>4 DEF ServiceNext

\* What the script has checked stays so, wherever it is interrupted.
THEOREM ServiceInvariance == ServiceSpec => []ServiceInv
BY ServiceInitInv, NextKeeps, PTL DEF ServiceSpec

-------------------------------------------------------------------------------
(* What follows                                                            *)

\* Every variable keeps its type.
THEOREM ServiceTypeCorrect == ServiceSpec => []ServiceTypeOK
<1>1. ServiceInv => ServiceTypeOK
  BY DEF ServiceInv
<1> QED
  BY ServiceInvariance, <1>1, PTL

\* A loaded job of a worktree's always has that worktree's plist beside it.
THEOREM ManageableAlways == ServiceSpec => []Manageable
<1>1. ServiceInv => Manageable
  BY DEF ServiceInv
<1> QED
  BY ServiceInvariance, <1>1, PTL

\* Outside the script's own steps its state and the files stay.
LEMMA OthersSteps ==
    ASSUME ServiceInv, [ServiceNext]_serviceVars, script.at # "idle"
    PROVE  ScriptStep \/ UNCHANGED <<files, job, script>>
<1>1. CASE UNCHANGED serviceVars
  BY <1>1 DEF serviceVars, files
<1>2. CASE ByHand \/ Outsider
  BY <1>2 DEF ByHand, Outsider
<1>3. CASE \E p \in Pids : Start(p) \/ DaemonStep(p) \/ Fail(p) \/ Terminate(p)
  BY <1>3, ProcessSteps, TypeInParts DEF ServiceInv
<1> QED
  BY <1>1, <1>2, <1>3 DEF ServiceNext

\* No run of the script changes a file that is not its worktree's.
THEOREM ForeignFilesKeptAlways == ServiceSpec => ForeignFilesKept
<1>1. ServiceInv /\ [ServiceNext]_serviceVars
      => [script.at # "idle" /\ plist \notin {"none", script.tree} => plist' = plist]_serviceVars
  <2> SUFFICES ASSUME ServiceInv, [ServiceNext]_serviceVars, script.at # "idle",
                      plist \notin {"none", script.tree}
               PROVE  plist' = plist
    OBVIOUS
  <2>1. script.at \notin {"move", "remove"}
    BY DEF ServiceInv, Checked
  <2>2. CASE ScriptStep
    BY <2>1, <2>2 DEF ScriptStep, Run, CheckFile, CheckJob, Render, Move, Unload, CheckUnloaded,
                      Remove, Load, Interrupt, files
  <2> QED
    BY <2>2, OthersSteps DEF files
<1> QED
  BY ServiceInvariance, <1>1, PTL DEF ServiceSpec, ForeignFilesKept

\* The script refuses only where it finds a file or a job of another's.
THEOREM RefusesForeignOnlyAlways == ServiceSpec => RefusesForeignOnly
<1>1. ServiceInv /\ [ServiceNext]_serviceVars
      => [script.at # "idle" /\ script'.end = "refused"
          => plist \notin {"none", script.tree} \/ job \notin {"none", script.tree}]_serviceVars
  <2> SUFFICES ASSUME ServiceInv, [ServiceNext]_serviceVars, script.at # "idle",
                      script'.end = "refused"
               PROVE  plist \notin {"none", script.tree} \/ job \notin {"none", script.tree}
    OBVIOUS
  <2>1. script \in Scripts /\ script.end = "none"
    BY TypeInParts DEF ServiceInv, Underway
  <2>2. script' # script
    BY <2>1
  <2>3. ScriptStep
    BY <2>2, OthersSteps
  <2>4. (CheckFile \/ CheckJob) /\ Leave("refused")
    BY <2>1, <2>3, ScriptTyped DEF ScriptStep, Run, CheckFile, CheckJob, Render, Move, Unload,
                                   CheckUnloaded, Remove, Load, Interrupt, Points, Ends
  <2>5. CASE CheckFile
    BY <2>1, <2>4, <2>5, ScriptTyped DEF CheckFile, IsOurs, Points, Ends
  <2>6. CASE CheckJob
    <3>1. plist = "none" /\ job # "none"
      BY <2>1, <2>4, <2>6, ScriptTyped DEF CheckJob, IsLoaded, Points, Ends
    <3> QED
      BY <2>1, <3>1, NamesApart DEF ServiceInv, Manageable, Scripts
  <2> QED
    BY <2>4, <2>5, <2>6
<1> QED
  BY ServiceInvariance, <1>1, PTL DEF ServiceSpec, RefusesForeignOnly

\* An uninstall that succeeds leaves neither a file nor a job.
THEOREM UninstalledIsGoneAlways == ServiceSpec => UninstalledIsGone
<1>1. ServiceInv /\ [ServiceNext]_serviceVars
      => [script.at # "idle" /\ script.command = "uninstall" /\ script'.end = "ok"
          => script.tree \notin {plist', job'}]_serviceVars
  <2> SUFFICES ASSUME ServiceInv, [ServiceNext]_serviceVars, script.at # "idle",
                      script.command = "uninstall", script'.end = "ok"
               PROVE  script.tree \notin {plist', job'}
    OBVIOUS
  <2>1. script \in Scripts /\ script.end = "none" /\ script.tree \in Trees
    BY TypeInParts, ScriptTyped DEF ServiceInv, Underway
  <2>2. ScriptStep
    BY <2>1, OthersSteps
  <2>3. \/ CheckFile /\ plist = "none" /\ UNCHANGED <<files, job>>
        \/ Remove
    BY <2>1, <2>2, ScriptTyped DEF ServiceInv, Checked, ScriptStep, Run, CheckFile, CheckJob, Render,
                                   Move, Unload, CheckUnloaded, Remove, Load, Interrupt, Points, Ends
  <2> QED
    BY <2>1, <2>3, NamesApart DEF ServiceInv, Checked, Manageable, Remove, files
<1> QED
  BY ServiceInvariance, <1>1, PTL DEF ServiceSpec, UninstalledIsGone
===============================================================================
