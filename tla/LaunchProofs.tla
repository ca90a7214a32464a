----------------------------- MODULE LaunchProofs -----------------------------
(***************************************************************************)
(* Proofs about Launch, for every set of command lines, every mebibyte and  *)
(* every size of checkpoint and batch: the worker runs under the budget     *)
(* that the daemon validated, its two limits agree, and between batches it  *)
(* stays inside the ceiling.                                                *)
(***************************************************************************)
EXTENDS Launch, TLAPS

-------------------------------------------------------------------------------
(* The inductive invariant                                                 *)

Early  == {"start", "refused"}
Before == {"start", "refused", "spawned", "exited", "parsed"}

\* Past the configuration, it was accepted.
Accepted == stage \notin Early => Parses(cli) /\ Validate(cli)

\* A worker that parsed its arguments has the budget they say.
BudgetRead ==
    LET env == WorkerEnv(cli)  flag == WorkerCommand(cli).memory IN
    /\ stage \notin {"start", "refused", "spawned"}
          => (stage = "exited" <=> ~(EnvReads(env) /\ (flag # Unset => PythonInt(flag))))
    /\ stage \notin {"start", "refused", "spawned", "exited"}
          => budget = IF flag # Unset THEN flag.value ELSE EnvBudget(env)

\* The limits are unset until the budget is applied, and then what it says.
LimitsSet ==
    /\ stage \in Before \cup {"loaded"} => active = held /\ ~warmed
    /\ stage \in Before \cup {"loaded"} => cache_limit = NoLimit /\ wired_limit = NoLimit
    /\ cache_limit # NoLimit => ~Uncapped /\ cache_limit = CacheLimit(budget * MiB, InUse)
    /\ wired_limit # NoLimit => ~Uncapped /\ wired_limit = WiredLimit(budget * MiB, InUse)
    /\ stage \in {"budgeted", "warm", "ready"} /\ ~Uncapped
          => cache_limit # NoLimit /\ effective = Effective(budget * MiB, InUse)

\* The cache is under its limit once it was cleared, or trimmed after a batch.
CacheTrimmed ==
    /\ active >= held
    /\ cache_limit # NoLimit /\ (stack.clear = "clears" \/ (warmed /\ active = held))
          => cached <= cache_limit

\* The metadata are those of the command line.
Announcement ==
    stage = "ready" =>
       LET args == WorkerCommand(cli) IN
       info = [checkpoint |-> IF args.subfolder = "none" THEN "english" ELSE args.subfolder,
               requested_device |-> args.device, backend |-> args.backend]

LaunchInv == /\ LaunchTypeOK /\ Accepted /\ BudgetRead /\ LimitsSet /\ CacheTrimmed
             /\ Announcement

-------------------------------------------------------------------------------
(* Lemmas about the operators                                              *)

LEMMA SizesInNat ==
    /\ MinCache \in Nat \ {0} /\ Overhead \in Nat /\ MiB \in Nat /\ CacheBound \in Nat
    /\ \A n \in HeldSizes : n \in Nat
    /\ \A n \in BatchSizes : n \in Nat \ {0}
BY SizesAssumption DEF MinCache, Overhead

\* The two limits, computed apart, differ by what is in use.
LEMMA LimitsDiffer ==
    ASSUME NEW total \in Int, NEW in_use \in Nat
    PROVE  /\ CacheLimit(total, in_use) \in Nat
           /\ WiredLimit(total, in_use) \in Nat
           /\ Effective(total, in_use) \in Nat \cup {NoLimit}
           /\ WiredLimit(total, in_use) = CacheLimit(total, in_use) + in_use
           /\ Overhead + in_use + CacheLimit(total, in_use)
                 = Larger(total, Overhead + in_use + MinCache)
BY SizesInNat DEF CacheLimit, WiredLimit, Effective, Larger

\* What the operator says is typed, so what the worker reads is.
LEMMA ArgumentsTyped ==
    ASSUME NEW c \in Clis
    PROVE  /\ WorkerCommand(c).memory \in RawTexts /\ WorkerCommand(c).memory.value \in Int
           /\ WorkerEnv(c) \in RawTexts /\ EnvBudget(WorkerEnv(c)) \in Int
           /\ WorkerCommand(c).device \in Devices /\ WorkerCommand(c).backend \in Backends
           /\ WorkerCommand(c).subfolder \in Checkpoints \cup {"none"}
<1>1. c.memory_flag \in RawTexts /\ c.memory_env \in RawTexts /\ c.worker_memory \in RawTexts
      /\ c.python_env.memory \in RawTexts /\ c.checkpoint \in Checkpoints
      /\ c.device \in Devices /\ c.backend \in Backends
  BY DEF Clis, PythonEnvs
<1>2. \A t \in RawTexts : t.value \in Int
  BY DEF RawTexts
<1>3. MemoryMb(c) \in Int
  BY <1>1, <1>2 DEF MemoryMb, DefaultMemory, DefaultMemoryMb
<1>4. WorkerEnv(c) \in RawTexts
  BY <1>1, <1>3 DEF WorkerEnv, Number, Raw, RawTexts
<1>5. EnvBudget(WorkerEnv(c)) \in Int
  BY <1>4, <1>2 DEF EnvBudget, DefaultMemoryMb
<1> QED
  BY <1>1, <1>2, <1>4, <1>5 DEF WorkerCommand, Subfolder, Checkpoints

\* A batch takes memory, and leaves the cache no larger.
LEMMA BatchTakes ==
    ASSUME active \in Nat, held \in Nat, cached \in Nat, NEW n \in BatchSizes, Batch(n)
    PROVE  /\ active' \in Nat /\ active' # held
           /\ cached' \in Nat /\ cached' <= cached
BY SizesInNat DEF Batch

\* What is kept is a size, under the limit where one is set.
LEMMA ReleaseTrims ==
    ASSUME active \in Nat, held \in Nat, cached \in Nat, cache_limit \in Nat \cup {NoLimit},
           NEW kept, kept = Release, active >= held
    PROVE  /\ kept \in Nat
           /\ cache_limit # NoLimit => kept <= cache_limit
BY SizesInNat DEF Release, NoLimit

-------------------------------------------------------------------------------
(* The invariant holds                                                     *)

LEMMA InitInv == LaunchInit => LaunchInv
<1> SUFFICES ASSUME LaunchInit PROVE LaunchInv
  OBVIOUS
<1>1. LaunchTypeOK
  <2>1. stack \in Stacks
    BY DEF LaunchInit, Stacks
  <2>2. info \in Infos
    BY DEF LaunchInit, Infos, Checkpoints, Devices, Backends
  <2>3. warmed \in BOOLEAN /\ cli \in Clis
    BY CommandsAssumption DEF LaunchInit
  <2>4. budget \in Int /\ held \in Nat /\ active \in Nat /\ cached \in Nat
    BY DEF LaunchInit
  <2>5. stage = "start" /\ cache_limit = NoLimit /\ wired_limit = NoLimit /\ effective = NoLimit
    BY DEF LaunchInit
  <2> QED
    BY <2>1, <2>2, <2>3, <2>4, <2>5 DEF LaunchTypeOK
<1>2. Accepted /\ BudgetRead /\ LimitsSet /\ CacheTrimmed /\ Announcement
  BY DEF LaunchInit, Accepted, Early, BudgetRead, LimitsSet, Before, CacheTrimmed, Announcement,
         NoLimit
<1> QED
  BY <1>1, <1>2 DEF LaunchInv

LEMMA ConfigureKeeps == LaunchInv /\ Configure => LaunchInv'
BY DEF LaunchInv, Configure, limits, LaunchTypeOK, Accepted, Early, BudgetRead, LimitsSet, Before,
       CacheTrimmed, Announcement, InUse, Uncapped

LEMMA ParseArgsKeeps == LaunchInv /\ ParseArgs => LaunchInv'
<1> SUFFICES ASSUME LaunchInv, ParseArgs PROVE LaunchInv'
  OBVIOUS
<1>1. LaunchTypeOK'
  BY ArgumentsTyped DEF LaunchInv, LaunchTypeOK, ParseArgs, limits
<1>2. (Accepted /\ BudgetRead /\ CacheTrimmed /\ Announcement)'
  BY DEF LaunchInv, ParseArgs, limits, Accepted, Early, BudgetRead, CacheTrimmed, Announcement
<1>3. LimitsSet'
  BY DEF LaunchInv, ParseArgs, limits, LimitsSet, Before
<1> QED
  BY <1>1, <1>2, <1>3 DEF LaunchInv

LEMMA LoadKeeps == LaunchInv /\ Load => LaunchInv'
<1> SUFFICES ASSUME LaunchInv, Load PROVE LaunchInv'
  OBVIOUS
<1>1. LaunchTypeOK' /\ held' \in Nat /\ held \in Nat
  BY SizesInNat DEF LaunchInv, LaunchTypeOK, Load, limits
<1>2. (Accepted /\ BudgetRead /\ Announcement)'
  BY DEF LaunchInv, Load, limits, Accepted, Early, BudgetRead, Announcement
<1>3. (LimitsSet /\ CacheTrimmed)'
  BY <1>1 DEF LaunchInv, Load, limits, LimitsSet, Before, CacheTrimmed
<1> QED
  BY <1>1, <1>2, <1>3 DEF LaunchInv

LEMMA ApplyBudgetKeeps == LaunchInv /\ ApplyBudget => LaunchInv'
<1> SUFFICES ASSUME LaunchInv, ApplyBudget PROVE LaunchInv'
  OBVIOUS
<1> DEFINE total == budget * MiB
<1>1. /\ total \in Int /\ Measured \in Nat /\ Measured = InUse
      /\ cache_limit = NoLimit /\ wired_limit = NoLimit
  BY SizesInNat DEF LaunchInv, LaunchTypeOK, ApplyBudget, LimitsSet, Measured, InUse
<1>2. /\ CacheLimit(total, Measured) \in Nat /\ WiredLimit(total, Measured) \in Nat
      /\ Effective(total, Measured) \in Nat \cup {NoLimit}
  BY <1>1, LimitsDiffer
<1>3. LaunchTypeOK'
  BY <1>2 DEF LaunchInv, LaunchTypeOK, ApplyBudget, limits
<1>4. (Accepted /\ BudgetRead /\ Announcement)'
  BY DEF LaunchInv, ApplyBudget, limits, Accepted, Early, BudgetRead, Announcement
<1>5. LimitsSet'
  BY <1>1, <1>2 DEF LaunchInv, ApplyBudget, limits, LimitsSet, Before, Uncapped, InUse, NoLimit
<1>6. CacheTrimmed'
  BY <1>1, <1>2 DEF LaunchInv, LaunchTypeOK, ApplyBudget, limits, CacheTrimmed, LimitsSet
<1> QED
  BY <1>3, <1>4, <1>5, <1>6 DEF LaunchInv

LEMMA WarmUpKeeps == LaunchInv /\ WarmUp => LaunchInv'
<1> SUFFICES ASSUME LaunchInv, WarmUp PROVE LaunchInv'
  OBVIOUS
<1>1. \/ UNCHANGED <<active, cached, warmed>>
      \/ \E n \in BatchSizes : Batch(n) /\ warmed' = TRUE
  BY DEF WarmUp
<1>2. /\ active' \in Nat /\ cached' \in Nat /\ cached' <= cached /\ active' >= held
      /\ warmed' \in BOOLEAN
      /\ UNCHANGED <<active, warmed>> \/ active' # held
  <2>1. active \in Nat /\ held \in Nat /\ cached \in Nat /\ warmed \in BOOLEAN /\ active >= held
    BY DEF LaunchInv, LaunchTypeOK, CacheTrimmed
  <2>2. CASE UNCHANGED <<active, cached, warmed>>
    BY <2>1, <2>2
  <2>3. ASSUME NEW n \in BatchSizes, Batch(n), warmed' = TRUE
        PROVE  /\ active' \in Nat /\ cached' \in Nat /\ cached' <= cached
               /\ active' >= held /\ active' # held
    BY <2>1, <2>3, BatchTakes, SizesInNat DEF Batch
  <2> QED
    BY <1>1, <2>2, <2>3
<1>3. LaunchTypeOK'
  BY <1>2 DEF LaunchInv, LaunchTypeOK, WarmUp, limits
<1>4. (Accepted /\ BudgetRead /\ LimitsSet /\ Announcement)'
  BY DEF LaunchInv, WarmUp, limits, Accepted, Early, BudgetRead, LimitsSet, Before, Announcement,
         Uncapped, InUse
<1>5. CacheTrimmed'
  BY <1>2 DEF LaunchInv, LaunchTypeOK, WarmUp, limits, CacheTrimmed, NoLimit
<1> QED
  BY <1>3, <1>4, <1>5 DEF LaunchInv

LEMMA PredictKeeps == LaunchInv /\ Predict => LaunchInv'
<1> SUFFICES ASSUME LaunchInv, Predict PROVE LaunchInv'
  OBVIOUS
<1>1. active' \in Nat /\ cached' \in Nat /\ cached' <= cached /\ active' >= held /\ active' # held
  BY BatchTakes, SizesInNat DEF LaunchInv, LaunchTypeOK, Predict, Batch
<1>2. LaunchTypeOK'
  BY <1>1 DEF LaunchInv, LaunchTypeOK, Predict, limits
<1>3. (Accepted /\ BudgetRead /\ LimitsSet /\ Announcement)'
  BY DEF LaunchInv, Predict, limits, Accepted, Early, BudgetRead, LimitsSet, Before, Announcement,
         Uncapped, InUse
<1>4. CacheTrimmed'
  BY <1>1 DEF LaunchInv, LaunchTypeOK, Predict, limits, CacheTrimmed, NoLimit
<1> QED
  BY <1>2, <1>3, <1>4 DEF LaunchInv

LEMMA BatchEndsKeeps == LaunchInv /\ BatchEnds => LaunchInv'
<1> SUFFICES ASSUME LaunchInv, BatchEnds PROVE LaunchInv'
  OBVIOUS
<1>1. cached' \in Nat /\ (cache_limit # NoLimit => cached' <= cache_limit)
  BY ReleaseTrims DEF LaunchInv, LaunchTypeOK, CacheTrimmed, BatchEnds
<1>2. LaunchTypeOK'
  BY <1>1 DEF LaunchInv, LaunchTypeOK, BatchEnds, limits
<1>3. (Accepted /\ BudgetRead /\ LimitsSet /\ Announcement)'
  BY DEF LaunchInv, BatchEnds, limits, Accepted, Early, BudgetRead, LimitsSet, Before,
         Announcement, Uncapped, InUse
<1>4. CacheTrimmed'
  BY <1>1 DEF LaunchInv, LaunchTypeOK, BatchEnds, limits, CacheTrimmed
<1> QED
  BY <1>2, <1>3, <1>4 DEF LaunchInv

LEMMA AnnouncedKeeps == LaunchInv /\ Announced => LaunchInv'
<1> SUFFICES ASSUME LaunchInv, Announced PROVE LaunchInv'
  OBVIOUS
<1>1. LaunchTypeOK'
  BY ArgumentsTyped DEF LaunchInv, LaunchTypeOK, Announced, limits, Infos, Checkpoints
<1>2. (Accepted /\ BudgetRead /\ LimitsSet /\ CacheTrimmed)'
  BY DEF LaunchInv, Announced, limits, Accepted, Early, BudgetRead, LimitsSet, Before,
         CacheTrimmed, Uncapped, InUse
<1>3. Announcement'
  BY DEF Announced, Announcement
<1> QED
  BY <1>1, <1>2, <1>3 DEF LaunchInv

LEMMA StutterKeeps == LaunchInv /\ UNCHANGED launchVars => LaunchInv'
BY DEF LaunchInv, launchVars, limits, LaunchTypeOK, Accepted, BudgetRead, LimitsSet, CacheTrimmed,
       Announcement, Uncapped, InUse

\* What the command line says, the worker does, whatever comes of the launch.
THEOREM LaunchInvariance == LaunchSpec => []LaunchInv
<1>1. LaunchInv /\ [LaunchNext]_launchVars => LaunchInv'
  BY ConfigureKeeps, ParseArgsKeeps, LoadKeeps, ApplyBudgetKeeps, WarmUpKeeps, PredictKeeps,
     BatchEndsKeeps, AnnouncedKeeps, StutterKeeps DEF LaunchNext, Ended
<1> QED
  BY InitInv, <1>1, PTL DEF LaunchSpec

-------------------------------------------------------------------------------
(* What follows                                                            *)

\* Every variable of the launch keeps its type, the limits among them: neither is negative.
THEOREM LaunchTypeCorrect == LaunchSpec => []LaunchTypeOK
<1>1. LaunchInv => LaunchTypeOK
  BY DEF LaunchInv
<1> QED
  BY LaunchInvariance, <1>1, PTL

\* The two limits of apply_memory_budget describe one ceiling.
THEOREM LimitsAgreeAlways == LaunchSpec => []LimitsAgree
<1>1. LaunchInv => LimitsAgree
  <2> SUFFICES ASSUME LaunchInv, wired_limit # NoLimit, cache_limit # NoLimit
               PROVE  wired_limit = cache_limit + InUse
    BY DEF LimitsAgree, InUse
  <2>1. budget * MiB \in Int /\ InUse \in Nat
    BY SizesInNat DEF LaunchInv, LaunchTypeOK, InUse
  <2> QED
    BY <2>1, LimitsDiffer DEF LaunchInv, LimitsSet
<1> QED
  BY LaunchInvariance, <1>1, PTL

\* Between batches the process stays under the budget, or under what the log says that it
\* was raised to, but for what the stack could not report of the checkpoint.
THEOREM IdleWithinBudgetAlways == LaunchSpec => []IdleWithinBudget
<1>1. LaunchInv => IdleWithinBudget
  <2> SUFFICES ASSUME LaunchInv, AtRest
               PROVE  /\ Overhead + held + cached <= Ceiling + (held - InUse)
                      /\ effective # NoLimit => effective = Overhead + InUse + MinCache
    BY DEF IdleWithinBudget
  <2> DEFINE total == budget * MiB
  <2>1. total \in Int /\ held \in Nat /\ cached \in Nat /\ InUse \in Nat
    BY SizesInNat DEF LaunchInv, LaunchTypeOK, InUse
  <2>2. /\ cache_limit = CacheLimit(total, InUse) /\ cached <= cache_limit
        /\ effective = Effective(total, InUse)
    BY DEF LaunchInv, LimitsSet, CacheTrimmed, AtRest
  <2>3. /\ CacheLimit(total, InUse) \in Nat
        /\ Overhead + InUse + CacheLimit(total, InUse)
              = Larger(total, Overhead + InUse + MinCache)
    BY <2>1, LimitsDiffer
  <2>4. Ceiling = Larger(total, Overhead + InUse + MinCache)
        /\ (effective # NoLimit => effective = Overhead + InUse + MinCache)
    BY <2>1, <2>2, <2>3, SizesInNat DEF Ceiling, Effective, Larger, NoLimit
  <2> HIDE DEF total
  <2> QED
    BY <2>1, <2>2, <2>3, <2>4, SizesInNat
<1> QED
  BY LaunchInvariance, <1>1, PTL

\* Where the counter works, whatever else the stack can do, that is the whole process.
THEOREM CeilingKeptIfReported ==
    LaunchSpec => [](stack.counter = "reports" => CeilingCoversProcess)
<1>1. LaunchInv /\ IdleWithinBudget => (stack.counter = "reports" => CeilingCoversProcess)
  <2> SUFFICES ASSUME LaunchInv, IdleWithinBudget, stack.counter = "reports", AtRest
               PROVE  Overhead + held + cached <= Ceiling
    BY DEF CeilingCoversProcess
  <2>1. held \in Nat /\ InUse = held /\ Ceiling \in Int
    BY SizesInNat DEF LaunchInv, LaunchTypeOK, InUse, Ceiling, NoLimit
  <2>2. held - InUse = 0
    BY <2>1
  <2> QED
    BY <2>1, <2>2, SizesInNat DEF IdleWithinBudget
<1> QED
  BY LaunchInvariance, IdleWithinBudgetAlways, <1>1, PTL

\* A budget that the daemon accepted is the budget of the worker.
THEOREM BudgetAsValidatedAlways == LaunchSpec => []BudgetAsValidated
<1>1. LaunchInv => BudgetAsValidated
  <2> SUFFICES ASSUME LaunchInv, stage \notin {"start", "refused", "spawned"},
                      cli.worker_memory = Unset, cli.python_env.memory = Unset
               PROVE  stage # "exited" /\ budget = MemoryMb(cli)
                      /\ (budget = 0 \/ budget >= MinMemoryMb)
    BY DEF BudgetAsValidated
  <2>1. Parses(cli) /\ Validate(cli) /\ cli \in Clis
    BY DEF LaunchInv, LaunchTypeOK, Accepted, Early
  <2>2. MemoryMb(cli) \in Nat
    <3>1. cli.memory_flag \in RawTexts /\ cli.memory_env \in RawTexts
      BY <2>1 DEF Clis
    <3>2. Usize(cli.memory_flag) => cli.memory_flag.value \in Nat
      BY <3>1 DEF Usize, RawTexts
    <3>3. Usize(cli.memory_env) => cli.memory_env.value \in Nat
      BY <3>1 DEF Usize, RawTexts
    <3> QED
      BY <2>1, <3>2, <3>3 DEF Parses, MemoryMb, DefaultMemory, DefaultMemoryMb
  <2>3. EnvReads(WorkerEnv(cli)) /\ EnvBudget(WorkerEnv(cli)) = MemoryMb(cli)
    BY <2>2 DEF WorkerEnv, Number, Raw, EnvReads, BudgetReads, PythonInt, EnvBudget
  <2>4. stage # "exited" /\ budget = MemoryMb(cli)
    BY <2>3 DEF LaunchInv, BudgetRead, WorkerCommand
  <2> QED
    BY <2>1, <2>2, <2>4 DEF Validate
<1> QED
  BY LaunchInvariance, <1>1, PTL

\* A worker without a cap is one whose operator said a number that lifts it.
THEOREM UncappedOnlyIfAskedAlways == LaunchSpec => []UncappedOnlyIfAsked
<1>1. LaunchInv => UncappedOnlyIfAsked
  <2> SUFFICES ASSUME LaunchInv, stage = "ready", cli.backend = "mlx", cache_limit = NoLimit
               PROVE  PythonInt(Said) /\ Said.value <= 0
    BY DEF UncappedOnlyIfAsked
  <2>1. budget <= 0 /\ cli \in Clis /\ Parses(cli)
    BY DEF LaunchInv, LaunchTypeOK, Accepted, Early, LimitsSet, Uncapped
  <2>2. /\ EnvReads(WorkerEnv(cli))
        /\ cli.worker_memory # Unset => PythonInt(cli.worker_memory)
        /\ budget = IF cli.worker_memory # Unset THEN cli.worker_memory.value
                                                 ELSE EnvBudget(WorkerEnv(cli))
    BY DEF LaunchInv, BudgetRead, WorkerCommand
  <2>3. CASE cli.worker_memory # Unset
    BY <2>1, <2>2, <2>3 DEF Said
  <2>4. CASE cli.worker_memory = Unset /\ cli.python_env.memory # Unset
    BY <2>1, <2>2, <2>4 DEF Said, WorkerEnv, EnvBudget, EnvReads, BudgetReads, DefaultMemoryMb
  <2>5. CASE cli.worker_memory = Unset /\ cli.python_env.memory = Unset
    <3>1. MemoryMb(cli) <= 0
      BY <2>1, <2>2, <2>5 DEF WorkerEnv, EnvBudget, Number, Raw
    <3> QED
      BY <2>1, <2>5, <3>1 DEF Said, MemoryMb, DefaultMemory, DefaultMemoryMb, Parses, Usize,
                              PythonInt
  <2> QED
    BY <2>3, <2>4, <2>5
<1> QED
  BY LaunchInvariance, <1>1, PTL

\* The metadata name what the operator chose.
THEOREM ReportsWhatWasAskedAlways == LaunchSpec => []ReportsWhatWasAsked
<1>1. LaunchInv => ReportsWhatWasAsked
  <2> SUFFICES ASSUME LaunchInv, stage = "ready"
               PROVE  /\ info.checkpoint = cli.checkpoint
                      /\ info.requested_device = cli.device /\ info.backend = cli.backend
                      /\ DeviceSuits(info.backend, info.requested_device)
    BY DEF ReportsWhatWasAsked
  <2>1. Validate(cli) /\ cli.checkpoint \in Checkpoints
    BY DEF LaunchInv, LaunchTypeOK, Accepted, Early, Clis
  <2>2. info = [checkpoint |-> cli.checkpoint, requested_device |-> cli.device,
                backend |-> cli.backend]
    BY <2>1 DEF LaunchInv, Announcement, WorkerCommand, Subfolder, Checkpoints
  <2> QED
    BY <2>1, <2>2 DEF Validate
<1> QED
  BY LaunchInvariance, <1>1, PTL
===============================================================================
