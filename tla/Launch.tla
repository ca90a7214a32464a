-------------------------------- MODULE Launch --------------------------------
(***************************************************************************)
(* From the operator's command line to a worker that serves under its      *)
(* memory budget: main() and Config in the daemon, then parse_args, load,  *)
(* apply_memory_budget, warmup and the ready frame in python/worker.py,    *)
(* and parse_ready back in the daemon.                                     *)
(*                                                                         *)
(* The inference stack is external: what it holds after loading, what a    *)
(* batch takes and gives back, and which of the functions that the worker  *)
(* looks for it has.  MLX keeps a buffer that is given back in its cache,  *)
(* and trims the cache to its limit when it does.                          *)
(***************************************************************************)
EXTENDS Config

CONSTANTS
    Commands,    \* the command lines and environments considered
    MiB,         \* bytes in a mebibyte
    HeldSizes,   \* what the loaded checkpoint may hold
    BatchSizes,  \* what a batch may take beyond it
    CacheBound   \* bound on the cache of a worker without a cap

ASSUME CommandsAssumption == Commands \subseteq Clis
ASSUME SizesAssumption == /\ MiB \in Nat \ {0}
                          /\ HeldSizes \subseteq Nat /\ BatchSizes \subseteq Nat \ {0}
                          /\ CacheBound \in Nat

VARIABLES
    cli,     \* what the operator said
    stage,   \* how far the launch has come
    budget,  \* args.memory_mb in the worker
    stack,   \* what the inference stack can do
    held, active, cached,            \* its memory: checkpoint, in use, kept for reuse
    cache_limit, wired_limit,        \* the limits set, NoLimit if none was
    effective,  \* the ceiling that the log says the budget was raised to, NoLimit if none
    warmed,  \* a batch has run
    info     \* the worker's metadata as the daemon keeps it

launchVars == <<cli, stage, budget, stack, held, active, cached, cache_limit, wired_limit,
                effective, warmed, info>>
limits == <<cache_limit, wired_limit, effective>>

NoLimit  == -1
MinCache == 128 * MiB
Overhead == 384 * MiB

Stacks == [counter : {"reports", "absent", "raises"}, wired : {"sets", "absent", "raises"},
           cache : {"sets", "raises"}, clear : {"clears", "absent", "raises"}]
Infos  == [checkpoint : Checkpoints, requested_device : Devices, backend : Backends]

LaunchTypeOK ==
    /\ cli \in Clis
    /\ stage \in {"start", "refused", "spawned", "exited", "parsed", "loaded", "not_ready",
                  "budgeted", "warm", "ready", "rejected"}
    /\ budget \in Int
    /\ stack \in Stacks
    /\ held \in Nat /\ active \in Nat /\ cached \in Nat
    /\ cache_limit \in Nat \cup {NoLimit} /\ wired_limit \in Nat \cup {NoLimit}
    /\ effective \in Nat \cup {NoLimit}
    /\ warmed \in BOOLEAN
    /\ info \in Infos

LaunchInit ==
    /\ cli \in Commands
    /\ stage = "start" /\ budget = 0
    /\ stack = [counter |-> "reports", wired |-> "sets", cache |-> "sets",
                clear |-> "clears"]
    /\ held = 0 /\ active = 0 /\ cached = 0
    /\ cache_limit = NoLimit /\ wired_limit = NoLimit /\ effective = NoLimit
    /\ warmed = FALSE
    /\ info = [checkpoint |-> "english", requested_device |-> "auto", backend |-> "mlx"]

-------------------------------------------------------------------------------
(* The daemon                                                              *)

\* A refused configuration ends the daemon before anything is spawned.
Configure ==
    /\ stage = "start"
    /\ stage' = IF Parses(cli) /\ Validate(cli) THEN "spawned" ELSE "refused"
    /\ UNCHANGED <<cli, budget, stack, held, active, cached, limits, warmed, info>>

-------------------------------------------------------------------------------
(* The worker                                                              *)

\* int(): a sign and underscores are read.
PythonInt(raw) == raw.kind \in {"number", "grouped"}

\* _memory_budget_mb: garbage and a negative number end the worker.
BudgetReads(raw) == PythonInt(raw) /\ raw.value >= 0

\* _memory_budget_default: unset or blank means the built-in default.
EnvReads(raw)  == raw.kind \in {"unset", "empty"} \/ BudgetReads(raw)
EnvBudget(raw) == IF raw.kind \in {"unset", "empty"} THEN DefaultMemoryMb ELSE raw.value

\* Mutant of ParseArgs: a variable that does not read leaves the worker without a cap.
ParseArgsLax ==
    /\ stage = "spawned" /\ stage' = "parsed"
    /\ budget' = IF WorkerCommand(cli).memory # Unset THEN WorkerCommand(cli).memory.value
                                                      ELSE WorkerEnv(cli).value
    /\ UNCHANGED <<cli, stack, held, active, cached, limits, warmed, info>>

\* The default is computed whether the flag is given or not; the flag is an int.
ParseArgs ==
    LET env == WorkerEnv(cli)  flag == WorkerCommand(cli).memory IN
    /\ stage = "spawned"
    /\ IF EnvReads(env) /\ (flag # Unset => PythonInt(flag))
       THEN /\ stage' = "parsed"
            /\ budget' = IF flag # Unset THEN flag.value ELSE EnvBudget(env)
       ELSE stage' = "exited" /\ UNCHANGED budget
    /\ UNCHANGED <<cli, stack, held, active, cached, limits, warmed, info>>

Load ==
    /\ stage = "parsed"
    /\ \/ stage' = "not_ready" /\ UNCHANGED <<stack, held, active, cached>>
       \/ /\ stage' = "loaded" /\ stack' \in Stacks
          /\ held' \in HeldSizes /\ active' = held'
          /\ cached' \in {0, CacheBound}
    /\ UNCHANGED <<cli, budget, limits, warmed, info>>

\* Live bytes as the stack reports them, 0 when it cannot.
Measured == IF stack.counter = "reports" THEN active ELSE 0

Larger(a, b) == IF a >= b THEN a ELSE b

\* Mutant of CacheLimit: the checkpoint is not subtracted.
CacheLimitWhole(total, in_use) == Larger(MinCache, total - Overhead)

CacheLimit(total, in_use) == Larger(MinCache, total - Overhead - in_use)

\* Mutant of WiredLimit: the whole budget, overhead and all.
WiredLimitWhole(total, in_use) == Larger(in_use + MinCache, total)

WiredLimit(total, in_use) == Larger(in_use + MinCache, total - Overhead)

Uncapped == cli.backend # "mlx" \/ budget <= 0

\* What the log names when the cache does not fit what the budget leaves for it.
Effective(total, in_use) ==
    LET needed == CacheLimit(total, in_use) + Overhead + in_use
    IN  IF needed > total THEN needed ELSE NoLimit

\* apply_memory_budget: the wired limit first, tolerating its failure; the log; then the
\* cache limit, and the buffers left by loading are released.  A failure of these is fatal.
ApplyBudget ==
    LET total == budget * MiB IN
    /\ stage = "loaded"
    /\ IF Uncapped
       THEN stage' = "budgeted" /\ UNCHANGED <<limits, cached>>
       ELSE /\ wired_limit' = IF stack.wired = "sets" THEN WiredLimit(total, Measured)
                                                      ELSE wired_limit
            /\ effective' = Effective(total, Measured)
            /\ cache_limit' = IF stack.cache = "sets" THEN CacheLimit(total, Measured)
                                                      ELSE cache_limit
            /\ stage' = IF stack.cache = "sets" /\ stack.clear # "raises" THEN "budgeted"
                                                                         ELSE "not_ready"
            /\ cached' = IF stack.cache = "sets" /\ stack.clear = "clears" THEN 0 ELSE cached
    /\ UNCHANGED <<cli, budget, stack, held, active, warmed, info>>

\* A batch takes memory, some of it from the cache.
Batch(n) ==
    \E reused \in {0, IF n <= cached THEN n ELSE cached} :
        /\ active = held
        /\ active' = active + n /\ cached' = cached - reused

WarmUp ==
    /\ stage = "budgeted"
    /\ \/ cli.no_warmup /\ stage' = "warm" /\ UNCHANGED <<active, cached, warmed>>
       \/ ~cli.no_warmup /\ stage' = "not_ready" /\ UNCHANGED <<active, cached, warmed>>
       \/ /\ ~cli.no_warmup /\ stage' = "warm" /\ warmed' = TRUE
          /\ \E n \in BatchSizes : Batch(n)
    /\ UNCHANGED <<cli, budget, stack, held, limits, info>>

\* What a batch gives back goes to the cache, up to its limit.
Release ==
    LET kept == cached + (active - held)
        cap  == IF cache_limit = NoLimit THEN CacheBound ELSE cache_limit
    IN  IF kept > cap THEN cap ELSE kept

\* The batch is over, the warm-up's or a request's.
BatchEnds ==
    /\ stage \in {"warm", "ready"} /\ active # held
    /\ active' = held /\ cached' = Release
    /\ UNCHANGED <<cli, stage, budget, stack, held, limits, warmed, info>>

\* The ready frame and parse_ready: a device that the stack does not name is refused.
Announced ==
    LET args == WorkerCommand(cli) IN
    /\ stage = "warm" /\ active = held
    /\ \/ stage' = "rejected" /\ UNCHANGED info
       \/ /\ stage' = "ready"
          /\ info' = [checkpoint |-> IF args.subfolder = "none" THEN "english"
                                                                ELSE args.subfolder,
                      requested_device |-> args.device, backend |-> args.backend]
    /\ UNCHANGED <<cli, budget, stack, held, active, cached, limits, warmed>>

Predict ==
    /\ stage = "ready" /\ warmed' = TRUE
    /\ \E n \in BatchSizes : Batch(n)
    /\ UNCHANGED <<cli, stage, budget, stack, held, limits, info>>

Ended == stage \in {"refused", "exited", "not_ready", "rejected"} /\ UNCHANGED launchVars

LaunchNext == \/ Configure \/ ParseArgs \/ Load \/ ApplyBudget \/ WarmUp \/ BatchEnds
              \/ Announced \/ Predict \/ Ended

-------------------------------------------------------------------------------
(* Properties                                                              *)

\* What the stack could report of the checkpoint: nothing without a counter that works.
InUse == IF stack.counter = "reports" THEN held ELSE 0

\* A capped worker between batches, once what loading left in the cache is gone: released
\* by clear_cache or, where the stack has none, trimmed after the first batch.
AtRest == stage = "ready" /\ active = held /\ ~Uncapped /\ (stack.clear = "clears" \/ warmed)

\* The ceiling: the budget, or what the log says that it was raised to.
Ceiling == IF effective = NoLimit THEN budget * MiB ELSE effective

\* The idle process stays under the ceiling but for what the stack could not report, which
\* is nothing where its counter works and the whole checkpoint where it has none; and the
\* ceiling is raised no further than overhead, reported checkpoint and smallest cache.
IdleWithinBudget ==
    AtRest => /\ Overhead + held + cached <= Ceiling + (held - InUse)
              /\ effective # NoLimit => effective = Overhead + InUse + MinCache

\* "The budget covers the whole resident process"; one "tighter than the checkpoint plus the
\* minimum cache is raised to fit, with the effective value logged" (README.md:44, 67-69):
\* whatever the stack can report, the idle process stays under the ceiling.
CeilingCoversProcess == AtRest => Overhead + held + cached <= Ceiling

\* The two limits are computed apart and describe one ceiling: what may be wired is the
\* checkpoint, where it could be measured, and the cache.
LimitsAgree ==
    wired_limit # NoLimit /\ cache_limit # NoLimit => wired_limit = cache_limit + InUse

\* What the operator says last is what counts: an argument for the worker, a variable for
\* the worker, the flag, the environment.
Said == IF cli.worker_memory # Unset          THEN cli.worker_memory
        ELSE IF cli.python_env.memory # Unset THEN cli.python_env.memory
        ELSE IF cli.memory_flag # Unset       THEN cli.memory_flag
                                              ELSE cli.memory_env

\* An MLX worker serves without a cap only if the operator said a number that lifts it:
\* a text that does not read never does, wherever it is given.
UncappedOnlyIfAsked ==
    stage = "ready" /\ cli.backend = "mlx" /\ cache_limit = NoLimit
    => PythonInt(Said) /\ Said.value <= 0

\* What validate() accepts, the worker's own parser accepts too, and takes for the same
\* number, unless the operator went past the daemon to the worker.
BudgetAsValidated ==
    /\ stage \notin {"start", "refused", "spawned"}
    /\ cli.worker_memory = Unset /\ cli.python_env.memory = Unset
    => stage # "exited" /\ budget = MemoryMb(cli) /\ (budget = 0 \/ budget >= MinMemoryMb)

\* The metadata served by /readyz names the checkpoint, the device and the backend that
\* the operator chose, if no --worker-arg chose others; the device is one the backend has.
ReportsWhatWasAsked ==
    stage = "ready" => /\ info.checkpoint = cli.checkpoint
                       /\ info.requested_device = cli.device /\ info.backend = cli.backend
                       /\ DeviceSuits(info.backend, info.requested_device)

LaunchSpec == LaunchInit /\ [][LaunchNext]_launchVars
===============================================================================
