-------------------------------- MODULE Config --------------------------------
(***************************************************************************)
(* What the operator may say, and what the daemon makes of it:             *)
(* src/src/config.rs, and the command line and the environment that        *)
(* src/src/worker.rs gives the worker.                                     *)
(*                                                                         *)
(* A text that should be a number is a record: its kind, and its value if  *)
(* it reads as one.  "grouped" is a number that Python reads and Rust does *)
(* not: written with underscores, or too large for a usize.                *)
(***************************************************************************)
EXTENDS Integers

Raw(kind, value) == [kind |-> kind, value |-> value]
Number(n) == Raw("number", n)
Unset     == Raw("unset", 0)
RawTexts  == [kind : {"unset", "empty", "garbage", "grouped", "number"}, value : Int]

Checkpoints == {"english", "multilingual", "typed-decisions"}
Devices     == {"cpu", "gpu", "mps", "cuda", "auto"}
Backends    == {"mlx", "torch"}
Limits      == {"max_body_bytes", "max_questions", "max_concurrent", "max_response_bytes"}

\* The --python-env items: whether one has no "=" or no name, and what the last one named
\* LAYAD_MEMORY_MB says (Unset if none is).
PythonEnvs == [items : {"fine", "unsplit", "nameless"}, memory : RawTexts]

Clis == [bind : {"loopback", "public", "malformed"}, python : BOOLEAN,
         memory_flag : RawTexts, memory_env : RawTexts, limits : [Limits -> Nat],
         python_env : PythonEnvs, backend : Backends, device : Devices,
         checkpoint : Checkpoints,
         worker_memory : RawTexts, no_warmup : BOOLEAN]  \* what --worker-arg adds

DefaultMemoryMb == 2048
MinMemoryMb     == 512

-------------------------------------------------------------------------------
\* usize::from_str, after trim().
Usize(raw) == raw.kind = "number" /\ raw.value >= 0

\* An unset, empty or unreadable variable means the default.
DefaultMemory(env) == IF Usize(env) THEN env.value ELSE DefaultMemoryMb

MemoryMb(cli) == IF cli.memory_flag # Unset THEN cli.memory_flag.value
                                            ELSE DefaultMemory(cli.memory_env)

\* clap refuses a flag that is not a number; try_from, an address or an item that
\* does not parse.
Parses(cli) ==
    /\ cli.memory_flag # Unset => Usize(cli.memory_flag)
    /\ cli.bind # "malformed"
    /\ cli.python_env.items # "unsplit"

DeviceSuits(backend, device) == IF backend = "mlx" THEN device \notin {"mps", "cuda"}
                                                   ELSE device # "gpu"

\* Mutant of Validate: the floor is forgotten for a pair of backend and device.
ValidateLax(cli) ==
    /\ cli.bind = "loopback" /\ cli.python
    /\ \A l \in Limits : cli.limits[l] # 0
    /\ cli.python_env.items # "nameless"

Validate(cli) ==
    /\ cli.bind = "loopback" /\ cli.python
    /\ \A l \in Limits : cli.limits[l] # 0
    /\ MemoryMb(cli) # 0 => MemoryMb(cli) >= MinMemoryMb
    /\ cli.python_env.items # "nameless"
    /\ DeviceSuits(cli.backend, cli.device)

-------------------------------------------------------------------------------
\* The worker's environment: python_env is inserted over what the daemon sets.
WorkerEnv(cli) == IF cli.python_env.memory = Unset THEN Number(MemoryMb(cli))
                                                   ELSE cli.python_env.memory

\* Mutant of Subfolder: only one of the folders is known.
SubfolderOne(checkpoint) == IF checkpoint = "multilingual" THEN checkpoint ELSE "none"

\* The English checkpoint is the root of the repository.
Subfolder(checkpoint) == IF checkpoint = "english" THEN "none" ELSE checkpoint

\* The worker's command line; worker_args come last.  Only a --memory-mb among them is
\* modelled: others may override the device, the backend or the checkpoint as well.
WorkerCommand(cli) ==
    [device |-> cli.device, backend |-> cli.backend, subfolder |-> Subfolder(cli.checkpoint),
     memory |-> cli.worker_memory, no_warmup |-> cli.no_warmup]
===============================================================================
