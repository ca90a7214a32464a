---------------------------- MODULE SupervisorInv -----------------------------
(***************************************************************************)
(* Why the safety properties of Supervisor hold: an inductive invariant,   *)
(* in parts, each of which says what one region of the supervisor may rely *)
(* on.  TLC checks it on a small instance, SupervisorProofs proves it.     *)
(***************************************************************************)
EXTENDS Supervisor

BeforeEnd == SessionPoints \cup {"begin", "spawn", "record_pid"}
Stopping  == {"poke", "grace", "kill_wait", "stopped"}

\* A frame on its way to or from the worker carries the payload that was issued
\* under its id, and no answer bears an id that is still to be issued.
RequestMatches(f, ids) == f.id \in 1..Len(ids) /\ f.req = ids[f.id]
AnswerMatches(f, ids) ==
    f.kind = "ok" => f.id <= Len(ids) /\ (f.id # 0 => f.req = ids[f.id])
FramesMatchIds ==
    /\ \A i \in DOMAIN stdin : RequestMatches(stdin[i], issued)
    /\ \A i \in DOMAIN stdout : AnswerMatches(stdout[i], issued)
    /\ sup = "wait" => Len(issued) > 0 /\ issued[Len(issued)] = job

\* A caller without an answer is queued or in hand.
Inside(r) == job = r \/ \E i \in DOMAIN queue : queue[i] = r
WaitingHeld == \A r \in Requests : phase[r] = "waiting" /\ reply[r] = "none" => Inside(r)

\* A job is held once, and whoever holds it has not answered it yet: a reply is
\* never overwritten.
Early(r) == phase[r] \in {"new", "admitted", "sending"}
HeldOnce ==
    /\ \A r \in Requests : Early(r) => reply[r] = "none" /\ ~Inside(r)
    /\ \A r \in Requests : phase[r] = "waiting" /\ Inside(r) => reply[r] = "none"
    /\ \A i, k \in DOMAIN queue : queue[i] = queue[k] /\ queue[i] \in Requests => i = k
    /\ \A i \in DOMAIN queue : queue[i] \in Requests => queue[i] # job

QueueEmptied == sup = "end" => queue = <<>>

\* How far the child has come, and when its outcome is decided.
ChildAccounted ==
    /\ sup \in {"begin", "spawn"} => child = "none"
    /\ sup = "kill9" => sigkilled
    /\ sup \in {"mark", "clear", "report", "drain"} => child = "reaped" \/ sigkilled
    /\ sup \in {"drop", "end"} => child \in {"none", "reaped"} \/ sigkilled

OutcomeDecided ==
    /\ sup \in BeforeEnd => outcome = "none" /\ slot \in {"pending", "ok"}
    /\ sup \in {"publish", "mark", "report", "drain"} => outcome = "Restart"
    /\ outcome = "Restart" /\ sup # "publish" => state \in {"Failed", "ShuttingDown"}

\* The fatal channel is the last thing written before the queue is drained.
FatalLast ==
    /\ sup \in {"report", "drain"} => ~info /\ ~pid
    /\ fatal => sup \in {"drain", "drop", "end"} /\ outcome = "Restart" /\ ~info /\ ~pid
    /\ fatal => child = "reaped" \/ sigkilled

\* Before the handshake only Poke can be queued, and then the handle says that it
\* is shutting down, except while the handshake is overwriting that.  Only an owner that
\* saw the handshake has callers that are not refused at once.
OnlyPokeBeforeReady ==
    /\ listener = "consumed" => slot = "ok"
    /\ owner = "starting" => listener = "waiting"
    /\ \A r \in Requests :
          phase[r] \in {"admitted", "sending", "waiting"} => listener = "consumed"
    /\ /\ slot = "pending" /\ sup \in BeforeEnd \ {"inform"}
       /\ owner \in Stopping \/ queue # <<>> \/ job # NoJob
       => state = "ShuttingDown"
    /\ slot = "pending" => sup \notin {"write", "wait"}

\* With a worker that writes nothing but the handshake and one reply to each request, be it
\* a wrong one: what is in the pipes, wherever the session stands.
\* A worker that is loading has written nothing; one that was heard of has been read; and
\* only a request that is waited for is in the pipes, or its reply.
NoStrays == Faults \cap {"garbage", "oversized", "replay"} = {}
Heard == slot = "ok" \/ sup \in {"announce", "inform"}
PipesInSync ==
    /\ ~PipesOpen => stdin = <<>> /\ stdout = <<>>
    /\ sup # "wait" => stdin = <<>>
    /\ sup # "wait" /\ Heard => stdout = <<>>
    /\ ~Heard /\ child = "loading" => stdout = <<>>
    /\ ~Heard => \A i \in DOMAIN stdout : stdout[i].kind \notin ReplyKinds
    /\ PipesOpen /\ Heard => child \notin {"none", "loading"}
    /\ PipesOpen => child # "none"
    /\ sup \in {"begin", "spawn"} => slot # "ok"
    /\ Len(stdin) + Len(stdout) <= 1

\* An answer is the caller's own, and comes from the worker only.
Inv == /\ TypeOK
       /\ JobInHand
       /\ FramesMatchIds /\ OwnAnswer
       /\ WaitingHeld /\ HeldOnce /\ QueueEmptied
       /\ ChildAccounted /\ OutcomeDecided /\ FatalLast
       /\ OnlyPokeBeforeReady
===============================================================================
