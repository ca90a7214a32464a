--------------------------- MODULE SupervisorInSync ---------------------------
(***************************************************************************)
(* Proof that the session and its worker stay in step: with a worker that  *)
(* writes no more than the handshake and one reply to each request, no     *)
(* reply is left for the request after it.                                 *)
(***************************************************************************)
EXTENDS SupervisorProofs

\* A pipe with at most one frame.
LEMMA OneFrame ==
    ASSUME NEW S, NEW s \in Seq(S)
    PROVE  /\ Len(s) \in Nat /\ (Len(s) = 0 <=> s = <<>>)
           /\ Len(s) <= 1 /\ s # <<>> => Tail(s) = <<>>
<1>1. \A t \in Seq(S) : Len(t) \in Nat /\ (Len(t) = 0 <=> t = <<>>)
  OBVIOUS
<1>2. s # <<>> => Tail(s) \in Seq(S) /\ Len(Tail(s)) = Len(s) - 1
  OBVIOUS
<1> QED
  BY <1>1, <1>2

LEMMA OneMoreFrame ==
    ASSUME NEW S, NEW e \in S, NEW s \in Seq(S), s = <<>>
    PROVE  /\ Append(s, e) # <<>> /\ Len(Append(s, e)) = 1
           /\ \A i \in DOMAIN Append(s, e) : Append(s, e)[i] = e
  OBVIOUS

LEMMA NoFrame == Len(<<>>) = 0 /\ DOMAIN <<>> = {}
  OBVIOUS

\* What ends the session empties the pipes.
LEMMA Emptied ==
    ASSUME stdin' = <<>>, stdout' = <<>>, ~PipesOpen', sup' \notin {"begin", "spawn"}
    PROVE  PipesInSync'
  BY NoFrame DEF PipesInSync, PipesOpen, SessionPoints

LEMMA EndSessionInSync == ASSUME NEW o, NEW v, EndSession(o, v) PROVE PipesInSync'
  BY Emptied DEF EndSession, PipesOpen, SessionPoints

\* Elsewhere than in the session and the worker nothing moves.
LEMMA OthersInSync ==
    ASSUME PipesInSync, OwnerStep \/ Signal \/ Finished \/ UNCHANGED vars
                        \/ \E r \in Requests : Caller(r)
    PROVE  PipesInSync'
<1>1. UNCHANGED <<sup, slot, child, stdin, stdout>>
  BY DEF OwnerStep, Started, StartFails, StartTimeout, StopAdmitting, PokeSupervisor, Stopped,
         ForceStop, KillWaitOver, Signal, Finished, vars, Caller, Admit, CheckState, Send, Receive,
         Cancel, handle, start, session, process
<1> QED
  BY <1>1 DEF PipesInSync, PipesOpen, Heard

\* The session reads the handshake before it takes anything for a reply, and the reply to
\* the request that it waits for before it writes another.
LEMMA SessionInSync == ASSUME Inv, PipesInSync, SupervisorStep PROVE PipesInSync'
<1> USE DEF handle, start, session, process, calls
<1>0. /\ stdin \in Seq([id : Nat, req : Jobs]) /\ stdout \in Seq(Frames)
      /\ sup \in SessionPoints => slot \in {"pending", "ok"}
      /\ sup \in {"write", "wait"} => slot = "ok"
      /\ sup = "check" /\ slot = "pending" => state = "ShuttingDown"
  BY DEF Inv, TypeOK, OutcomeDecided, OnlyPokeBeforeReady, BeforeEnd, SessionPoints, JobInHand
<1>1. CASE \E o, v : EndSession(o, v)
  BY <1>1, EndSessionInSync
<1>2. CASE Begin \/ SpawnFails \/ Publish \/ Closing \/ Reap \/ GraceOver \/ GiveUp
           \/ MarkState \/ Clear \/ Report \/ Drain \/ Drop
  BY <1>2 DEF Begin, SpawnFails, Publish, Closing, Reap, GraceOver, GiveUp, MarkState, Clear,
              Report, Drain, Drop, PipesInSync, PipesOpen, SessionPoints, Heard
<1>3. CASE SpawnOk
  BY <1>0, <1>3, NoFrame DEF SpawnOk, PipesInSync, PipesOpen, SessionPoints, Heard
<1>4. CASE RecordPid \/ TakeJob \/ IdlePoll \/ Announce \/ Inform
  BY <1>0, <1>4 DEF RecordPid, TakeJob, IdlePoll, Announce, Inform, Settle, PipesInSync, PipesOpen,
                    SessionPoints, Heard
<1>5. CASE LoopTop \/ CheckJob
  BY <1>0, <1>1, <1>5 DEF LoopTop, CheckJob, PipesInSync, PipesOpen, SessionPoints, Heard
<1>6. CASE StartupDeadline \/ SeeChildExit \/ IdleEof \/ WriteFails \/ WaitEof \/ WaitPoll
           \/ InferenceDeadline \/ Kill
  BY <1>1, <1>6 DEF StartupDeadline, SeeChildExit, IdleEof, WriteFails, WaitEof, WaitPoll,
                    InferenceDeadline, Kill
<1>7. CASE IdleFrame
  <2>1. CASE stdout' = Tail(stdout) /\ sup' = "announce" /\ slot = "pending" /\ UNCHANGED stdin
    <3>1. stdin = <<>> /\ Tail(stdout) = <<>> /\ child \notin {"none", "loading"}
      BY <1>0, <1>7, <2>1, OneFrame, NoFrame
      DEF IdleFrame, PipesInSync, PipesOpen, SessionPoints, Heard
    <3> QED
      BY <1>7, <2>1, <3>1, NoFrame DEF IdleFrame, PipesInSync, PipesOpen, SessionPoints, Heard
  <2> QED
    BY <1>1, <1>7, <2>1 DEF IdleFrame
<1>8. CASE WriteOk
  <2>1. [id |-> Len(issued) + 1, req |-> job] \in [id : Nat, req : Jobs]
    BY <1>8 DEF WriteOk, Inv, TypeOK, JobInHand
  <2>2. slot = "ok" /\ stdin = <<>> /\ stdout = <<>> /\ child \notin {"none", "loading"}
    BY <1>0, <1>8 DEF WriteOk, PipesInSync, PipesOpen, SessionPoints, Heard
  <2>3. Len(stdin') = 1 /\ Len(stdout') = 0
    BY <1>0, <1>8, <2>1, <2>2, OneMoreFrame, NoFrame DEF WriteOk
  <2> QED
    BY <1>8, <2>2, <2>3 DEF WriteOk, PipesInSync, PipesOpen, SessionPoints, Heard
<1>9. CASE WaitFrame
  <2>1. CASE stdout' = Tail(stdout) /\ sup' = "top" /\ UNCHANGED stdin
    <3>1. stdin = <<>> /\ Tail(stdout) = <<>> /\ slot = "ok"
      BY <1>0, <1>9, OneFrame DEF WaitFrame, PipesInSync
    <3> QED
      BY <1>9, <2>1, <3>1, NoFrame DEF WaitFrame, PipesInSync, PipesOpen, SessionPoints, Heard
  <2> QED
    BY <1>1, <1>9, <2>1 DEF WaitFrame
<1> QED
  BY <1>2, <1>3, <1>4, <1>5, <1>6, <1>7, <1>8, <1>9 DEF SupervisorStep

\* The worker writes once when it has loaded and once for each request that it reads.
LEMMA WorkerInSync == ASSUME NoStrays, Inv, PipesInSync, ChildActs PROVE PipesInSync'
<1> USE DEF handle, start, session, process, calls
<1>0. /\ stdin \in Seq([id : Nat, req : Jobs]) /\ stdout \in Seq(Frames)
      /\ sup = "wait" => slot = "ok"
  BY DEF Inv, TypeOK, OutcomeDecided, OnlyPokeBeforeReady, BeforeEnd, SessionPoints
<1>1. ASSUME NEW k \in {"ready", "not_ready"}, child = "loading", Emit(k, 0, Poke), UNCHANGED stdin,
             NEW c \in {"serving", "leaving"}, ChildStep(c)
      PROVE  PipesInSync'
  <2>1. [kind |-> k, id |-> 0, req |-> Poke] \in Frames
    BY DEF Frames, Jobs
  <2>2. ~Heard /\ sup # "wait" /\ stdin = <<>> /\ stdout = <<>>
    BY <1>0, <1>1 DEF ChildStep, PipesInSync, Heard
  <2>3. Len(stdin') = 0 /\ Len(stdout') = 1 /\ \A i \in DOMAIN stdout' : stdout'[i].kind = k
    BY <1>0, <1>1, <2>1, <2>2, OneMoreFrame, NoFrame DEF Emit
  <2> QED
    BY <1>1, <2>2, <2>3 DEF ChildStep, PipesInSync, PipesOpen, Heard, ReplyKinds
<1>2. ASSUME NEW k \in {"ok", "reject", "fatal", "odd_error"}, NEW i \in Nat, stdin # <<>>,
             stdin' = Tail(stdin), child = "serving", Emit(k, i, Head(stdin).req),
             NEW c \in {"serving", "leaving"}, ChildStep(c)
      PROVE  PipesInSync'
  <2>1. Head(stdin).req \in Jobs
    BY <1>0, <1>2, SeqFacts
  <2>2. [kind |-> k, id |-> i, req |-> Head(stdin).req] \in Frames
    BY <2>1 DEF Frames
  <2>3. sup = "wait" /\ slot = "ok" /\ stdout = <<>> /\ Tail(stdin) = <<>>
    BY <1>0, <1>2, OneFrame DEF PipesInSync
  <2>4. Len(stdin') = 0 /\ Len(stdout') = 1
    BY <1>0, <1>2, <2>2, <2>3, OneMoreFrame, NoFrame DEF Emit
  <2> QED
    BY <1>2, <2>3, <2>4 DEF ChildStep, PipesInSync, PipesOpen, SessionPoints, Heard
<1>3. CASE WorkerReady \/ WorkerCannotLoad
  BY <1>1, <1>3 DEF WorkerReady, WorkerCannotLoad
<1>4. CASE Serve \/ ServeWrong
  <2>1. stdin # <<>> => Head(stdin) \in [id : Nat, req : Jobs]
    BY <1>0, SeqFacts
  <2> QED
    BY <1>2, <1>4, <2>1 DEF Serve, ServeWrong
<1>5. ~Stray
  BY DEF Stray, NoStrays
<1>6. CASE Exit
  BY <1>6 DEF Exit, PipesInSync, PipesOpen, Heard
<1> QED
  BY <1>3, <1>4, <1>5, <1>6 DEF ChildActs

LEMMA InSyncInit == Init => PipesInSync
  BY NoFrame DEF Init, PipesInSync, PipesOpen, SessionPoints, Heard

LEMMA InSyncNext == ASSUME NoStrays, Inv, PipesInSync, [Next]_vars PROVE PipesInSync'
  BY SessionInSync, WorkerInSync, OthersInSync DEF Next

LEMMA InStep == Inv /\ PipesInSync => InSync
  BY NoFrame DEF Inv, OutcomeDecided, BeforeEnd, SessionPoints, PipesInSync, Heard, InSync

\* An idle session has no reply outstanding and none unread, and at most one frame is ever
\* in the pipes, however late, lost or wrong the replies are.
THEOREM InSyncAlways == NoStrays => (Spec => []InSync)
<1> SUFFICES ASSUME NoStrays PROVE Spec => []InSync
  OBVIOUS
<1>1. Inv /\ PipesInSync /\ [Next]_vars => PipesInSync'
  BY InSyncNext
<1> QED
  BY Invariance, InSyncInit, <1>1, InStep, PTL DEF Spec
===============================================================================
