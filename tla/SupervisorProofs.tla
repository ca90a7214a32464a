--------------------------- MODULE SupervisorProofs ---------------------------
(***************************************************************************)
(* Proofs about Supervisor for any number of callers, any capacity of the  *)
(* channel, any number of permits and any set of worker faults.            *)
(***************************************************************************)
EXTENDS SupervisorInv, TLAPS

-------------------------------------------------------------------------------
(* Sequences and answers                                                   *)

\* What taking from and adding to a channel or a pipe yields.
LEMMA SeqFacts ==
    ASSUME NEW S, NEW s \in Seq(S)
    PROVE  /\ \A e \in S : Append(s, e) \in Seq(S)
           /\ s # <<>> => Head(s) \in S /\ Tail(s) \in Seq(S)
  OBVIOUS

LEMMA EmptySeq == ASSUME NEW S PROVE <<>> \in Seq(S)
  OBVIOUS

\* The elements of a tail, and of a sequence with one more, where they were.
LEMMA TailElements ==
    ASSUME NEW S, NEW s \in Seq(S), s # <<>>
    PROVE  /\ Head(s) = s[1] /\ 1 \in DOMAIN s
           /\ \A i \in DOMAIN Tail(s) : i + 1 \in DOMAIN s /\ Tail(s)[i] = s[i + 1]
  OBVIOUS

LEMMA AppendElements ==
    ASSUME NEW S, NEW s \in Seq(S), NEW e \in S
    PROVE  /\ Len(Append(s, e)) = Len(s) + 1
           /\ Append(s, e)[Len(s) + 1] = e
           /\ \A i \in DOMAIN s : Append(s, e)[i] = s[i]
           /\ \A i \in DOMAIN Append(s, e) : i \in DOMAIN s \/ i = Len(s) + 1
  OBVIOUS

LEMMA SeqElements == ASSUME NEW S, NEW s \in Seq(S) PROVE \A i \in DOMAIN s : s[i] \in S
  OBVIOUS

\* The verdicts are not callers.
LEMMA VerdictsApart == /\ "none" \notin Errors /\ "none" \notin Jobs /\ Errors \cap Jobs = {}
                       /\ {"shutting_down", "worker_failed", "inference_timeout",
                           "overloaded", "unavailable"} \subseteq Errors
  BY RequestsAssumption DEF Errors, Jobs

\* Answering a job leaves every reply a verdict.
LEMMA AnswerType ==
    ASSUME TypeOK, NEW j, NEW v \in Errors \cup Jobs
    PROVE  Answer(j, v) \in [Requests -> {"none"} \cup Errors \cup Jobs]
  BY DEF TypeOK, Answer

\* The variables that the end of a session assigns, each in its type.
SessionType ==
    /\ outcome \in {"none", "Shutdown", "Kill", "Restart"}
    /\ reply \in [Requests -> {"none"} \cup Errors \cup Jobs]
    /\ job \in Jobs \cup {NoJob}
    /\ stdin \in Seq([id : Nat, req : Jobs])
    /\ stdout \in Seq(Frames)
    /\ sup \in SupPoints

\* The end of a session leaves them well typed.
LEMMA EndSessionType ==
    ASSUME TypeOK, NEW o \in {"Shutdown", "Kill", "Restart"}, NEW v \in Errors \cup Jobs,
           EndSession(o, v)
    PROVE  SessionType'
  BY AnswerType, EmptySeq DEF EndSession, SessionType, SupPoints

\* A caller is told an error, or what some frame carries.
LEMMA VerdictType == ASSUME NEW f \in Frames PROVE Verdict(f) \in Errors \cup Jobs
  BY DEF Verdict, Errors, Frames

\* What the worker writes is a frame.
LEMMA EmitType ==
    ASSUME TypeOK, NEW i \in Nat, NEW q \in Jobs,
           NEW k \in {"ready", "not_ready", "ok", "reject", "fatal", "odd_error", "garbage",
                      "oversized"},
           Emit(k, i, q)
    PROVE  stdout' \in Seq(Frames)
  <1>1. [kind |-> k, id |-> i, req |-> q] \in Frames
    BY DEF Frames
  <1>2. QED
    BY <1>1, SeqFacts DEF Emit, TypeOK

-------------------------------------------------------------------------------
(* Types                                                                   *)

\* No step leaves a variable outside its type.
LEMMA TypeNext == Inv /\ [Next]_vars => TypeOK'
<1> SUFFICES ASSUME TypeOK, JobInHand, [Next]_vars PROVE TypeOK'
  BY DEF Inv
<1> USE DEF handle, start, session, process, calls
<1>1. CASE Begin
  BY <1>1 DEF Begin, Settle, TypeOK, SupPoints, SessionPoints
<1>2. CASE SpawnOk
  BY <1>2 DEF SpawnOk, Settle, TypeOK, SupPoints, SessionPoints
<1>3. CASE SpawnFails
  BY <1>3 DEF SpawnFails, Settle, TypeOK, SupPoints, SessionPoints
<1>4. CASE RecordPid
  BY <1>4 DEF RecordPid, Settle, TypeOK, SupPoints, SessionPoints
<1>5. CASE IdlePoll
  BY <1>5 DEF IdlePoll, Settle, TypeOK, SupPoints, SessionPoints
<1>6. CASE Announce
  BY <1>6 DEF Announce, Settle, TypeOK, SupPoints, SessionPoints
<1>7. CASE Inform
  BY <1>7 DEF Inform, Settle, TypeOK, SupPoints, SessionPoints
<1>8. CASE Publish
  BY <1>8 DEF Publish, Settle, TypeOK, SupPoints, SessionPoints
<1>9. CASE Closing
  BY <1>9 DEF Closing, Settle, TypeOK, SupPoints, SessionPoints
<1>10. CASE Reap
  BY <1>10 DEF Reap, Settle, TypeOK, SupPoints, SessionPoints
<1>11. CASE GraceOver
  BY <1>11 DEF GraceOver, Settle, TypeOK, SupPoints, SessionPoints
<1>12. CASE GiveUp
  BY <1>12 DEF GiveUp, Settle, TypeOK, SupPoints, SessionPoints
<1>13. CASE MarkState
  BY <1>13 DEF MarkState, Settle, TypeOK, SupPoints, SessionPoints
<1>14. CASE Report
  BY <1>14 DEF Report, Settle, TypeOK, SupPoints, SessionPoints
<1>15. CASE LoopTop
  <2>1. CASE EndSession("Shutdown", "shutting_down")
    <3>1. SessionType'
      BY VerdictsApart, <2>1, EndSessionType
    <3>2. QED
      BY <1>15, <3>1 DEF LoopTop, TypeOK, SessionType
  <2>2. CASE sup' = "idle" /\ UNCHANGED <<outcome, reply, job, stdin, stdout>>
    <3>1. SessionType'
      BY <2>2 DEF TypeOK, SessionType, SupPoints, SessionPoints
    <3>2. QED
      BY <1>15, <3>1 DEF LoopTop, TypeOK, SessionType
  <2>3. QED
    BY <1>15, <2>1, <2>2 DEF LoopTop
<1>16. CASE StartupDeadline
  <2>1. SessionType'
    BY <1>16, VerdictsApart, EndSessionType DEF StartupDeadline
  <2>2. QED
    BY <1>16, <2>1 DEF StartupDeadline, TypeOK, SessionType, Settle
<1>17. CASE TakeJob
  BY <1>17, SeqFacts DEF TakeJob, TypeOK, SupPoints, SessionPoints
<1>18. CASE SeeChildExit
  <2>1. SessionType'
    BY <1>18, VerdictsApart, EndSessionType DEF SeeChildExit
  <2>2. QED
    BY <1>18, <2>1 DEF SeeChildExit, TypeOK, SessionType, Settle
<1>19. CASE IdleFrame
  <2>1. CASE EndSession("Restart", "shutting_down")
    <3>1. SessionType'
      BY VerdictsApart, <2>1, EndSessionType
    <3>2. QED
      BY <1>19, <3>1 DEF IdleFrame, TypeOK, SessionType
  <2>2. CASE stdout # <<>> /\ stdout' = Tail(stdout) /\ sup' = "announce"
              /\ UNCHANGED <<outcome, reply, job, stdin>>
    <3>1. SessionType'
      BY <2>2, SeqFacts DEF TypeOK, SessionType, SupPoints, SessionPoints
    <3>2. QED
      BY <1>19, <3>1 DEF IdleFrame, TypeOK, SessionType
  <2>3. QED
    BY <1>19, <2>1, <2>2 DEF IdleFrame
<1>20. CASE IdleEof
  <2>1. SessionType'
    BY <1>20, VerdictsApart, EndSessionType DEF IdleEof
  <2>2. QED
    BY <1>20, <2>1 DEF IdleEof, TypeOK, SessionType, Settle
<1>21. CASE CheckJob
  <2>1. CASE EndSession("Shutdown", "shutting_down")
    <3>1. SessionType'
      BY VerdictsApart, <2>1, EndSessionType
    <3>2. QED
      BY <1>21, <3>1 DEF CheckJob, TypeOK, SessionType
  <2>2. CASE sup' = "write" /\ UNCHANGED <<outcome, reply, job, stdin, stdout>>
    <3>1. SessionType'
      BY <2>2 DEF TypeOK, SessionType, SupPoints, SessionPoints
    <3>2. QED
      BY <1>21, <3>1 DEF CheckJob, TypeOK, SessionType
  <2>3. QED
    BY <1>21, <2>1, <2>2 DEF CheckJob
<1>22. CASE WriteOk
  <2>0. job \in Jobs
    BY <1>22 DEF WriteOk, TypeOK, JobInHand
  <2>1. issued' \in Seq(Jobs)
    BY <1>22, <2>0, SeqFacts DEF WriteOk, TypeOK
  <2>2. [id |-> Len(issued) + 1, req |-> job] \in [id : Nat, req : Jobs]
    BY <2>0 DEF TypeOK
  <2>3. stdin' \in Seq([id : Nat, req : Jobs])
    BY <1>22, <2>2, SeqFacts DEF WriteOk, TypeOK
  <2>4. QED
    BY <1>22, <2>1, <2>3 DEF WriteOk, TypeOK, SupPoints, SessionPoints
<1>23. CASE WriteFails
  <2>1. SessionType'
    BY <1>23, VerdictsApart, EndSessionType DEF WriteFails
  <2>2. job \in Jobs /\ issued' = Append(issued, job)
    BY <1>23 DEF WriteFails, TypeOK, JobInHand
  <2>3. issued' \in Seq(Jobs)
    BY <2>2, SeqFacts DEF TypeOK
  <2>4. QED
    BY <1>23, <2>1, <2>3 DEF WriteFails, TypeOK, SessionType
<1>24. CASE WaitFrame
  <2>1. Head(stdout) \in Frames /\ Tail(stdout) \in Seq(Frames)
    BY <1>24, SeqFacts DEF WaitFrame, TypeOK
  <2>2. SessionType'
    <3>1. CASE KeepsWorker(Head(stdout))
      <4>1. reply' \in [Requests -> {"none"} \cup Errors \cup Jobs]
        BY <1>24, <2>1, <3>1, VerdictType, AnswerType DEF WaitFrame
      <4>2. QED
        BY <1>24, <2>1, <3>1, <4>1 DEF WaitFrame, TypeOK, SessionType, SupPoints, SessionPoints
    <3>2. CASE ~KeepsWorker(Head(stdout))
      BY <1>24, <2>1, <3>2, VerdictType, EndSessionType DEF WaitFrame
    <3>3. QED
      BY <3>1, <3>2
  <2>3. QED
    BY <1>24, <2>2 DEF WaitFrame, TypeOK, SessionType
<1>25. CASE WaitEof
  <2>1. SessionType'
    BY <1>25, VerdictsApart, EndSessionType DEF WaitEof
  <2>2. QED
    BY <1>25, <2>1 DEF WaitEof, TypeOK, SessionType, Settle
<1>26. CASE WaitPoll
  <2>1. SessionType'
    BY <1>26, VerdictsApart, EndSessionType DEF WaitPoll
  <2>2. QED
    BY <1>26, <2>1 DEF WaitPoll, TypeOK, SessionType
<1>27. CASE InferenceDeadline
  <2>1. SessionType'
    BY <1>27, VerdictsApart, EndSessionType DEF InferenceDeadline
  <2>2. QED
    BY <1>27, <2>1 DEF InferenceDeadline, TypeOK, SessionType, Settle
<1>28. CASE Kill
  <2>1. SessionType'
    BY <1>28, VerdictsApart, EndSessionType DEF Kill
  <2>2. force' \in BOOLEAN
    BY <1>28 DEF Kill
  <2>3. QED
    BY <1>28, <2>1, <2>2 DEF Kill, TypeOK, SessionType
<1>29. CASE Clear
  <2>1. info' \in BOOLEAN /\ pid' \in BOOLEAN /\ sup' \in SupPoints
    BY <1>29 DEF Clear, SupPoints
  <2>2. QED
    BY <1>29, <2>1 DEF Clear, TypeOK
<1>30. CASE Drain
  <2>1. queue' \in Seq(Jobs)
    <3>1. CASE queue = <<>>
      BY <1>30, <3>1 DEF Drain, TypeOK
    <3>2. CASE queue # <<>>
      BY <1>30, <3>2, SeqFacts DEF Drain, TypeOK
    <3>3. QED
      BY <3>1, <3>2
  <2>2. reply' \in [Requests -> {"none"} \cup Errors \cup Jobs]
    BY <1>30, VerdictsApart, AnswerType DEF Drain, TypeOK
  <2>3. sup' \in SupPoints
    BY <1>30 DEF Drain, SupPoints
  <2>4. QED
    BY <1>30, <2>1, <2>2, <2>3 DEF Drain, TypeOK
<1>31. CASE Drop
  BY <1>31, VerdictsApart, SeqFacts DEF Drop, TypeOK, Settle, SupPoints
<1>32. CASE Started
  BY <1>32 DEF Started, TypeOK, SupPoints, SessionPoints
<1>33. CASE StartFails
  BY <1>33 DEF StartFails, TypeOK, SupPoints, SessionPoints
<1>34. CASE StartTimeout
  BY <1>34 DEF StartTimeout, TypeOK, SupPoints, SessionPoints
<1>35. CASE StopAdmitting
  BY <1>35 DEF StopAdmitting, TypeOK, SupPoints, SessionPoints
<1>36. CASE ForceStop
  BY <1>36 DEF ForceStop, TypeOK, SupPoints, SessionPoints
<1>37. CASE KillWaitOver
  BY <1>37 DEF KillWaitOver, TypeOK, SupPoints, SessionPoints
<1>38. CASE Signal
  BY <1>38 DEF Signal, TypeOK, SupPoints, SessionPoints
<1>39. CASE PokeSupervisor
  BY <1>39, SeqFacts DEF PokeSupervisor, TypeOK, Jobs
<1>40. CASE Stopped
  <2>1. done' \in BOOLEAN
    BY <1>40 DEF Stopped
  <2>2. QED
    BY <1>40, <2>1 DEF Stopped, TypeOK
<1>41. CASE Exit
  BY <1>41 DEF Exit, TypeOK, SupPoints, SessionPoints
<1>42. CASE WorkerReady
  BY <1>42, SeqFacts DEF WorkerReady, TypeOK, Emit, ChildStep, Frames, Jobs
<1>43. CASE WorkerCannotLoad
  BY <1>43, SeqFacts DEF WorkerCannotLoad, TypeOK, Emit, ChildStep, Frames, Jobs
<1>44. CASE Serve
  <2>0. Head(stdin) \in [id : Nat, req : Jobs] /\ Tail(stdin) \in Seq([id : Nat, req : Jobs])
    BY <1>44, SeqFacts DEF Serve, TypeOK
  <2>1. Head(stdin).id \in Nat /\ Head(stdin).req \in Jobs
        /\ stdin' \in Seq([id : Nat, req : Jobs])
    BY <1>44, <2>0 DEF Serve
  <2>2. stdout' \in Seq(Frames)
    BY <1>44, <2>1, EmitType DEF Serve
  <2>3. child' \in {"serving", "leaving"}
    BY <1>44 DEF Serve, ChildStep
  <2>4. QED
    BY <1>44, <2>1, <2>2, <2>3 DEF Serve, ChildStep, TypeOK
<1>45. CASE ServeWrong
  <2>0. Head(stdin) \in [id : Nat, req : Jobs] /\ Tail(stdin) \in Seq([id : Nat, req : Jobs])
    BY <1>45, SeqFacts DEF ServeWrong, TypeOK
  <2>1. Head(stdin).id \in Nat /\ Head(stdin).req \in Jobs
        /\ stdin' \in Seq([id : Nat, req : Jobs])
    BY <1>45, <2>0 DEF ServeWrong
  <2>2. stdout' \in Seq(Frames)
    BY <1>45, <2>1, EmitType DEF ServeWrong
  <2>3. child' \in {"serving", "leaving"}
    BY <1>45 DEF ServeWrong, ChildStep
  <2>4. QED
    BY <1>45, <2>1, <2>2, <2>3 DEF ServeWrong, ChildStep, TypeOK
<1>46. CASE Stray
  <2>1. stdout' \in Seq(Frames)
    <3>1. CASE Emit("garbage", 0, Poke) \/ Emit("oversized", 0, Poke)
      BY <3>1, EmitType DEF Jobs
    <3>2. ASSUME NEW i \in 1..(Len(issued) - Len(stdin)), Emit("ok", i, issued[i])
          PROVE  stdout' \in Seq(Frames)
      <4>1. i \in Nat /\ issued[i] \in Jobs
        BY DEF TypeOK
      <4>2. QED
        BY <3>2, <4>1, EmitType
    <3>3. QED
      BY <1>46, <3>1, <3>2 DEF Stray
  <2>2. QED
    BY <1>46, <2>1 DEF Stray, ChildStep, TypeOK
<1>47. ASSUME NEW r \in Requests, Receive(r) PROVE TypeOK'
  BY <1>47 DEF Receive, Return, TypeOK, SupPoints, SessionPoints
<1>48. ASSUME NEW r \in Requests, Cancel(r) PROVE TypeOK'
  BY <1>48 DEF Cancel, Return, TypeOK, SupPoints, SessionPoints
<1>49. ASSUME NEW r \in Requests, Admit(r) PROVE TypeOK'
  <2>1. /\ phase' \in [Requests -> {"new", "admitted", "sending", "waiting",
                                    "returned", "canceled"}]
        /\ reply' \in [Requests -> {"none"} \cup Errors \cup Jobs]
    BY <1>49 DEF Admit, Return, TypeOK, Errors
  <2>2. queue' \in Seq(Jobs)
    BY <1>49 DEF Admit, TypeOK
  <2>3. QED
    BY <1>49, <2>1, <2>2 DEF Admit, TypeOK
<1>50. ASSUME NEW r \in Requests, CheckState(r) PROVE TypeOK'
  <2>1. /\ phase' \in [Requests -> {"new", "admitted", "sending", "waiting",
                                    "returned", "canceled"}]
        /\ reply' \in [Requests -> {"none"} \cup Errors \cup Jobs]
    BY <1>50 DEF CheckState, Return, TypeOK, Errors
  <2>2. queue' \in Seq(Jobs)
    BY <1>50 DEF CheckState, TypeOK
  <2>3. QED
    BY <1>50, <2>1, <2>2 DEF CheckState, TypeOK
<1>51. ASSUME NEW r \in Requests, Send(r) PROVE TypeOK'
  <2>1. /\ phase' \in [Requests -> {"new", "admitted", "sending", "waiting",
                                    "returned", "canceled"}]
        /\ reply' \in [Requests -> {"none"} \cup Errors \cup Jobs]
    BY <1>51 DEF Send, Return, TypeOK, Errors
  <2>2. queue' \in Seq(Jobs)
    <3>1. Append(queue, r) \in Seq(Jobs)
      BY SeqFacts DEF TypeOK, Jobs
    <3>2. QED
      BY <1>51, <3>1 DEF Send, TypeOK
  <2>3. QED
    BY <1>51, <2>1, <2>2 DEF Send, TypeOK
<1>52. CASE UNCHANGED vars
  BY <1>52 DEF vars, TypeOK, SupPoints, SessionPoints
<1>53. QED
  BY <1>1, <1>2, <1>3, <1>4, <1>5, <1>6, <1>7, <1>8, <1>9, <1>10, <1>11, <1>12, <1>13,
     <1>14, <1>15, <1>16, <1>17, <1>18, <1>19, <1>20, <1>21, <1>22, <1>23, <1>24,
     <1>25, <1>26, <1>27, <1>28, <1>29, <1>30, <1>31, <1>32, <1>33, <1>34, <1>35,
     <1>36, <1>37, <1>38, <1>39, <1>40, <1>41, <1>42, <1>43, <1>44, <1>45, <1>46,
     <1>47, <1>48, <1>49, <1>50, <1>51, <1>52
  DEF Next, SupervisorStep, OwnerStep, ChildActs, Caller, Finished

-------------------------------------------------------------------------------
(* Who holds what: the supervision task, the child, the queue              *)

\* No step takes a job without holding it, or forgets one it holds.
LEMMA JobNext == Inv /\ [Next]_vars => JobInHand'
<1> SUFFICES ASSUME Inv, [Next]_vars PROVE JobInHand'
  OBVIOUS
<1> USE DEF Inv, handle, start, session, process, calls
<1>1. CASE Begin \/ SpawnOk \/ SpawnFails \/ RecordPid \/ LoopTop \/ StartupDeadline \/
           SeeChildExit \/ IdleFrame
  BY <1>1 DEF Begin, SpawnOk, SpawnFails, RecordPid, LoopTop, StartupDeadline,
           SeeChildExit, IdleFrame, EndSession, Settle, JobInHand, TypeOK, Jobs
<1>2. CASE IdleEof \/ IdlePoll \/ Announce \/ Inform \/ CheckJob \/ WriteOk \/
           WriteFails \/ WaitFrame
  BY <1>2 DEF IdleEof, IdlePoll, Announce, Inform, CheckJob, WriteOk, WriteFails,
           WaitFrame, EndSession, Settle, JobInHand, TypeOK, Jobs
<1>3. CASE WaitEof \/ WaitPoll \/ InferenceDeadline \/ Kill \/ Publish \/ Closing \/
           Reap \/ GraceOver
  BY <1>3 DEF WaitEof, WaitPoll, InferenceDeadline, Kill, Publish, Closing, Reap,
           GraceOver, EndSession, Settle, JobInHand, TypeOK, Jobs
<1>4. CASE GiveUp \/ MarkState \/ Clear \/ Report \/ Drain \/ Drop
  BY <1>4 DEF GiveUp, MarkState, Clear, Report, Drain, Drop, Settle, JobInHand, TypeOK,
           Jobs
<1>5. CASE TakeJob
  BY <1>5, SeqFacts, RequestsAssumption DEF TakeJob, JobInHand, TypeOK, Jobs
<1>6. CASE Started \/ StartFails \/ StartTimeout \/ StopAdmitting \/ PokeSupervisor \/
           Stopped \/ ForceStop \/ KillWaitOver
  BY <1>6 DEF Started, StartFails, StartTimeout, StopAdmitting, PokeSupervisor, Stopped,
           ForceStop, KillWaitOver, JobInHand, TypeOK, Jobs
<1>7. CASE Signal
  BY <1>7 DEF Signal, JobInHand, TypeOK, Jobs
<1>8. CASE WorkerReady \/ WorkerCannotLoad \/ Serve \/ ServeWrong \/ Stray \/ Exit
  BY <1>8 DEF WorkerReady, WorkerCannotLoad, Serve, ServeWrong, Stray, Exit, ChildStep,
           Emit, JobInHand, TypeOK, Jobs
<1>9. ASSUME NEW r \in Requests, Admit(r) \/ CheckState(r) \/ Send(r) \/ Receive(r) \/ Cancel(r)
      PROVE  JobInHand'
  BY <1>9 DEF Admit, CheckState, Send, Receive, Cancel, Return, JobInHand, TypeOK, Jobs
<1>10. CASE UNCHANGED vars
  BY <1>10 DEF vars, JobInHand, TypeOK, Jobs
<1>11. QED
  BY <1>1, <1>2, <1>3, <1>4, <1>5, <1>6, <1>7, <1>8, <1>9, <1>10
  DEF Next, SupervisorStep, OwnerStep, ChildActs, Caller, Finished

\* The supervision task never gets past a child it has not dealt with.
LEMMA ChildNext == Inv /\ [Next]_vars => ChildAccounted'
<1> SUFFICES ASSUME Inv, [Next]_vars PROVE ChildAccounted'
  OBVIOUS
<1> USE DEF Inv, handle, start, session, process, calls
<1>1. CASE Begin \/ SpawnOk \/ SpawnFails \/ RecordPid \/ LoopTop \/ StartupDeadline \/
           TakeJob \/ SeeChildExit
  BY <1>1 DEF Begin, SpawnOk, SpawnFails, RecordPid, LoopTop, StartupDeadline, TakeJob,
           SeeChildExit, EndSession, Settle, ChildAccounted, SessionPoints
<1>2. CASE IdleFrame \/ IdleEof \/ IdlePoll \/ Announce \/ Inform \/ CheckJob \/
           WriteOk \/ WriteFails
  BY <1>2 DEF IdleFrame, IdleEof, IdlePoll, Announce, Inform, CheckJob, WriteOk,
           WriteFails, EndSession, Settle, ChildAccounted, SessionPoints
<1>3. CASE WaitFrame \/ WaitEof \/ WaitPoll \/ InferenceDeadline \/ Kill \/ Publish \/
           Closing \/ Reap
  BY <1>3 DEF WaitFrame, WaitEof, WaitPoll, InferenceDeadline, Kill, Publish, Closing,
           Reap, EndSession, Settle, ChildAccounted, SessionPoints
<1>4. CASE GraceOver \/ GiveUp \/ MarkState \/ Clear \/ Report \/ Drain \/ Drop
  BY <1>4 DEF GraceOver, GiveUp, MarkState, Clear, Report, Drain, Drop, Settle,
           ChildAccounted, SessionPoints
<1>5. CASE Started \/ StartFails \/ StartTimeout \/ StopAdmitting \/ PokeSupervisor \/
           Stopped \/ ForceStop \/ KillWaitOver
  BY <1>5 DEF Started, StartFails, StartTimeout, StopAdmitting, PokeSupervisor, Stopped,
           ForceStop, KillWaitOver, ChildAccounted, SessionPoints
<1>6. CASE Signal
  BY <1>6 DEF Signal, ChildAccounted, SessionPoints
<1>7. CASE WorkerReady \/ WorkerCannotLoad \/ Serve \/ ServeWrong \/ Stray \/ Exit
  BY <1>7 DEF WorkerReady, WorkerCannotLoad, Serve, ServeWrong, Stray, Exit, ChildStep,
           Emit, ChildAccounted, SessionPoints
<1>8. ASSUME NEW r \in Requests, Admit(r) \/ CheckState(r) \/ Send(r) \/ Receive(r) \/ Cancel(r)
      PROVE  ChildAccounted'
  BY <1>8 DEF Admit, CheckState, Send, Receive, Cancel, Return, ChildAccounted,
           SessionPoints
<1>9. CASE UNCHANGED vars
  BY <1>9 DEF vars, ChildAccounted, SessionPoints
<1>10. QED
  BY <1>1, <1>2, <1>3, <1>4, <1>5, <1>6, <1>7, <1>8, <1>9
  DEF Next, SupervisorStep, OwnerStep, ChildActs, Caller, Finished

\* A failed session is published before anything else is done about it.
LEMMA OutcomeNext == Inv /\ [Next]_vars => OutcomeDecided'
<1> SUFFICES ASSUME Inv, [Next]_vars PROVE OutcomeDecided'
  OBVIOUS
<1> USE DEF Inv, handle, start, session, process, calls
<1>1. CASE Begin \/ SpawnOk \/ SpawnFails \/ RecordPid \/ LoopTop \/ StartupDeadline \/
           TakeJob \/ SeeChildExit
  BY <1>1 DEF Begin, SpawnOk, SpawnFails, RecordPid, LoopTop, StartupDeadline, TakeJob,
           SeeChildExit, EndSession, Settle, OutcomeDecided, SessionPoints, BeforeEnd
<1>2. CASE IdleFrame \/ IdleEof \/ IdlePoll \/ Announce \/ Inform \/ CheckJob \/
           WriteOk \/ WriteFails
  BY <1>2 DEF IdleFrame, IdleEof, IdlePoll, Announce, Inform, CheckJob, WriteOk,
           WriteFails, EndSession, Settle, OutcomeDecided, SessionPoints, BeforeEnd
<1>3. CASE WaitFrame \/ WaitEof \/ WaitPoll \/ InferenceDeadline \/ Kill \/ Publish \/
           Closing \/ Reap
  BY <1>3 DEF WaitFrame, WaitEof, WaitPoll, InferenceDeadline, Kill, Publish, Closing,
           Reap, EndSession, Settle, OutcomeDecided, SessionPoints, BeforeEnd
<1>4. CASE GraceOver \/ GiveUp \/ MarkState \/ Clear \/ Report \/ Drain \/ Drop
  BY <1>4 DEF GraceOver, GiveUp, MarkState, Clear, Report, Drain, Drop, Settle,
           OutcomeDecided, SessionPoints, BeforeEnd
<1>5. CASE Started \/ StartFails \/ StartTimeout \/ StopAdmitting \/ PokeSupervisor \/
           Stopped \/ ForceStop \/ KillWaitOver
  BY <1>5 DEF Started, StartFails, StartTimeout, StopAdmitting, PokeSupervisor, Stopped,
           ForceStop, KillWaitOver, OutcomeDecided, SessionPoints, BeforeEnd
<1>6. CASE Signal
  BY <1>6 DEF Signal, OutcomeDecided, SessionPoints, BeforeEnd
<1>7. CASE WorkerReady \/ WorkerCannotLoad \/ Serve \/ ServeWrong \/ Stray \/ Exit
  BY <1>7 DEF WorkerReady, WorkerCannotLoad, Serve, ServeWrong, Stray, Exit, ChildStep,
           Emit, OutcomeDecided, SessionPoints, BeforeEnd
<1>8. ASSUME NEW r \in Requests, Admit(r) \/ CheckState(r) \/ Send(r) \/ Receive(r) \/ Cancel(r)
      PROVE  OutcomeDecided'
  BY <1>8 DEF Admit, CheckState, Send, Receive, Cancel, Return, OutcomeDecided,
           SessionPoints, BeforeEnd
<1>9. CASE UNCHANGED vars
  BY <1>9 DEF vars, OutcomeDecided, SessionPoints, BeforeEnd
<1>10. QED
  BY <1>1, <1>2, <1>3, <1>4, <1>5, <1>6, <1>7, <1>8, <1>9
  DEF Next, SupervisorStep, OwnerStep, ChildActs, Caller, Finished

\* What the fatal channel promises stays true.
LEMMA FatalNext == Inv /\ [Next]_vars => FatalLast'
<1> SUFFICES ASSUME Inv, [Next]_vars PROVE FatalLast'
  OBVIOUS
<1> USE DEF Inv, handle, start, session, process, calls
<1>1. CASE Begin \/ SpawnOk \/ SpawnFails \/ RecordPid \/ LoopTop \/ StartupDeadline \/
           TakeJob \/ SeeChildExit
  BY <1>1 DEF Begin, SpawnOk, SpawnFails, RecordPid, LoopTop, StartupDeadline, TakeJob,
           SeeChildExit, EndSession, Settle, FatalLast, OutcomeDecided, ChildAccounted,
           SessionPoints
<1>2. CASE IdleFrame \/ IdleEof \/ IdlePoll \/ Announce \/ Inform \/ CheckJob \/
           WriteOk \/ WriteFails
  BY <1>2 DEF IdleFrame, IdleEof, IdlePoll, Announce, Inform, CheckJob, WriteOk,
           WriteFails, EndSession, Settle, FatalLast, OutcomeDecided, ChildAccounted,
           SessionPoints
<1>3. CASE WaitFrame \/ WaitEof \/ WaitPoll \/ InferenceDeadline \/ Kill \/ Publish \/
           Closing \/ Reap
  BY <1>3 DEF WaitFrame, WaitEof, WaitPoll, InferenceDeadline, Kill, Publish, Closing,
           Reap, EndSession, Settle, FatalLast, OutcomeDecided, ChildAccounted,
           SessionPoints
<1>4. CASE GraceOver \/ GiveUp \/ MarkState \/ Clear \/ Report \/ Drain \/ Drop
  BY <1>4 DEF GraceOver, GiveUp, MarkState, Clear, Report, Drain, Drop, Settle, FatalLast,
           OutcomeDecided, ChildAccounted, SessionPoints
<1>5. CASE Started \/ StartFails \/ StartTimeout \/ StopAdmitting \/ PokeSupervisor \/
           Stopped \/ ForceStop \/ KillWaitOver
  BY <1>5 DEF Started, StartFails, StartTimeout, StopAdmitting, PokeSupervisor, Stopped,
           ForceStop, KillWaitOver, FatalLast, OutcomeDecided, ChildAccounted,
           SessionPoints
<1>6. CASE Signal
  BY <1>6 DEF Signal, FatalLast, OutcomeDecided, ChildAccounted, SessionPoints
<1>7. CASE WorkerReady \/ WorkerCannotLoad \/ Serve \/ ServeWrong \/ Stray \/ Exit
  BY <1>7 DEF WorkerReady, WorkerCannotLoad, Serve, ServeWrong, Stray, Exit, ChildStep,
           Emit, FatalLast, OutcomeDecided, ChildAccounted, SessionPoints
<1>8. ASSUME NEW r \in Requests, Admit(r) \/ CheckState(r) \/ Send(r) \/ Receive(r) \/ Cancel(r)
      PROVE  FatalLast'
  BY <1>8 DEF Admit, CheckState, Send, Receive, Cancel, Return, FatalLast, OutcomeDecided,
           ChildAccounted, SessionPoints
<1>9. CASE UNCHANGED vars
  BY <1>9 DEF vars, FatalLast, OutcomeDecided, ChildAccounted, SessionPoints
<1>10. QED
  BY <1>1, <1>2, <1>3, <1>4, <1>5, <1>6, <1>7, <1>8, <1>9
  DEF Next, SupervisorStep, OwnerStep, ChildActs, Caller, Finished

\* Nothing is queued once the supervision task has gone.
LEMMA QueueNext == Inv /\ [Next]_vars => QueueEmptied'
<1> SUFFICES ASSUME Inv, [Next]_vars PROVE QueueEmptied'
  OBVIOUS
<1> USE DEF Inv, handle, start, session, process, calls
<1>1. CASE Begin \/ SpawnOk \/ SpawnFails \/ RecordPid \/ LoopTop \/ StartupDeadline \/
           TakeJob \/ SeeChildExit
  BY <1>1 DEF Begin, SpawnOk, SpawnFails, RecordPid, LoopTop, StartupDeadline, TakeJob,
           SeeChildExit, EndSession, Settle, QueueEmptied
<1>2. CASE IdleFrame \/ IdleEof \/ IdlePoll \/ Announce \/ Inform \/ CheckJob \/
           WriteOk \/ WriteFails
  BY <1>2 DEF IdleFrame, IdleEof, IdlePoll, Announce, Inform, CheckJob, WriteOk,
           WriteFails, EndSession, Settle, QueueEmptied
<1>3. CASE WaitFrame \/ WaitEof \/ WaitPoll \/ InferenceDeadline \/ Kill \/ Publish \/
           Closing \/ Reap
  BY <1>3 DEF WaitFrame, WaitEof, WaitPoll, InferenceDeadline, Kill, Publish, Closing,
           Reap, EndSession, Settle, QueueEmptied
<1>4. CASE GraceOver \/ GiveUp \/ MarkState \/ Clear \/ Report \/ Drain \/ Drop
  BY <1>4 DEF GraceOver, GiveUp, MarkState, Clear, Report, Drain, Drop, Settle,
           QueueEmptied
<1>5. CASE Started \/ StartFails \/ StartTimeout \/ StopAdmitting \/ PokeSupervisor \/
           Stopped \/ ForceStop \/ KillWaitOver
  BY <1>5 DEF Started, StartFails, StartTimeout, StopAdmitting, PokeSupervisor, Stopped,
           ForceStop, KillWaitOver, QueueEmptied
<1>6. CASE Signal
  BY <1>6 DEF Signal, QueueEmptied
<1>7. CASE WorkerReady \/ WorkerCannotLoad \/ Serve \/ ServeWrong \/ Stray \/ Exit
  BY <1>7 DEF WorkerReady, WorkerCannotLoad, Serve, ServeWrong, Stray, Exit, ChildStep,
           Emit, QueueEmptied
<1>8. ASSUME NEW r \in Requests, Admit(r) \/ CheckState(r) \/ Send(r) \/ Receive(r) \/ Cancel(r)
      PROVE  QueueEmptied'
  BY <1>8 DEF Admit, CheckState, Send, Receive, Cancel, Return, QueueEmptied
<1>9. CASE UNCHANGED vars
  BY <1>9 DEF vars, QueueEmptied
<1>10. QED
  BY <1>1, <1>2, <1>3, <1>4, <1>5, <1>6, <1>7, <1>8, <1>9
  DEF Next, SupervisorStep, OwnerStep, ChildActs, Caller, Finished

\* The handshake comes before any request.
LEMMA PokeNext == Inv /\ [Next]_vars => OnlyPokeBeforeReady'
<1> SUFFICES ASSUME Inv, [Next]_vars PROVE OnlyPokeBeforeReady'
  OBVIOUS
<1> USE DEF Inv, handle, start, session, process, calls
<1>1. CASE Begin \/ SpawnOk \/ SpawnFails \/ RecordPid \/ LoopTop \/ StartupDeadline \/
           TakeJob \/ SeeChildExit
  BY <1>1 DEF Begin, SpawnOk, SpawnFails, RecordPid, LoopTop, StartupDeadline, TakeJob,
           SeeChildExit, EndSession, Settle, OnlyPokeBeforeReady, OutcomeDecided,
           JobInHand, TypeOK, SessionPoints, BeforeEnd, Stopping
<1>2. CASE IdleFrame \/ IdleEof \/ IdlePoll \/ Announce \/ Inform \/ CheckJob \/
           WriteOk \/ WriteFails
  BY <1>2 DEF IdleFrame, IdleEof, IdlePoll, Announce, Inform, CheckJob, WriteOk,
           WriteFails, EndSession, Settle, OnlyPokeBeforeReady, OutcomeDecided,
           JobInHand, TypeOK, SessionPoints, BeforeEnd, Stopping
<1>3. CASE WaitFrame \/ WaitEof \/ WaitPoll \/ InferenceDeadline \/ Kill \/ Publish \/
           Closing \/ Reap
  BY <1>3 DEF WaitFrame, WaitEof, WaitPoll, InferenceDeadline, Kill, Publish, Closing,
           Reap, EndSession, Settle, OnlyPokeBeforeReady, OutcomeDecided, JobInHand,
           TypeOK, SessionPoints, BeforeEnd, Stopping
<1>4. CASE GraceOver \/ GiveUp \/ MarkState \/ Clear \/ Report \/ Drain \/ Drop
  BY <1>4 DEF GraceOver, GiveUp, MarkState, Clear, Report, Drain, Drop, Settle,
           OnlyPokeBeforeReady, OutcomeDecided, JobInHand, TypeOK, SessionPoints,
           BeforeEnd, Stopping
<1>5. CASE Started \/ StartFails \/ StartTimeout \/ StopAdmitting \/ PokeSupervisor \/
           Stopped \/ ForceStop \/ KillWaitOver
  BY <1>5 DEF Started, StartFails, StartTimeout, StopAdmitting, PokeSupervisor, Stopped,
           ForceStop, KillWaitOver, OnlyPokeBeforeReady, OutcomeDecided, JobInHand,
           TypeOK, SessionPoints, BeforeEnd, Stopping
<1>6. CASE Signal
  BY <1>6 DEF Signal, OnlyPokeBeforeReady, OutcomeDecided, JobInHand, TypeOK,
           SessionPoints, BeforeEnd, Stopping
<1>7. CASE WorkerReady \/ WorkerCannotLoad \/ Serve \/ ServeWrong \/ Stray \/ Exit
  BY <1>7 DEF WorkerReady, WorkerCannotLoad, Serve, ServeWrong, Stray, Exit, ChildStep,
           Emit, OnlyPokeBeforeReady, OutcomeDecided, JobInHand, TypeOK, SessionPoints,
           BeforeEnd, Stopping
<1>8. ASSUME NEW r \in Requests, Admit(r) \/ CheckState(r) \/ Send(r) \/ Receive(r) \/ Cancel(r)
      PROVE  OnlyPokeBeforeReady'
  BY <1>8 DEF Admit, CheckState, Send, Receive, Cancel, Return, OnlyPokeBeforeReady,
           OutcomeDecided, JobInHand, TypeOK, SessionPoints, BeforeEnd, Stopping
<1>9. CASE UNCHANGED vars
  BY <1>9 DEF vars, OnlyPokeBeforeReady, OutcomeDecided, JobInHand, TypeOK, SessionPoints, BeforeEnd, Stopping
<1>10. QED
  BY <1>1, <1>2, <1>3, <1>4, <1>5, <1>6, <1>7, <1>8, <1>9
  DEF Next, SupervisorStep, OwnerStep, ChildActs, Caller, Finished

-------------------------------------------------------------------------------
(* Frames and the ids they bear                                            *)

\* Issuing one more id disturbs no frame.
LEMMA IssueKeepsFrames ==
    ASSUME TypeOK, NEW j \in Jobs, issued' = Append(issued, j)
    PROVE  /\ \A f \in [id : Nat, req : Jobs] : RequestMatches(f, issued) => RequestMatches(f, issued')
           /\ \A f \in Frames : AnswerMatches(f, issued) => AnswerMatches(f, issued')
<1>1. /\ Len(issued) \in Nat /\ Len(issued') = Len(issued) + 1
      /\ \A i \in 1..Len(issued) : issued'[i] = issued[i]
  BY AppendElements DEF TypeOK
<1>2. QED
  BY <1>1 DEF RequestMatches, AnswerMatches, Frames

\* Writing a frame that matches leaves a pipe that matches.
LEMMA EmitKeepsFrames ==
    ASSUME TypeOK, FramesMatchIds, UNCHANGED issued, NEW i \in Nat, NEW q \in Jobs,
           NEW k \in {"ready", "not_ready", "ok", "reject", "fatal", "odd_error", "garbage",
                      "oversized"},
           Emit(k, i, q), AnswerMatches([kind |-> k, id |-> i, req |-> q], issued)
    PROVE  \A n \in DOMAIN stdout' : AnswerMatches(stdout'[n], issued')
<1> DEFINE f == [kind |-> k, id |-> i, req |-> q]
<1>1. f \in Frames /\ stdout \in Seq(Frames) /\ stdout' = Append(stdout, f)
  BY DEF Frames, Emit, TypeOK
<1>2. AnswerMatches(f, issued')
  OBVIOUS
<1> HIDE DEF f
<1>3. \A n \in DOMAIN stdout : AnswerMatches(stdout[n], issued')
  BY DEF FramesMatchIds
<1>4. QED
  BY <1>1, <1>2, <1>3, AppendElements

\* Every frame in a pipe keeps matching the id it bears.
LEMMA FramesNext == Inv /\ [Next]_vars => FramesMatchIds'
<1> SUFFICES ASSUME Inv, [Next]_vars PROVE FramesMatchIds'
  OBVIOUS
<1> USE DEF Inv, handle, start, session, process, calls
<1>1. CASE Begin \/ SpawnOk \/ SpawnFails \/ RecordPid \/ LoopTop \/ StartupDeadline \/
           TakeJob \/ SeeChildExit
  BY <1>1 DEF Begin, SpawnOk, SpawnFails, RecordPid, LoopTop, StartupDeadline, TakeJob,
           SeeChildExit, EndSession, Settle, FramesMatchIds
<1>2. CASE IdleEof \/ IdlePoll \/ Announce \/ Inform \/ CheckJob \/ WriteFails \/
           WaitEof \/ WaitPoll
  BY <1>2 DEF IdleEof, IdlePoll, Announce, Inform, CheckJob, WriteFails, WaitEof,
           WaitPoll, EndSession, Settle, FramesMatchIds
<1>3. CASE InferenceDeadline \/ Kill \/ Publish \/ Closing \/ Reap \/ GraceOver \/
           GiveUp \/ MarkState
  BY <1>3 DEF InferenceDeadline, Kill, Publish, Closing, Reap, GraceOver, GiveUp,
           MarkState, EndSession, Settle, FramesMatchIds
<1>4. CASE Clear \/ Report \/ Drain \/ Drop
  BY <1>4 DEF Clear, Report, Drain, Drop, Settle, FramesMatchIds
<1>5. CASE IdleFrame
  <2>1. CASE stdout' = Tail(stdout) /\ UNCHANGED stdin /\ sup' = "announce"
    <3>1. \A i \in DOMAIN stdout' : AnswerMatches(stdout'[i], issued)
      BY <1>5, <2>1, TailElements DEF IdleFrame, FramesMatchIds, TypeOK
    <3>2. QED
      BY <1>5, <2>1, <3>1 DEF IdleFrame, FramesMatchIds
  <2>2. CASE EndSession("Restart", "shutting_down")
    BY <2>2 DEF EndSession, FramesMatchIds
  <2>3. QED
    BY <1>5, <2>1, <2>2 DEF IdleFrame
<1>6. CASE WriteOk
  <2>1. job \in Jobs /\ issued' = Append(issued, job) /\ Len(issued) \in Nat
    BY <1>6 DEF WriteOk, TypeOK, JobInHand
  <2> DEFINE f == [id |-> Len(issued) + 1, req |-> job]
  <2>2. Len(issued') = Len(issued) + 1 /\ issued'[Len(issued) + 1] = job
    BY <2>1, AppendElements DEF TypeOK
  <2>3. f \in [id : Nat, req : Jobs] /\ RequestMatches(f, issued')
    BY <2>1, <2>2 DEF RequestMatches
  <2>4. stdin \in Seq([id : Nat, req : Jobs]) /\ stdin' = Append(stdin, f)
    BY <1>6 DEF WriteOk, TypeOK
  <2>5. \A i \in DOMAIN stdin : RequestMatches(stdin[i], issued')
    <3>1. \A i \in DOMAIN stdin : stdin[i] \in [id : Nat, req : Jobs]
      BY SeqElements DEF TypeOK
    <3>2. QED
      BY <2>1, <3>1, IssueKeepsFrames DEF FramesMatchIds
  <2> HIDE DEF f
  <2>6. \A i \in DOMAIN stdin' : RequestMatches(stdin'[i], issued')
    BY <2>3, <2>4, <2>5, AppendElements
  <2>7. \A i \in DOMAIN stdout' : AnswerMatches(stdout'[i], issued')
    BY <1>6, <2>1, IssueKeepsFrames DEF WriteOk, FramesMatchIds, TypeOK
  <2>8. QED
    BY <1>6, <2>1, <2>2, <2>6, <2>7 DEF WriteOk, FramesMatchIds
<1>7. CASE WaitFrame
  <2>1. CASE KeepsWorker(Head(stdout))
    <3>1. \A i \in DOMAIN stdout' : AnswerMatches(stdout'[i], issued)
      BY <1>7, <2>1, TailElements DEF WaitFrame, FramesMatchIds, TypeOK
    <3>2. QED
      BY <1>7, <2>1, <3>1 DEF WaitFrame, FramesMatchIds
  <2>2. CASE ~KeepsWorker(Head(stdout))
    BY <1>7, <2>2 DEF WaitFrame, EndSession, FramesMatchIds
  <2>3. QED
    BY <2>1, <2>2
<1>8. CASE Started \/ StartFails \/ StartTimeout \/ StopAdmitting \/ PokeSupervisor \/
           Stopped \/ ForceStop \/ KillWaitOver
  BY <1>8 DEF Started, StartFails, StartTimeout, StopAdmitting, PokeSupervisor, Stopped,
           ForceStop, KillWaitOver, FramesMatchIds
<1>9. CASE Signal
  BY <1>9 DEF Signal, FramesMatchIds
<1>10. CASE Exit
  BY <1>10 DEF Exit, FramesMatchIds
<1>11. CASE WorkerReady
  <2>1. \A n \in DOMAIN stdout' : AnswerMatches(stdout'[n], issued')
    BY <1>11, EmitKeepsFrames DEF WorkerReady, ChildStep, AnswerMatches, Jobs
  <2>2. QED
    BY <1>11, <2>1 DEF WorkerReady, ChildStep, FramesMatchIds
<1>12. CASE WorkerCannotLoad
  <2>1. \A n \in DOMAIN stdout' : AnswerMatches(stdout'[n], issued')
    BY <1>12, EmitKeepsFrames DEF WorkerCannotLoad, ChildStep, AnswerMatches, Jobs
  <2>2. QED
    BY <1>12, <2>1 DEF WorkerCannotLoad, ChildStep, FramesMatchIds
<1>13. CASE Serve
  <2> DEFINE f == Head(stdin)
  <2>1. /\ f \in [id : Nat, req : Jobs] /\ RequestMatches(f, issued)
        /\ \A i \in DOMAIN Tail(stdin) : RequestMatches(Tail(stdin)[i], issued)
    BY <1>13, SeqFacts, TailElements DEF Serve, FramesMatchIds, TypeOK
  <2>2. f.id \in Nat /\ f.req \in Jobs
        /\ \A k : AnswerMatches([kind |-> k, id |-> f.id, req |-> f.req], issued)
    BY <2>1 DEF RequestMatches, AnswerMatches, TypeOK
  <2> HIDE DEF f
  <2>3. \A n \in DOMAIN stdout' : AnswerMatches(stdout'[n], issued')
    BY <1>13, <2>2, EmitKeepsFrames DEF Serve, ChildStep, f
  <2>4. QED
    BY <1>13, <2>1, <2>3 DEF Serve, ChildStep, FramesMatchIds
<1>14. CASE ServeWrong
  <2> DEFINE f == Head(stdin)
  <2>1. /\ f \in [id : Nat, req : Jobs] /\ RequestMatches(f, issued)
        /\ \A i \in DOMAIN Tail(stdin) : RequestMatches(Tail(stdin)[i], issued)
    BY <1>14, SeqFacts, TailElements DEF ServeWrong, FramesMatchIds, TypeOK
  <2>2. f.id \in Nat /\ f.req \in Jobs
        /\ \A k : AnswerMatches([kind |-> k, id |-> f.id, req |-> f.req], issued)
        /\ AnswerMatches([kind |-> "ok", id |-> 0, req |-> f.req], issued)
    BY <2>1 DEF RequestMatches, AnswerMatches, TypeOK
  <2> HIDE DEF f
  <2>3. \A n \in DOMAIN stdout' : AnswerMatches(stdout'[n], issued')
    BY <1>14, <2>2, EmitKeepsFrames DEF ServeWrong, ChildStep, f
  <2>4. QED
    BY <1>14, <2>1, <2>3 DEF ServeWrong, ChildStep, FramesMatchIds
<1>15. CASE Stray
  <2>1. AnswerMatches([kind |-> "garbage", id |-> 0, req |-> Poke], issued)
        /\ AnswerMatches([kind |-> "oversized", id |-> 0, req |-> Poke], issued)
    BY DEF AnswerMatches
  <2>2. \A i \in 1..(Len(issued) - Len(stdin)) :
           /\ i \in Nat /\ issued[i] \in Jobs
           /\ AnswerMatches([kind |-> "ok", id |-> i, req |-> issued[i]], issued)
    BY DEF AnswerMatches, TypeOK
  <2>3. \A n \in DOMAIN stdout' : AnswerMatches(stdout'[n], issued')
    BY <1>15, <2>1, <2>2, EmitKeepsFrames DEF Stray, ChildStep, Jobs
  <2>4. QED
    BY <1>15, <2>3 DEF Stray, ChildStep, FramesMatchIds
<1>16. ASSUME NEW r \in Requests, Admit(r) \/ CheckState(r) \/ Send(r) \/ Receive(r) \/ Cancel(r)
      PROVE  FramesMatchIds'
  BY <1>16 DEF Admit, CheckState, Send, Receive, Cancel, Return, FramesMatchIds
<1>17. CASE UNCHANGED vars
  BY <1>17 DEF vars, FramesMatchIds
<1>18. QED
  BY <1>1, <1>2, <1>3, <1>4, <1>5, <1>6, <1>7, <1>8, <1>9, <1>10, <1>11, <1>12, <1>13,
     <1>14, <1>15, <1>16, <1>17
  DEF Next, SupervisorStep, OwnerStep, ChildActs, Caller, Finished

-------------------------------------------------------------------------------
(* Answers                                                                 *)

\* An answer given to a job is an error or that job's own.
LEMMA AnswerOwn ==
    ASSUME TypeOK, OwnAnswer, NEW v \in Errors \cup {job}, reply' = Answer(job, v)
    PROVE  OwnAnswer'
  BY VerdictsApart DEF Answer, OwnAnswer, TypeOK

\* The frame that answers the request in flight carries that request's payload.
LEMMA VerdictOwn ==
    ASSUME Inv, sup = "wait", stdout # <<>>
    PROVE  Verdict(Head(stdout)) \in Errors \cup {job}
<1> DEFINE f == Head(stdout)
<1>1. AnswerMatches(f, issued) /\ Len(issued) > 0 /\ issued[Len(issued)] = job
  BY TailElements DEF Inv, FramesMatchIds, TypeOK
<1>2. Matches(f) /\ f.kind = "ok" => f.req = job
  BY <1>1 DEF Matches, AnswerMatches
<1> HIDE DEF f
<1>3. Verdict(f) \in Errors \cup {job}
  BY <1>2 DEF Verdict, Errors
<1>4. QED
  BY <1>3 DEF f

\* No step gives a caller the answer of another.
LEMMA OwnAnswerNext == Inv /\ [Next]_vars => OwnAnswer'
<1> SUFFICES ASSUME Inv, [Next]_vars PROVE OwnAnswer'
  OBVIOUS
<1> USE DEF Inv, handle, start, session, process, calls
<1>1. CASE Begin \/ SpawnOk \/ SpawnFails \/ RecordPid \/ TakeJob \/ IdlePoll \/
           Announce \/ Inform
  BY <1>1 DEF Begin, SpawnOk, SpawnFails, RecordPid, TakeJob, IdlePoll, Announce, Inform,
           Settle, OwnAnswer
<1>2. CASE WriteOk \/ Publish \/ Closing \/ Reap \/ GraceOver \/ GiveUp \/ MarkState \/
           Clear
  BY <1>2 DEF WriteOk, Publish, Closing, Reap, GraceOver, GiveUp, MarkState, Clear,
           Settle, OwnAnswer
<1>3. CASE Report
  BY <1>3 DEF Report, Settle, OwnAnswer
<1>4. CASE LoopTop \/ StartupDeadline \/ SeeChildExit \/ IdleFrame \/ IdleEof \/
           CheckJob \/ WriteFails \/ WaitEof \/ WaitPoll \/ InferenceDeadline \/ Kill
  BY <1>4, AnswerOwn, VerdictsApart DEF LoopTop, StartupDeadline, SeeChildExit, IdleFrame,
                                     IdleEof, CheckJob, WriteFails, WaitEof, WaitPoll,
                                     InferenceDeadline, Kill, EndSession, OwnAnswer
<1>5. CASE WaitFrame
  <2>1. reply' = Answer(job, Verdict(Head(stdout)))
    BY <1>5 DEF WaitFrame, EndSession
  <2>2. Verdict(Head(stdout)) \in Errors \cup {job}
    BY <1>5, VerdictOwn DEF WaitFrame
  <2>3. QED
    BY <2>1, <2>2, AnswerOwn
<1>6. CASE Drain
  BY <1>6, VerdictsApart DEF Drain, Answer, OwnAnswer, TypeOK
<1>7. CASE Drop
  BY <1>7, VerdictsApart DEF Drop, OwnAnswer, TypeOK
<1>8. CASE Started \/ StartFails \/ StartTimeout \/ StopAdmitting \/ PokeSupervisor \/
           Stopped \/ ForceStop \/ KillWaitOver
  BY <1>8 DEF Started, StartFails, StartTimeout, StopAdmitting, PokeSupervisor, Stopped,
           ForceStop, KillWaitOver, OwnAnswer
<1>9. CASE Signal
  BY <1>9 DEF Signal, OwnAnswer
<1>10. CASE WorkerReady \/ WorkerCannotLoad \/ Serve \/ ServeWrong \/ Stray \/ Exit
  BY <1>10 DEF WorkerReady, WorkerCannotLoad, Serve, ServeWrong, Stray, Exit, ChildStep,
           Emit, OwnAnswer
<1>11. ASSUME NEW r \in Requests, Receive(r) \/ Cancel(r)
      PROVE  OwnAnswer'
  BY <1>11 DEF Receive, Cancel, Return, OwnAnswer
<1>12. ASSUME NEW r \in Requests, Admit(r) PROVE OwnAnswer'
  BY <1>12, VerdictsApart DEF Admit, Return, OwnAnswer, TypeOK
<1>13. ASSUME NEW r \in Requests, CheckState(r) PROVE OwnAnswer'
  <2>1. \A q \in Requests : reply'[q] = reply[q] \/ reply'[q] \in Errors
    BY <1>13, VerdictsApart DEF CheckState, Return, TypeOK
  <2>2. QED
    BY <2>1, VerdictsApart DEF OwnAnswer
<1>14. ASSUME NEW r \in Requests, Send(r) PROVE OwnAnswer'
  BY <1>14, VerdictsApart DEF Send, Return, OwnAnswer, TypeOK
<1>15. CASE UNCHANGED vars
  BY <1>15 DEF vars, OwnAnswer
<1>16. QED
  BY <1>1, <1>2, <1>3, <1>4, <1>5, <1>6, <1>7, <1>8, <1>9, <1>10, <1>11, <1>12, <1>13,
     <1>14, <1>15
  DEF Next, SupervisorStep, OwnerStep, ChildActs, Caller, Finished

\* What is in a queue is at its head or in its tail, and stays when one is added.
LEMMA HeadOrTail ==
    ASSUME NEW S, NEW s \in Seq(S), s # <<>>, NEW i \in DOMAIN s
    PROVE  s[i] = Head(s) \/ \E k \in DOMAIN Tail(s) : Tail(s)[k] = s[i]
<1>1. CASE i = 1
  BY <1>1
<1>2. CASE i # 1
  <2>1. i - 1 \in DOMAIN Tail(s) /\ Tail(s)[i - 1] = s[i]
    BY <1>2
  <2>2. QED
    BY <2>1
<1>3. QED
  BY <1>1, <1>2

LEMMA AppendKeeps ==
    ASSUME NEW S, NEW s \in Seq(S), NEW e \in S, NEW x,
           x = e \/ \E i \in DOMAIN s : s[i] = x
    PROVE  \E k \in DOMAIN Append(s, e) : Append(s, e)[k] = x
<1>1. Len(s) + 1 \in DOMAIN Append(s, e) /\ \A i \in DOMAIN s : i \in DOMAIN Append(s, e)
  OBVIOUS
<1>2. QED
  BY <1>1, AppendElements

\* A job that is answered and put down leaves every other caller where it was.
LEMMA AnsweredHeld ==
    ASSUME TypeOK, WaitingHeld, NEW v \in Errors \cup Jobs, job' = NoJob,
           reply' = Answer(job, v), UNCHANGED <<phase, queue>>
    PROVE  WaitingHeld'
<1>1. ASSUME NEW r \in Requests, phase[r] = "waiting", reply'[r] = "none"
      PROVE  reply[r] = "none" /\ r # job
  BY <1>1, VerdictsApart DEF Answer, TypeOK
<1>2. QED
  BY <1>1 DEF WaitingHeld, Inside

LEMMA EndSessionHeld ==
    ASSUME TypeOK, WaitingHeld, NEW o, NEW v \in Errors, EndSession(o, v),
           UNCHANGED <<phase, queue>>
    PROVE  WaitingHeld'
  BY AnsweredHeld DEF EndSession

\* No step loses a caller that waits.
LEMMA WaitingHeldNext == Inv /\ [Next]_vars => WaitingHeld'
<1> SUFFICES ASSUME Inv, [Next]_vars PROVE WaitingHeld'
  OBVIOUS
<1> USE DEF Inv, handle, start, session, process, calls
<1>1. CASE Begin \/ SpawnOk \/ SpawnFails \/ RecordPid \/ IdlePoll \/ Announce \/
           Inform \/ WriteOk
  BY <1>1 DEF Begin, SpawnOk, SpawnFails, RecordPid, IdlePoll, Announce, Inform, WriteOk,
           Settle, WaitingHeld, Inside
<1>2. CASE Publish \/ Closing \/ Reap \/ GraceOver \/ GiveUp \/ MarkState \/ Clear \/
           Report
  BY <1>2 DEF Publish, Closing, Reap, GraceOver, GiveUp, MarkState, Clear, Report, Settle,
           WaitingHeld, Inside
<1>3. CASE StartupDeadline \/ SeeChildExit \/ IdleEof \/ WriteFails \/ WaitEof \/
           WaitPoll \/ InferenceDeadline \/ Kill
  BY <1>3, EndSessionHeld, VerdictsApart DEF StartupDeadline, SeeChildExit, IdleEof,
                                          WriteFails, WaitEof, WaitPoll,
                                          InferenceDeadline, Kill
<1>4. CASE LoopTop
  <2>1. CASE UNCHANGED <<reply, job>>
    BY <1>4, <2>1 DEF LoopTop, WaitingHeld, Inside
  <2>2. CASE \E o : EndSession(o, "shutting_down")
    BY <1>4, <2>2, EndSessionHeld, VerdictsApart DEF LoopTop
  <2>3. QED
    BY <1>4, <2>1, <2>2 DEF LoopTop
<1>5. CASE TakeJob
  <2>1. job = NoJob /\ queue \in Seq(Jobs) /\ queue # <<>>
    BY <1>5 DEF TakeJob, JobInHand, TypeOK
  <2>2. ASSUME NEW r \in Requests, \E i \in DOMAIN queue : queue[i] = r PROVE Inside(r)'
    BY <1>5, <2>1, <2>2, HeadOrTail DEF TakeJob, Inside
  <2>3. QED
    BY <1>5, <2>1, <2>2, RequestsAssumption DEF TakeJob, WaitingHeld, Inside
<1>6. CASE IdleFrame
  <2>1. CASE UNCHANGED <<reply, job>>
    BY <1>6, <2>1 DEF IdleFrame, WaitingHeld, Inside
  <2>2. CASE \E o : EndSession(o, "shutting_down")
    BY <1>6, <2>2, EndSessionHeld, VerdictsApart DEF IdleFrame
  <2>3. QED
    BY <1>6, <2>1, <2>2 DEF IdleFrame
<1>7. CASE CheckJob
  <2>1. CASE UNCHANGED <<reply, job>>
    BY <1>7, <2>1 DEF CheckJob, WaitingHeld, Inside
  <2>2. CASE \E o : EndSession(o, "shutting_down")
    BY <1>7, <2>2, EndSessionHeld, VerdictsApart DEF CheckJob
  <2>3. QED
    BY <1>7, <2>1, <2>2 DEF CheckJob
<1>8. CASE WaitFrame
  <2>1. Verdict(Head(stdout)) \in Errors \cup Jobs
    BY <1>8, VerdictType, SeqFacts DEF WaitFrame, TypeOK
  <2>2. job' = NoJob /\ reply' = Answer(job, Verdict(Head(stdout))) /\ UNCHANGED <<phase, queue>>
    BY <1>8 DEF WaitFrame, EndSession
  <2>3. QED
    BY <2>1, <2>2, AnsweredHeld
<1>9. CASE Drain
  <2>1. CASE queue = <<>>
    BY <1>9, <2>1 DEF Drain, WaitingHeld, Inside
  <2>2. CASE queue # <<>>
    <3>1. job = NoJob /\ queue \in Seq(Jobs)
      BY <1>9 DEF Drain, JobInHand, TypeOK
    <3>2. ASSUME NEW r \in Requests, phase[r] = "waiting", reply'[r] = "none"
          PROVE  reply[r] = "none" /\ r # Head(queue)
      BY <1>9, <2>2, <3>2, VerdictsApart DEF Drain, Answer, TypeOK
    <3>3. ASSUME NEW r \in Requests, phase[r] = "waiting", reply'[r] = "none"
          PROVE  Inside(r)'
      BY <1>9, <2>2, <3>1, <3>2, <3>3, HeadOrTail, RequestsAssumption
      DEF Drain, WaitingHeld, Inside
    <3>4. QED
      BY <1>9, <3>3 DEF Drain, WaitingHeld
  <2>3. QED
    BY <2>1, <2>2
<1>10. CASE Drop
  <2>1. job = NoJob
    BY <1>10 DEF Drop, JobInHand, TypeOK
  <2>2. ASSUME NEW r \in Requests, phase[r] = "waiting" PROVE reply'[r] # "none"
    BY <1>10, <2>1, <2>2, VerdictsApart, RequestsAssumption DEF Drop, WaitingHeld, Inside
  <2>3. QED
    BY <1>10, <2>2 DEF Drop, WaitingHeld
<1>11. CASE Started \/ StartFails \/ StartTimeout \/ StopAdmitting \/ Stopped \/
            ForceStop \/ KillWaitOver \/ Signal
  BY <1>11 DEF Started, StartFails, StartTimeout, StopAdmitting, Stopped, ForceStop,
           KillWaitOver, Signal, WaitingHeld, Inside
<1>12. CASE PokeSupervisor
  <2>1. queue \in Seq(Jobs) /\ Poke \in Jobs
    BY DEF TypeOK, Jobs
  <2>2. ASSUME NEW q \in Requests, Inside(q) PROVE Inside(q)'
    BY <1>12, <2>1, <2>2, AppendKeeps DEF PokeSupervisor, Inside
  <2>3. QED
    BY <1>12, <2>2 DEF PokeSupervisor, WaitingHeld
<1>13. CASE WorkerReady \/ WorkerCannotLoad \/ Serve \/ ServeWrong \/ Stray \/ Exit
  BY <1>13 DEF WorkerReady, WorkerCannotLoad, Serve, ServeWrong, Stray, Exit, ChildStep,
           Emit, WaitingHeld, Inside
<1>14. ASSUME NEW r \in Requests, Admit(r) PROVE WaitingHeld'
  BY <1>14 DEF Admit, Return, WaitingHeld, Inside, TypeOK
<1>15. ASSUME NEW r \in Requests, CheckState(r) PROVE WaitingHeld'
  BY <1>15 DEF CheckState, Return, WaitingHeld, Inside, TypeOK
<1>16. ASSUME NEW r \in Requests, Send(r) PROVE WaitingHeld'
  <2>1. CASE queue' = Append(queue, r) /\ phase' = [phase EXCEPT ![r] = "waiting"]
    <3>1. queue \in Seq(Jobs) /\ r \in Jobs
      BY DEF TypeOK, Jobs
    <3>2. ASSUME NEW q \in Requests, Inside(q) \/ q = r PROVE Inside(q)'
      BY <1>16, <2>1, <3>1, <3>2, AppendKeeps DEF Send, Inside
    <3>3. QED
      BY <1>16, <2>1, <3>2 DEF Send, WaitingHeld, TypeOK
  <2>2. CASE Return(r, "shutting_down") /\ UNCHANGED queue
    BY <1>16, <2>2 DEF Send, Return, WaitingHeld, Inside, TypeOK
  <2>3. QED
    BY <1>16, <2>1, <2>2 DEF Send
<1>17. ASSUME NEW r \in Requests, Receive(r) PROVE WaitingHeld'
  BY <1>17 DEF Receive, Return, WaitingHeld, Inside, TypeOK
<1>18. ASSUME NEW r \in Requests, Cancel(r) PROVE WaitingHeld'
  BY <1>18 DEF Cancel, Return, WaitingHeld, Inside, TypeOK
<1>19. CASE UNCHANGED vars
  BY <1>19 DEF vars, WaitingHeld, Inside
<1>20. QED
  BY <1>1, <1>2, <1>3, <1>4, <1>5, <1>6, <1>7, <1>8, <1>9, <1>10, <1>11, <1>12, <1>13,
     <1>14, <1>15, <1>16, <1>17, <1>18, <1>19
  DEF Next, SupervisorStep, OwnerStep, ChildActs, Caller, Finished

\* What stays distinct stays distinct, at both ends of a queue.
LEMMA TailOnce ==
    ASSUME NEW S, NEW R, NEW s \in Seq(S), s # <<>>,
           \A i, k \in DOMAIN s : s[i] = s[k] /\ s[i] \in R => i = k
    PROVE  /\ \A i, k \in DOMAIN Tail(s) : Tail(s)[i] = Tail(s)[k] /\ Tail(s)[i] \in R => i = k
           /\ \A i \in DOMAIN Tail(s) : Tail(s)[i] \in R => Tail(s)[i] # Head(s)
<1>1. \A i \in DOMAIN Tail(s) : i \in Nat \ {0} /\ i + 1 \in DOMAIN s /\ Tail(s)[i] = s[i + 1]
  BY TailElements
<1>2. Head(s) = s[1] /\ 1 \in DOMAIN s
  BY TailElements
<1>3. QED
  BY <1>1, <1>2

LEMMA AppendOnce ==
    ASSUME NEW S, NEW R, NEW s \in Seq(S), NEW e \in S,
           \A i, k \in DOMAIN s : s[i] = s[k] /\ s[i] \in R => i = k,
           e \in R => \A i \in DOMAIN s : s[i] # e
    PROVE  \A i, k \in DOMAIN Append(s, e) :
              Append(s, e)[i] = Append(s, e)[k] /\ Append(s, e)[i] \in R => i = k
  BY AppendElements

\* A job that is answered and put down is held by nobody.
LEMMA AnsweredOnce ==
    ASSUME TypeOK, HeldOnce, NEW v, job' = NoJob, reply' = Answer(job, v),
           UNCHANGED <<phase, queue>>
    PROVE  HeldOnce'
<1>1. \A r \in Requests : r # job \/ phase[r] # "waiting" => reply'[r] = reply[r]
  BY DEF Answer, TypeOK
<1>2. \A r \in Requests : Inside(r)' => Inside(r) /\ r # job
  BY RequestsAssumption DEF Inside, HeldOnce
<1>3. QED
  BY <1>1, <1>2, RequestsAssumption DEF HeldOnce, Early

LEMMA EndSessionOnce ==
    ASSUME TypeOK, HeldOnce, NEW o, NEW v, EndSession(o, v), UNCHANGED <<phase, queue>>
    PROVE  HeldOnce'
  BY AnsweredOnce DEF EndSession

\* A caller that leaves the line, or moves on in it, keeps its place.
LEMMA PhaseOnce ==
    ASSUME TypeOK, HeldOnce, NEW r \in Requests, UNCHANGED <<queue, job>>,
           NEW p \in {"admitted", "sending", "returned", "canceled"},
           p \in {"admitted", "sending"} => Early(r),
           phase' = [phase EXCEPT ![r] = p],
           \A q \in Requests \ {r} : reply'[q] = reply[q],
           p \in {"admitted", "sending"} => reply'[r] = reply[r]
    PROVE  HeldOnce'
  BY DEF HeldOnce, Inside, Early, TypeOK

\* No step answers a caller twice, or holds its job twice.
LEMMA HeldOnceNext == Inv /\ [Next]_vars => HeldOnce'
<1> SUFFICES ASSUME Inv, [Next]_vars PROVE HeldOnce'
  OBVIOUS
<1>0. TypeOK /\ JobInHand /\ HeldOnce /\ queue \in Seq(Jobs)
  BY DEF Inv, TypeOK
<1> USE DEF handle, start, session, process, calls
<1>1. CASE UNCHANGED <<queue, job, phase, reply>>
  BY <1>0, <1>1 DEF HeldOnce, Inside, Early
<1>2. ASSUME NEW o, NEW v, EndSession(o, v), UNCHANGED <<phase, queue>> PROVE HeldOnce'
  BY <1>0, <1>2, EndSessionOnce
<1>3. CASE Begin \/ SpawnOk \/ SpawnFails \/ RecordPid \/ IdlePoll \/ Announce \/
           Inform \/ WriteOk \/ Publish \/ Closing \/ Reap \/ GraceOver \/ GiveUp \/
           MarkState \/ Clear \/ Report
  BY <1>1, <1>3 DEF Begin, SpawnOk, SpawnFails, RecordPid, IdlePoll, Announce, Inform,
                    WriteOk, Publish, Closing, Reap, GraceOver, GiveUp, MarkState, Clear,
                    Report
<1>4. CASE StartupDeadline \/ SeeChildExit \/ IdleEof \/ WriteFails \/ WaitEof \/
           WaitPoll \/ InferenceDeadline \/ Kill
  BY <1>2, <1>4 DEF StartupDeadline, SeeChildExit, IdleEof, WriteFails, WaitEof, WaitPoll,
                    InferenceDeadline, Kill
<1>5. CASE LoopTop \/ IdleFrame \/ CheckJob
  BY <1>1, <1>2, <1>5 DEF LoopTop, IdleFrame, CheckJob
<1>6. CASE TakeJob
  <2>1. queue # <<>> /\ job' = Head(queue) /\ queue' = Tail(queue) /\ UNCHANGED <<phase, reply>>
    BY <1>6 DEF TakeJob
  <2>2. \A i, k \in DOMAIN queue' : queue'[i] = queue'[k] /\ queue'[i] \in Requests => i = k
    BY <1>0, <2>1, TailOnce DEF HeldOnce
  <2>3. \A i \in DOMAIN queue' : queue'[i] \in Requests => queue'[i] # job'
    BY <1>0, <2>1, TailOnce DEF HeldOnce
  <2>4. \A r \in Requests : Inside(r)' => Inside(r)
    BY <1>0, <2>1, TailElements DEF Inside
  <2>5. QED
    BY <1>0, <2>1, <2>2, <2>3, <2>4 DEF HeldOnce, Early
<1>7. CASE WaitFrame
  <2>1. job' = NoJob /\ reply' = Answer(job, Verdict(Head(stdout))) /\ UNCHANGED <<phase, queue>>
    BY <1>7 DEF WaitFrame, EndSession
  <2>2. QED
    BY <1>0, <2>1, AnsweredOnce
<1>8. CASE Drain
  <2>1. CASE queue = <<>>
    BY <1>1, <1>8, <2>1 DEF Drain
  <2>2. CASE queue # <<>>
    <3>1. /\ queue' = Tail(queue) /\ reply' = Answer(Head(queue), "worker_failed")
          /\ UNCHANGED <<phase, job>>
      BY <1>8, <2>2 DEF Drain
    <3>2. \A i, k \in DOMAIN queue' : queue'[i] = queue'[k] /\ queue'[i] \in Requests => i = k
      BY <1>0, <2>2, <3>1, TailOnce DEF HeldOnce
    <3>3. \A i \in DOMAIN queue' : queue'[i] \in Requests
                                     => queue'[i] # Head(queue) /\ queue'[i] # job'
      BY <1>0, <2>2, <3>1, TailOnce, TailElements DEF HeldOnce
    <3>4. job = NoJob
      BY <1>0, <1>8 DEF Drain, JobInHand, TypeOK
    <3>5. \A r \in Requests : Inside(r)' => Inside(r) /\ r # Head(queue)
      BY <1>0, <2>2, <3>1, <3>3, <3>4, TailElements, RequestsAssumption DEF Inside
    <3>6. \A r \in Requests : r # Head(queue) \/ phase[r] # "waiting" => reply'[r] = reply[r]
      BY <1>0, <3>1 DEF Answer, TypeOK
    <3>7. QED
      BY <1>0, <3>1, <3>2, <3>3, <3>5, <3>6 DEF HeldOnce, Early
  <2>3. QED
    BY <2>1, <2>2
<1>9. CASE Drop
  <2>1. queue' = <<>> /\ job = NoJob /\ UNCHANGED <<phase, job>>
    BY <1>0, <1>9 DEF Drop, JobInHand, TypeOK
  <2>2. \A r \in Requests : ~Inside(r)'
    BY <2>1, RequestsAssumption DEF Inside
  <2>3. \A r \in Requests : Early(r) => reply'[r] = reply[r]
    BY <1>9 DEF Drop, Early
  <2>4. QED
    BY <1>0, <2>1, <2>2, <2>3 DEF HeldOnce, Early
<1>10. CASE Started \/ StartFails \/ StartTimeout \/ StopAdmitting \/ Stopped \/
            ForceStop \/ KillWaitOver \/ Signal \/ WorkerReady \/ WorkerCannotLoad \/
            Serve \/ ServeWrong \/ Stray \/ Exit \/ UNCHANGED vars
  BY <1>1, <1>10 DEF Started, StartFails, StartTimeout, StopAdmitting, Stopped, ForceStop,
                     KillWaitOver, Signal, WorkerReady, WorkerCannotLoad, Serve,
                     ServeWrong, Stray, Exit, ChildStep, vars
<1>11. CASE PokeSupervisor
  <2>1. CASE UNCHANGED queue
    BY <1>1, <1>11, <2>1 DEF PokeSupervisor
  <2>2. CASE queue' = Append(queue, Poke)
    <3>1. Poke \in Jobs /\ Poke \notin Requests
      BY RequestsAssumption DEF Jobs
    <3>2. \A i, k \in DOMAIN queue' : queue'[i] = queue'[k] /\ queue'[i] \in Requests => i = k
      BY <1>0, <2>2, <3>1, AppendOnce DEF HeldOnce
    <3>3. \A i \in DOMAIN queue' : queue'[i] \in Requests => i \in DOMAIN queue /\ queue'[i] = queue[i]
      BY <1>0, <2>2, <3>1, AppendElements
    <3>4. UNCHANGED <<job, phase, reply>>
      BY <1>11 DEF PokeSupervisor
    <3>5. \A r \in Requests : Inside(r)' => Inside(r)
      BY <3>3, <3>4 DEF Inside
    <3>6. QED
      BY <1>0, <3>2, <3>3, <3>4, <3>5 DEF HeldOnce, Early
  <2>3. QED
    BY <1>11, <2>1, <2>2 DEF PokeSupervisor
<1>12. ASSUME NEW r \in Requests, Send(r) PROVE HeldOnce'
  <2>1. CASE Return(r, "shutting_down") /\ UNCHANGED queue
    BY <1>0, <1>12, <2>1, PhaseOnce DEF Send, Return, TypeOK
  <2>2. CASE queue' = Append(queue, r) /\ phase' = [phase EXCEPT ![r] = "waiting"]
             /\ UNCHANGED reply
    <3>1. r \in Jobs /\ reply[r] = "none" /\ ~Inside(r) /\ UNCHANGED job
      BY <1>0, <1>12 DEF Send, HeldOnce, Early, Jobs
    <3>2. \A i, k \in DOMAIN queue' : queue'[i] = queue'[k] /\ queue'[i] \in Requests => i = k
      BY <1>0, <2>2, <3>1, AppendOnce DEF HeldOnce, Inside
    <3>3. \A i \in DOMAIN queue' : (i \in DOMAIN queue /\ queue'[i] = queue[i]) \/ queue'[i] = r
      BY <1>0, <2>2, <3>1, AppendElements
    <3>4. \A q \in Requests \ {r} : Inside(q)' => Inside(q)
      BY <3>1, <3>3 DEF Inside
    <3>5. \A i \in DOMAIN queue' : queue'[i] \in Requests => queue'[i] # job'
      BY <1>0, <3>1, <3>3 DEF HeldOnce, Inside
    <3>6. QED
      BY <1>0, <2>2, <3>1, <3>2, <3>4, <3>5 DEF HeldOnce, Early, TypeOK
  <2>3. QED
    BY <1>12, <2>1, <2>2 DEF Send
<1>13. ASSUME NEW r \in Requests, Admit(r) \/ CheckState(r) \/ Receive(r) \/ Cancel(r)
       PROVE  HeldOnce'
  <2>1. PICK p \in {"admitted", "sending", "returned", "canceled"} :
           /\ phase' = [phase EXCEPT ![r] = p]
           /\ p \in {"admitted", "sending"} => Early(r) /\ reply'[r] = reply[r]
    BY <1>13 DEF Admit, CheckState, Receive, Cancel, Return, Early
  <2>2. \A q \in Requests \ {r} : reply'[q] = reply[q]
    BY <1>0, <1>13 DEF Admit, CheckState, Receive, Cancel, Return, TypeOK
  <2>3. UNCHANGED <<queue, job>>
    BY <1>13 DEF Admit, CheckState, Receive, Cancel
  <2>4. QED
    BY <1>0, <2>1, <2>2, <2>3, PhaseOnce
<1>14. QED
  BY <1>3, <1>4, <1>5, <1>6, <1>7, <1>8, <1>9, <1>10, <1>11, <1>12, <1>13
  DEF Next, SupervisorStep, OwnerStep, ChildActs, Caller, Finished

-------------------------------------------------------------------------------
(* The invariant, and what follows from it                                 *)

LEMMA InvInit == Init => Inv
<1> SUFFICES ASSUME Init PROVE Inv
  OBVIOUS
<1>1. /\ queue \in Seq(Jobs) /\ issued \in Seq(Jobs)
      /\ stdin \in Seq([id : Nat, req : Jobs]) /\ stdout \in Seq(Frames)
  BY EmptySeq DEF Init
<1>2. phase \in [Requests -> {"new", "admitted", "sending", "waiting", "returned",
                              "canceled"}]
  BY DEF Init
<1>3. reply \in [Requests -> {"none"} \cup Errors \cup Jobs]
  BY DEF Init
<1>4. TypeOK
  BY <1>1, <1>2, <1>3 DEF Init, TypeOK, SupPoints, SessionPoints
<1>5. JobInHand /\ ChildAccounted /\ OutcomeDecided /\ FatalLast /\ QueueEmptied
  BY DEF Init, JobInHand, ChildAccounted, OutcomeDecided, FatalLast, QueueEmptied
<1>6. FramesMatchIds /\ OnlyPokeBeforeReady
  BY DEF Init, FramesMatchIds, OnlyPokeBeforeReady, BeforeEnd, SessionPoints, Stopping
<1>7. OwnAnswer /\ WaitingHeld /\ HeldOnce
  BY VerdictsApart, RequestsAssumption
  DEF Init, OwnAnswer, WaitingHeld, HeldOnce, Early, Inside
<1>8. QED
  BY <1>4, <1>5, <1>6, <1>7 DEF Inv

LEMMA InvNext == Inv /\ [Next]_vars => Inv'
  BY TypeNext, JobNext, FramesNext, OwnAnswerNext, WaitingHeldNext, HeldOnceNext, QueueNext, ChildNext,
     OutcomeNext, FatalNext, PokeNext
  DEF Inv

\* The inductive invariant holds in every reachable state.
THEOREM Invariance == Spec => []Inv
  BY InvInit, InvNext, PTL DEF Spec

\* Every variable keeps its type, whatever the constants are.
THEOREM TypeCorrect == Spec => []TypeOK
<1>1. Inv => TypeOK
  BY DEF Inv
<1>2. QED
  BY <1>1, Invariance, PTL

\* What the invariant says of the handle, wherever it holds.
LEMMA HandleSafe == Inv => OwnAnswer /\ NoneStranded /\ NoOrphan /\ FatalIsFinal /\ HandshakeFirst
<1>1. Inv => OwnAnswer
  BY DEF Inv
<1>2. Inv => NoneStranded
  BY RequestsAssumption
  DEF Inv, NoneStranded, WaitingHeld, Inside, QueueEmptied, JobInHand
<1>3. Inv => NoOrphan
  BY DEF Inv, NoOrphan, ChildAccounted
<1>4. Inv => FatalIsFinal
  BY DEF Inv, FatalIsFinal, FatalLast, OutcomeDecided
<1>5. Inv => HandshakeFirst
  BY DEF Inv, HandshakeFirst, OnlyPokeBeforeReady, JobInHand, FramesMatchIds
<1>6. QED
  BY <1>1, <1>2, <1>3, <1>4, <1>5

\* No caller is ever given the answer to another caller's request, however the
\* worker misbehaves (worker.rs:15).
THEOREM OwnAnswerAlways == Spec => []OwnAnswer
  BY HandleSafe, Invariance, PTL

\* When the supervision task has gone, no caller is left without an answer.
THEOREM NoneStrandedAlways == Spec => []NoneStranded
  BY HandleSafe, Invariance, PTL

\* The supervision task leaves no running child behind that was not sent SIGKILL.
THEOREM NoOrphanAlways == Spec => []NoOrphan
  BY HandleSafe, Invariance, PTL

\* A fatal fault is reported only when the child is gone and nothing is admitted.
THEOREM FatalIsFinalAlways == Spec => []FatalIsFinal
  BY HandleSafe, Invariance, PTL

\* No request is written before the handshake, nor awaited without being the last
\* one issued.
THEOREM HandshakeFirstAlways == Spec => []HandshakeFirst
  BY HandleSafe, Invariance, PTL

\* A call passes the state check only where no loss has been published.
LEMMA PassesOnlyReady ==
    ASSUME Inv, [Next]_vars, NEW r \in Requests, phase[r] = "admitted", phase'[r] = "sending"
    PROVE  outcome # "Restart" \/ sup = "publish"
<1> USE DEF Inv, handle, start, session, process, calls
<1>1. CASE state = "Ready"
  BY <1>1 DEF OutcomeDecided
<1>2. CASE UNCHANGED phase
  BY <1>2
<1>3. ASSUME NEW q \in Requests, Admit(q) \/ Send(q) \/ Receive(q) \/ Cancel(q)
      PROVE  FALSE
  BY <1>3 DEF Admit, Send, Receive, Cancel, Return, TypeOK
<1>4. ASSUME NEW q \in Requests, CheckState(q) PROVE state = "Ready"
  BY <1>4 DEF CheckState, Return, TypeOK
<1>5. CASE SupervisorStep
  BY <1>2, <1>5 DEF SupervisorStep, Begin, SpawnOk, SpawnFails, RecordPid, LoopTop,
                    StartupDeadline, TakeJob, SeeChildExit, IdleFrame, IdleEof,
                    IdlePoll, Announce, Inform, CheckJob, WriteOk, WriteFails,
                    WaitFrame, WaitEof, WaitPoll, InferenceDeadline, Kill, Publish,
                    Closing, Reap, GraceOver, GiveUp, MarkState, Clear, Report,
                    Drain, Drop
<1>6. CASE OwnerStep \/ Signal \/ ChildActs \/ Finished
  BY <1>2, <1>6 DEF OwnerStep, ChildActs, Finished, vars, Started, StartFails,
                    StartTimeout, StopAdmitting, PokeSupervisor, Stopped, ForceStop,
                    KillWaitOver, Signal, WorkerReady, WorkerCannotLoad, Serve,
                    ServeWrong, Stray, Exit, ChildStep
<1>7. CASE UNCHANGED vars
  BY <1>2, <1>7 DEF vars
<1>8. QED
  BY <1>1, <1>3, <1>4, <1>5, <1>6, <1>7 DEF Next, Caller

\* No request is queued behind a worker whose failure has been published.
THEOREM NotQueuedBehindDyingAlways == Spec => NotQueuedBehindDying
<1>1. Inv /\ [Next]_vars
      => [\A r \in Requests : phase[r] = "admitted" /\ phase'[r] = "sending"
                                => outcome # "Restart" \/ sup = "publish"]_vars
  BY PassesOnlyReady
<1>2. QED
  BY <1>1, Invariance, PTL DEF Spec, NotQueuedBehindDying
===============================================================================
