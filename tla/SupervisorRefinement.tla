------------------------- MODULE SupervisorRefinement -------------------------
(***************************************************************************)
(* Supervisor implements Resident: under the mapping Life, DecidedAs every *)
(* step of the callers, the supervision task, the owner and the worker is  *)
(* a step of the abstract specification or leaves it unchanged.            *)
(***************************************************************************)
EXTENDS SupervisorProofs

\* What the callers see of a step: some undecided calls are refused, the others
\* are as they were.
OnlyRefuses ==
    \A r \in Requests : \/ reply'[r] = reply[r] /\ (phase'[r] = "new" <=> phase[r] = "new")
                        \/ reply[r] = "none" /\ reply'[r] \in Errors

\* Nothing that the mapping reads has changed.
LEMMA QuietStep ==
    ASSUME UNCHANGED <<outcome, slot, reply>>,
           \A r \in Requests : phase'[r] = "new" <=> phase[r] = "new"
    PROVE  UNCHANGED Abstract!vars
<1>1. Life' = Life
  BY DEF Life
<1>2. \A r \in Requests : DecidedAs(r)' = DecidedAs(r)
  BY DEF DecidedAs
<1>3. QED
  BY <1>1, <1>2 DEF Abstract!vars

\* A refusal reaches exactly the calls whose reply changed.
LEMMA RefusedCalls ==
    ASSUME OnlyRefuses
    PROVE  \E S \in SUBSET Abstract!Undecided :
              /\ Abstract!Refuse(S)
              /\ S = {} => [r \in Requests |-> DecidedAs(r)]' = [r \in Requests |-> DecidedAs(r)]
<1> DEFINE S == {r \in Requests : reply'[r] # reply[r]}
<1>1. \A r \in S : r \in Requests /\ DecidedAs(r) \in {"none", "open"}
  BY VerdictsApart DEF OnlyRefuses, DecidedAs
<1>2. S \in SUBSET Abstract!Undecided
  BY <1>1 DEF Abstract!Undecided
<1>3. \A r \in Requests : DecidedAs(r)' = IF r \in S THEN "error" ELSE DecidedAs(r)
  BY VerdictsApart DEF OnlyRefuses, DecidedAs
<1> HIDE DEF S
<1>4. Abstract!Refuse(S)
  BY <1>3 DEF Abstract!Refuse
<1>5. S = {} => \A r \in Requests : DecidedAs(r)' = DecidedAs(r)
  BY <1>3
<1>6. QED
  BY <1>2, <1>4, <1>5

\* The model leaves service and takes undecided calls with it.
LEMMA LosingStep ==
    ASSUME OnlyRefuses, Life # "over", Life' = "over" PROVE Abstract!Next
  BY RefusedCalls DEF Abstract!Next, Abstract!Lose

\* Calls are refused while the model stays as it is.
LEMMA RefusingStep ==
    ASSUME OnlyRefuses, Life' = Life
    PROVE  Abstract!Next \/ UNCHANGED Abstract!vars
<1>1. PICK S \in SUBSET Abstract!Undecided :
          /\ Abstract!Refuse(S)
          /\ S = {} => [r \in Requests |-> DecidedAs(r)]' = [r \in Requests |-> DecidedAs(r)]
  BY RefusedCalls
<1>2. CASE S = {}
  BY <1>1, <1>2 DEF Abstract!vars
<1>3. CASE S # {}
  BY <1>1, <1>3 DEF Abstract!Next, Abstract!Turn
<1>4. QED
  BY <1>2, <1>3

\* Giving job an error refuses it, or nobody.
LEMMA AnswerRefuses ==
    ASSUME Inv, NEW j, NEW v \in Errors, reply' = Answer(j, v), UNCHANGED phase,
           j \in Requests /\ phase[j] = "waiting" => reply[j] = "none"
    PROVE  OnlyRefuses
  BY DEF Answer, OnlyRefuses, Inv, TypeOK

\* A job in hand has no answer yet.
LEMMA InHandUnanswered ==
    ASSUME Inv PROVE job \in Requests /\ phase[job] = "waiting" => reply[job] = "none"
  BY DEF Inv, HeldOnce, Inside

\* A session that ends is the model leaving service.
LEMMA EndSessionStep ==
    ASSUME Inv, sup \in SessionPoints, NEW o \in {"Shutdown", "Kill", "Restart"},
           NEW v \in Errors, EndSession(o, v), UNCHANGED phase
    PROVE  Abstract!Next
<1>1. OnlyRefuses
  BY AnswerRefuses, InHandUnanswered DEF EndSession
<1>2. Life # "over"
  BY DEF Inv, OutcomeDecided, BeforeEnd, Life
<1>3. Life' = "over"
  BY DEF EndSession, Life
<1>4. QED
  BY <1>1, <1>2, <1>3, LosingStep

\* A startup that is settled without success is a model that never served.
LEMMA SettleStep ==
    ASSUME UNCHANGED <<outcome, reply, phase>>, NEW v \in {"failed", "dropped"}, slot' = Settle(v)
    PROVE  Abstract!Next \/ UNCHANGED Abstract!vars
<1>1. CASE slot # "pending"
  BY <1>1, QuietStep DEF Settle
<1>2. CASE slot = "pending" /\ outcome # "none"
  <2>1. Life' = Life /\ \A r \in Requests : DecidedAs(r)' = DecidedAs(r)
    BY <1>2 DEF Life, DecidedAs
  <2>2. QED
    BY <2>1 DEF Abstract!vars
<1>3. CASE slot = "pending" /\ outcome = "none"
  <2>1. OnlyRefuses
    BY DEF OnlyRefuses
  <2>2. Life # "over" /\ Life' = "over"
    BY <1>3 DEF Life, Settle
  <2>3. QED
    BY <2>1, <2>2, LosingStep
<1>4. QED
  BY <1>1, <1>2, <1>3

LEMMA RefinementInit == Init => Abstract!Init
<1> SUFFICES ASSUME Init PROVE Abstract!Init
  OBVIOUS
<1>1. Life = "starting"
  BY DEF Init, Life
<1>2. \A r \in Requests : DecidedAs(r) = "none"
  BY VerdictsApart DEF Init, DecidedAs
<1>3. QED
  BY <1>1, <1>2 DEF Abstract!Init

LEMMA SupervisorRefines ==
    ASSUME Inv, SupervisorStep PROVE Abstract!Next \/ UNCHANGED Abstract!vars
<1> USE DEF handle, start, session, process, calls
<1>1. CASE Begin \/ SpawnOk \/ RecordPid \/ TakeJob \/ IdlePoll \/ Announce \/
           WriteOk \/ Publish \/ GraceOver \/ MarkState \/ Clear \/ Report
  BY <1>1, QuietStep DEF Begin, SpawnOk, RecordPid, TakeJob, IdlePoll, Announce, WriteOk,
                      Publish, GraceOver, MarkState, Clear, Report
<1>2. CASE SpawnFails \/ Closing \/ Reap \/ GiveUp
  BY <1>2, SettleStep DEF SpawnFails, Closing, Reap, GiveUp
<1>3. CASE StartupDeadline \/ SeeChildExit \/ IdleEof \/ WriteFails \/ WaitEof \/
           WaitPoll \/ InferenceDeadline \/ Kill
  BY <1>3, EndSessionStep, VerdictsApart DEF StartupDeadline, SeeChildExit, IdleEof,
                                          WriteFails, WaitEof, WaitPoll,
                                          InferenceDeadline, Kill, SessionPoints
<1>4. CASE LoopTop
  <2>1. CASE UNCHANGED <<outcome, reply>>
    BY <1>4, <2>1, QuietStep DEF LoopTop
  <2>2. CASE \E o \in {"Shutdown", "Restart"} : EndSession(o, "shutting_down")
    BY <1>4, <2>2, EndSessionStep, VerdictsApart DEF LoopTop, SessionPoints
  <2>3. QED
    BY <1>4, <2>1, <2>2 DEF LoopTop
<1>5. CASE CheckJob
  <2>1. CASE UNCHANGED <<outcome, reply>>
    BY <1>5, <2>1, QuietStep DEF CheckJob
  <2>2. CASE \E o \in {"Shutdown", "Restart"} : EndSession(o, "shutting_down")
    BY <1>5, <2>2, EndSessionStep, VerdictsApart DEF CheckJob, SessionPoints
  <2>3. QED
    BY <1>5, <2>1, <2>2 DEF CheckJob
<1>6. CASE IdleFrame
  <2>1. CASE UNCHANGED <<outcome, reply>>
    BY <1>6, <2>1, QuietStep DEF IdleFrame
  <2>2. CASE \E o \in {"Shutdown", "Restart"} : EndSession(o, "shutting_down")
    BY <1>6, <2>2, EndSessionStep, VerdictsApart DEF IdleFrame, SessionPoints
  <2>3. QED
    BY <1>6, <2>1, <2>2 DEF IdleFrame
<1>7. CASE Inform
  <2>1. /\ slot \in {"pending", "ok"} /\ outcome = "none" /\ UNCHANGED <<outcome, reply, phase>>
        /\ slot' = "ok"
    BY <1>7 DEF Inform, Settle, Inv, OutcomeDecided, BeforeEnd, SessionPoints
  <2>2. \A r \in Requests : DecidedAs(r)' = DecidedAs(r)
    BY <2>1 DEF DecidedAs
  <2>3. CASE slot = "pending"
    <3>1. Life = "starting" /\ Life' = "serving"
      BY <2>1, <2>3 DEF Life
    <3>2. QED
      BY <2>2, <3>1 DEF Abstract!Next, Abstract!Load
  <2>4. CASE slot = "ok"
    BY <2>1, <2>4, QuietStep
  <2>5. QED
    BY <2>1, <2>3, <2>4
<1>8. CASE WaitFrame
  <2> DEFINE f == Head(stdout)
  <2>1. f \in Frames /\ Verdict(f) \in Errors \cup {job}
    BY <1>8, SeqFacts, VerdictOwn DEF WaitFrame, Inv, TypeOK
  <2>2. outcome = "none" /\ slot = "ok" /\ Life = "serving" /\ job \in Jobs
    BY <1>8 DEF WaitFrame, Inv, TypeOK, JobInHand, OutcomeDecided, OnlyPokeBeforeReady,
             BeforeEnd, SessionPoints, Life
  <2>3. CASE ~KeepsWorker(f)
    <3>1. Verdict(f) \in Errors
      BY <2>1, <2>3 DEF KeepsWorker, Verdict, Matches, Errors, Frames
    <3>2. QED
      BY <1>8, <2>3, <3>1, EndSessionStep DEF WaitFrame, SessionPoints
  <2>4. CASE KeepsWorker(f)
    <3>1. /\ reply' = Answer(job, Verdict(f)) /\ UNCHANGED <<outcome, slot, phase>>
          /\ Life' = Life
      BY <1>8, <2>4 DEF WaitFrame, Life
    <3> HIDE DEF f
    <3>2. CASE Verdict(f) \in Errors
      BY <2>2, <3>1, <3>2, AnswerRefuses, InHandUnanswered, RefusingStep
    <3>3. CASE Verdict(f) = job /\ job \in Requests /\ phase[job] = "waiting"
      <4>1. reply' = [reply EXCEPT ![job] = job] /\ reply[job] = "none"
        BY <3>1, <3>3, InHandUnanswered DEF Answer
      <4>2. /\ DecidedAs(job) = "open"
            /\ \A r \in Requests : DecidedAs(r)' = IF r = job THEN job ELSE DecidedAs(r)
        BY <3>1, <3>3, <4>1, VerdictsApart DEF DecidedAs, Inv, TypeOK, Jobs
      <4>3. Abstract!Result(job)
        BY <2>2, <3>1, <3>3, <4>2 DEF Abstract!Result
      <4>4. QED
        BY <3>3, <4>3 DEF Abstract!Next
    <3>4. CASE Verdict(f) = job /\ ~(job \in Requests /\ phase[job] = "waiting")
      BY <3>1, <3>4, QuietStep DEF Answer
    <3>5. QED
      BY <2>1, <3>2, <3>3, <3>4
  <2>5. QED
    BY <2>3, <2>4
<1>9. CASE Drain
  <2>1. UNCHANGED <<outcome, slot, phase>> /\ Life = "over" /\ Life' = "over"
    BY <1>9 DEF Drain, Inv, OutcomeDecided, Life
  <2>2. CASE queue = <<>>
    BY <1>9, <2>1, <2>2, QuietStep DEF Drain
  <2>3. CASE queue # <<>>
    <3>1. 1 \in DOMAIN queue /\ Head(queue) = queue[1]
      BY <2>3, TailElements DEF Inv, TypeOK
    <3>2. OnlyRefuses
      BY <1>9, <2>3, <3>1, AnswerRefuses, VerdictsApart DEF Drain, Inv, HeldOnce, Inside
    <3>3. QED
      BY <2>1, <3>2, RefusingStep
  <2>4. QED
    BY <2>2, <2>3
<1>10. CASE Drop
  <2>1. OnlyRefuses
    BY <1>10, VerdictsApart DEF Drop, OnlyRefuses, Inv, HeldOnce, Inside
  <2>2. CASE slot = "pending" /\ outcome = "none"
    BY <1>10, <2>1, <2>2, LosingStep DEF Drop, Settle, Life
  <2>3. CASE ~(slot = "pending" /\ outcome = "none")
    BY <1>10, <2>1, <2>3, RefusingStep DEF Drop, Settle, Life
  <2>4. QED
    BY <2>2, <2>3
<1>11. QED
  BY <1>1, <1>2, <1>3, <1>4, <1>5, <1>6, <1>7, <1>8, <1>9, <1>10 DEF SupervisorStep

\* Calls are taken only from an owner that has seen the handshake.
LEMMA CallerRefines ==
    ASSUME Inv, NEW r \in Requests, Caller(r) PROVE Abstract!Next \/ UNCHANGED Abstract!vars
<1> USE DEF handle, start, session, process, calls
<1>1. phase[r] # "new" => reply[r] = "none" \/ ~Early(r)
  BY DEF Inv, HeldOnce
<1>2. ASSUME Early(r), NEW v \in Errors, Return(r, v), UNCHANGED <<outcome, slot>>
      PROVE  Abstract!Next \/ UNCHANGED Abstract!vars
  <2>1. OnlyRefuses
    BY <1>2 DEF Return, OnlyRefuses, Inv, HeldOnce, TypeOK
  <2>2. Life' = Life
    BY <1>2 DEF Life
  <2>3. QED
    BY <2>1, <2>2, RefusingStep
<1>3. ASSUME phase[r] # "new", NEW p, p # "new", phase' = [phase EXCEPT ![r] = p],
             UNCHANGED <<outcome, slot, reply>>
      PROVE  UNCHANGED Abstract!vars
  BY <1>3, QuietStep DEF Inv, TypeOK
<1>4. CASE Admit(r)
  <2>1. CASE Return(r, "overloaded")
    BY <1>2, <1>4, <2>1, VerdictsApart DEF Admit, Early
  <2>2. CASE phase' = [phase EXCEPT ![r] = "admitted"] /\ UNCHANGED reply
    <3>1. Life # "starting" /\ Life' = Life
      BY <1>4 DEF Admit, Inv, OnlyPokeBeforeReady, Life
    <3>2. reply[r] = "none"
      BY <1>4 DEF Admit, Inv, HeldOnce, Early
    <3>3. /\ DecidedAs(r) = "none"
          /\ \A q \in Requests : DecidedAs(q)' = IF q = r THEN "open" ELSE DecidedAs(q)
      BY <1>4, <2>2, <3>2, VerdictsApart DEF Admit, DecidedAs, Inv, TypeOK
    <3>4. Abstract!Open(r)
      BY <3>1, <3>3 DEF Abstract!Open
    <3>5. QED
      BY <3>4 DEF Abstract!Next
  <2>3. QED
    BY <1>4, <2>1, <2>2 DEF Admit
<1>5. CASE CheckState(r)
  BY <1>2, <1>3, <1>5, VerdictsApart DEF CheckState, Early
<1>6. CASE Send(r)
  BY <1>2, <1>3, <1>6, VerdictsApart DEF Send, Early
<1>7. CASE Receive(r) \/ Cancel(r)
  BY <1>3, <1>7 DEF Receive, Cancel
<1>8. QED
  BY <1>4, <1>5, <1>6, <1>7 DEF Caller

\* The owner and the worker change nothing that a caller is told.
LEMMA OthersRefine ==
    ASSUME OwnerStep \/ Signal \/ ChildActs \/ Finished \/ UNCHANGED vars
    PROVE  UNCHANGED Abstract!vars
<1> USE DEF handle, start, session, process, calls
<1>1. UNCHANGED <<outcome, slot, reply, phase>>
  BY DEF OwnerStep, ChildActs, Finished, vars, Started, StartFails, StartTimeout,
         StopAdmitting, PokeSupervisor, Stopped, ForceStop, KillWaitOver, Signal,
         WorkerReady, WorkerCannotLoad, Serve, ServeWrong, Stray, Exit, ChildStep
<1>2. QED
  BY <1>1, QuietStep

\* Every step of the handle is one of the abstract specification, or none.
LEMMA RefinementNext == Inv /\ [Next]_vars => [Abstract!Next]_(Abstract!vars)
  BY SupervisorRefines, CallerRefines, OthersRefine DEF Next

\* The supervisor implements the abstract specification: one model that serves at
\* most once, each call decided at most once, results only its own and only while
\* the model serves.
THEOREM Refinement == Spec => ImplementsResident
  BY RefinementNext, RefinementInit, Invariance, PTL DEF Spec, ImplementsResident, Abstract!Spec
===============================================================================
