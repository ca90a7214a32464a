---------------------------- MODULE ExchangeProofs ----------------------------
(***************************************************************************)
(* Proofs about Exchange, for any bodies, any limits and whatever the      *)
(* inference stack comes to.                                               *)
(***************************************************************************)
EXTENDS Exchange, TLAPS, FiniteSetTheorems

-------------------------------------------------------------------------------
(* Lemmas                                                                  *)

\* Each error is answered with a status and a code of the table, and none with 200.
LEMMA ErrorAnswers ==
    ASSUME NEW e \in Errors
    PROVE  WorkerErrorStatus(e) \in {400, 429, 502, 503, 504} /\ Kind(e) \in Codes
<1>1. CASE e = "Unavailable"
  BY <1>1 DEF WorkerErrorStatus, Kind, Codes
<1>2. CASE e = "InferenceTimeout"
  BY <1>2 DEF WorkerErrorStatus, Kind, Codes
<1>3. CASE e = "WorkerFailed"
  BY <1>3 DEF WorkerErrorStatus, Kind, Codes
<1>4. CASE e = "InvalidRequest"
  BY <1>4 DEF WorkerErrorStatus, Kind, Codes
<1>5. CASE e = "OversizedResponse"
  BY <1>5 DEF WorkerErrorStatus, Kind, Codes
<1>6. CASE e = "Overloaded"
  BY <1>6 DEF WorkerErrorStatus, Kind, Codes
<1> QED
  BY <1>1, <1>2, <1>3, <1>4, <1>5, <1>6 DEF Errors

\* The part of the type invariant that an answer has.
AnswerOK == \/ answer = NoAnswer
            \/ answer.status = 200
            \/ answer.status \in {400, 413, 429, 502, 503, 504} /\ answer.code \in Codes

LEMMA FailsAnswers ==
    ASSUME NEW e \in Errors, Fails(e)
    PROVE  error' = e /\ error' \in Errors /\ stage' = "answered" /\ AnswerOK' /\ answer'.status # 200
<1>1. answer'.status = WorkerErrorStatus(e) /\ answer'.code = Kind(e)
  BY DEF Fails, Answered, ErrorResponse
<1> QED
  BY <1>1, ErrorAnswers DEF Fails, Answered, AnswerOK

LEMMA AnsweredError ==
    ASSUME NEW s \in {400, 413, 503}, NEW c \in Codes, Answered(ErrorResponse(s, c))
    PROVE  stage' = "answered" /\ AnswerOK' /\ answer'.status # 200
<1>1. answer'.status = s /\ answer'.code = c
  BY DEF Answered, ErrorResponse
<1> QED
  BY <1>1 DEF Answered, AnswerOK

LEMMA SuccessAnswers == Success.status = 200
  BY DEF Success

LEMMA OutcomeKinds ==
    ASSUME outcome \in Outcomes \cup {NoOutcome}
    PROVE  outcome.kind \in {"none", "result", "value_error", "raises", "dies", "hangs"}
  BY ExchangeAssumption DEF NoOutcome, AllOutcomes, Results, Failures

\* What the daemon lets through the worker lets through, but for a text of separators.
LEMMA ValidatorsAgree ==
    ASSUME body \in Bodies, Valid, body.state # "separators"
    PROVE  ValidateParams
<1>1. DOMAIN body.questions # {}
  BY FS_EmptySet, ExchangeAssumption DEF Valid
<1>2. body.state \notin {"blank", "separators", "empty_object", "empty_list", "number"}
  BY DEF Valid, ValidateState
<1>3. \A n \in DOMAIN body.questions :
         body.questions[n].kind \in Types /\ body.questions[n].instructions
  BY DEF Valid, ValidateQuestion
<1> QED
  BY <1>1, <1>2, <1>3 DEF ValidateParams

\* With limits that fit, a body within its limit makes a frame within the worker's.
LEMMA FramesFit == ASSUME LimitsFit, body \in Bodies, ~BodyTooLarge PROVE FrameSize <= MaxInput
<1>1. body.size \in Nat /\ MaxBody \in Nat /\ MaxInput \in Nat /\ body.size <= MaxBody
  BY ExchangeAssumption DEF AllBodies, BodyTooLarge
<1>2. (body.size * 19) \div 5 <= (MaxBody * 19) \div 5 /\ body.size <= (MaxBody * 19) \div 5
  BY <1>1
<1> QED
  BY <1>1, <1>2 DEF LimitsFit, FrameSize, Envelope

-------------------------------------------------------------------------------
(* The invariant                                                           *)

LEMMA ExchangeInitInv == ExchangeInit => ExchangeInv
  BY DEF ExchangeInit, ExchangeInv, ExchangeTypeOK, PassedOn, ReplyKnown, AnswerKnown, NoFrame, Frame

\* Nothing of the request changes until the next is posted.
Kept == UNCHANGED <<path, body, outcome>>

LEMMA KeptRequest ==
    ASSUME Kept
    PROVE  /\ Valid' = Valid /\ BodyTooLarge' = BodyTooLarge /\ Success' = Success
           /\ FrameSize' = FrameSize
  BY DEF Kept, Valid, ValidateState, ValidateQuestion, BodyTooLarge, Success, JevAnswer, AnswerKeys,
         FrameSize

LEMMA ExchangeNextInv == ExchangeInv /\ [ExchangeNext]_exchangeVars => ExchangeInv'
<1> SUFFICES ASSUME ExchangeInv, [ExchangeNext]_exchangeVars PROVE ExchangeInv'
  OBVIOUS
<1>0. \A e \in Errors : ~ (e = NoError)
  BY DEF Errors, NoError
<1>1. ASSUME stage' = "answered", answer'.status # 200, AnswerOK', Kept, UNCHANGED frame,
             session' \in {"loading", "serving", "ended"}, error' \in Errors \cup {NoError}
      PROVE  ExchangeInv'
  BY <1>1 DEF ExchangeInv, ExchangeTypeOK, PassedOn, ReplyKnown, AnswerKnown, Kept, AnswerOK
<1>2. CASE Attached \/ UNCHANGED exchangeVars
  <2>1. Kept /\ UNCHANGED <<stage, frame, error, answer>>
        /\ ((session = "loading" /\ session' = "serving") \/ UNCHANGED session)
    BY <1>2 DEF Attached, exchangeVars, Kept
  <2>2. ExchangeTypeOK'
    BY <2>1 DEF ExchangeInv, ExchangeTypeOK, Kept
  <2>3. PassedOn'
    BY <2>1, KeptRequest DEF ExchangeInv, PassedOn
  <2>4. ReplyKnown'
    <3>1. UNCHANGED <<stage, frame, outcome>> /\ FrameSize' = FrameSize /\ ReplyKnown
      BY <2>1, KeptRequest DEF ExchangeInv, Kept
    <3> QED
      BY ONLY <3>1 DEF ReplyKnown, Fatal, Rejected, Emitted, NoFrame
  <2>5. AnswerKnown'
    BY <2>1, KeptRequest DEF ExchangeInv, AnswerKnown
  <2> QED
    BY <2>2, <2>3, <2>4, <2>5 DEF ExchangeInv
<1>3. CASE Post
  BY <1>3 DEF Post, ExchangeInv, ExchangeTypeOK, PassedOn, ReplyKnown, AnswerKnown, NoFrame, Frame
<1>4. CASE Receive
  <2>1. Kept /\ UNCHANGED <<session, frame, error>>
    BY <1>4 DEF Receive, Kept
  <2>2. CASE \E s \in {400, 413, 503}, c \in Codes : Answered(ErrorResponse(s, c))
    BY <1>1, <2>1, <2>2, AnsweredError DEF ExchangeInv, ExchangeTypeOK
  <2>3. CASE stage' = "valid" /\ UNCHANGED answer /\ ~BodyTooLarge /\ Valid
    BY <2>1, <2>3, KeptRequest
    DEF ExchangeInv, ExchangeTypeOK, PassedOn, ReplyKnown, AnswerKnown, Kept
  <2> QED
    BY <1>4, <2>2, <2>3 DEF Receive, Codes
<1>5. CASE Refuse \/ Deadline
  <2>1. \E e \in Errors : Fails(e)
    BY <1>5 DEF Refuse, Deadline, Errors
  <2>2. Kept /\ UNCHANGED frame /\ session' \in {"loading", "serving", "ended"}
    BY <1>5 DEF Refuse, Deadline, Kept, ExchangeInv, ExchangeTypeOK
  <2> QED
    BY <1>1, <2>1, <2>2, FailsAnswers
<1>6. CASE Send
  <2>1. Kept
    BY <1>6 DEF Send, Kept
  <2> QED
    BY <1>6, <2>1, KeptRequest
    DEF Send, ExchangeInv, ExchangeTypeOK, PassedOn, ReplyKnown, AnswerKnown
<1>7. CASE ReadRequest
  <2>1. Kept /\ UNCHANGED <<session, error, answer>>
    BY <1>7 DEF ReadRequest, Kept
  <2>2. /\ stage = "sent" /\ stage' \in {"replied", "predicting"}
        /\ frame'.bad \in {"absent", "no", "oversized", "malformed", "eof"}
    BY <1>7 DEF ReadRequest, Replied, Fatal, Rejected, Frame, ExchangeInv, ExchangeTypeOK
  <2>3. ReplyKnown'
    BY <1>7, <2>1, KeptRequest DEF ReadRequest, Replied, ReplyKnown, Fatal, Rejected, Frame
  <2> QED
    BY <2>1, <2>2, <2>3, KeptRequest
    DEF ExchangeInv, ExchangeTypeOK, PassedOn, AnswerKnown, Kept
<1>8. CASE Predict
  <2>1. UNCHANGED <<session, path, body, error, answer>> /\ outcome' \in Outcomes
        /\ stage = "predicting"
    BY <1>8 DEF Predict
  <2>2. outcome'.kind \in {"result", "value_error", "raises", "dies", "hangs"}
    BY <2>1, ExchangeAssumption DEF AllOutcomes, Results, Failures
  <2>3. \/ outcome'.kind = "result" /\ Replied(Emitted(outcome'.finite, outcome'.huge))
        \/ outcome'.kind = "value_error" /\ Replied(Rejected("invalid_request"))
        \/ outcome'.kind = "raises" /\ Replied(Fatal("inference_failed", TRUE))
        \/ outcome'.kind = "dies" /\ Replied([NoFrame EXCEPT !.bad = "eof"])
        \/ UNCHANGED <<stage, frame>>
    BY <1>8, <2>2 DEF Predict
  <2>4. ReplyKnown' /\ stage' \in {"predicting", "replied"}
    BY <2>1, <2>3 DEF ReplyKnown, Replied, Emitted, Rejected, Fatal
  <2>5. frame'.bad \in {"absent", "no", "oversized", "malformed", "eof"}
    BY <2>3 DEF Replied, Emitted, Rejected, Fatal, NoFrame, Frame, ExchangeInv, ExchangeTypeOK
  <2>6. Valid' = Valid /\ BodyTooLarge' = BodyTooLarge
    BY <2>1 DEF Valid, ValidateState, ValidateQuestion, BodyTooLarge
  <2> QED
    BY <2>1, <2>4, <2>5, <2>6 DEF ExchangeInv, ExchangeTypeOK, PassedOn, AnswerKnown
<1>9. CASE ReadReply
  <2>1. Kept /\ UNCHANGED frame /\ session' \in {"loading", "serving", "ended"}
    BY <1>9 DEF ReadReply, Kept, ExchangeInv, ExchangeTypeOK
  <2>2. CASE \E e \in Errors : Fails(e)
    BY <1>1, <2>1, <2>2, FailsAnswers
  <2>3. CASE Answered(Success) /\ UNCHANGED error
    BY <2>1, <2>3, KeptRequest, SuccessAnswers
    DEF Answered, ExchangeInv, ExchangeTypeOK, PassedOn, ReplyKnown, AnswerKnown, Kept
  <2>4. ErrorOf(frame.code) \in Errors
    BY DEF ErrorOf, Errors
  <2> QED
    BY <1>9, <2>2, <2>3, <2>4 DEF ReadReply, Errors
<1> QED
  BY <1>2, <1>3, <1>4, <1>5, <1>6, <1>7, <1>8, <1>9 DEF ExchangeNext

\* What is known of a request at each stage stays true.
THEOREM ExchangeInvariance == ExchangeSpec => []ExchangeInv
  BY ExchangeInitInv, ExchangeNextInv, PTL DEF ExchangeSpec

-------------------------------------------------------------------------------
(* What follows                                                            *)

\* The shape of a 200 of /v1/systemone depends on the request alone.
THEOREM ShapeNeverDependsAlways == ExchangeSpec => []ShapeNeverDepends
<1>1. ExchangeInv => ShapeNeverDepends
  <2> SUFFICES ASSUME AnswerKnown, stage = "answered", answer.status = 200, path = "systemone"
               PROVE  /\ DOMAIN answer.answers = DOMAIN body.questions
                      /\ \A n \in DOMAIN answer.answers :
                            /\ DOMAIN answer.answers[n] = JevKeys(body.questions[n].kind)
                            /\ \A k \in DOMAIN answer.answers[n] :
                                  answer.answers[n][k] = "null" <=> k \notin AnswerKeys(n)
    BY DEF ExchangeInv, ShapeNeverDepends
  <2>1. answer.answers = [n \in DOMAIN body.questions |->
                            JevAnswer(body.questions[n].kind, AnswerKeys(n))]
    BY DEF AnswerKnown, Success
  <2> QED
    BY <2>1 DEF JevAnswer
<1> QED
  BY ExchangeInvariance, <1>1, PTL

\* A reply that is read ends the session exactly when its error says so.
LEMMA ReplyTold ==
    ASSUME ExchangeInv, ReadReply, error' # NoError, error' # error
    PROVE  InvalidatesWorker(error') <=> session' = "ended"
<1>1. /\ session = "serving"
      /\ \/ frame = Fatal("frame_too_large", FALSE) \/ frame = Rejected("invalid_request")
         \/ frame = Emitted(outcome.finite, outcome.huge)
         \/ frame = Fatal("inference_failed", TRUE) \/ frame = [NoFrame EXCEPT !.bad = "eof"]
  BY DEF ReadReply, ExchangeInv, PassedOn, ReplyKnown
<1> USE DEF ReadReply, Fails, FatalReply, ErrorOf, InvalidatesWorker, Frame
<1>2. CASE frame = Fatal("frame_too_large", FALSE)
  BY <1>1, <1>2 DEF Fatal
<1>3. CASE frame = Rejected("invalid_request")
  BY <1>1, <1>3 DEF Rejected
<1>4. CASE frame = Emitted(outcome.finite, outcome.huge)
  BY <1>1, <1>4 DEF Emitted
<1>5. CASE frame = Fatal("inference_failed", TRUE)
  BY <1>1, <1>5 DEF Fatal
<1>6. CASE frame = [NoFrame EXCEPT !.bad = "eof"]
  BY <1>1, <1>6 DEF NoFrame
<1> QED
  BY <1>1, <1>2, <1>3, <1>4, <1>5, <1>6

\* An error says that the worker is lost exactly when it is.
THEOREM ToldIffLostAlways == ExchangeSpec => ToldIffLost
<1>1. ExchangeInv /\ [ExchangeNext]_exchangeVars
      => [error' \notin {error, NoError} =>
             (InvalidatesWorker(error') <=> session = "serving" /\ session' = "ended")]_exchangeVars
  <2> SUFFICES ASSUME ExchangeInv, ExchangeNext, error' # error, error' # NoError
               PROVE  InvalidatesWorker(error') <=> session = "serving" /\ session' = "ended"
    OBVIOUS
  <2>1. CASE Refuse
    BY <2>1 DEF Refuse, Fails, InvalidatesWorker
  <2>2. CASE Deadline
    BY <2>2 DEF Deadline, Fails, InvalidatesWorker, ExchangeInv, PassedOn
  <2>3. CASE ReadReply
    BY <2>3, ReplyTold DEF ReadReply, ExchangeInv, PassedOn
  <2> QED
    BY <2>1, <2>2, <2>3 DEF ExchangeNext, Attached, Post, Receive, Send, ReadRequest, Predict
<1> QED
  BY ExchangeInvariance, <1>1, PTL DEF ExchangeSpec, ToldIffLost

\* What the daemon passes on the worker does not refuse, but for a text of separators.
THEOREM LayersAgreeAlways == ExchangeSpec => LayersAgree
<1>1. ExchangeInv /\ [ExchangeNext]_exchangeVars
      => [stage = "sent" /\ stage' = "replied" /\ frame'.code = "invalid_request"
          => body.state = "separators"]_exchangeVars
  <2> SUFFICES ASSUME ExchangeInv, ExchangeNext, stage = "sent", stage' = "replied",
                      frame'.code = "invalid_request"
               PROVE  body.state = "separators"
    OBVIOUS
  <2>1. ReadRequest
    BY DEF ExchangeNext, Attached, Post, Receive, Refuse, Send, Predict, ReadReply, Deadline, Fails,
           Answered
  <2>2. ~ValidateParams
    BY <2>1 DEF ReadRequest, Replied, Fatal, Frame
  <2> QED
    BY <2>2, ValidatorsAgree DEF ExchangeInv, ExchangeTypeOK, PassedOn
<1> QED
  BY ExchangeInvariance, <1>1, PTL DEF ExchangeSpec, LayersAgree

\* With limits that fit, no content of a request costs the daemon its worker: a session is
\* lost to the clock or to what the stack did.
THEOREM LostToClockOrStackAlways == LimitsFit => (ExchangeSpec => LostToClockOrStack)
<1> SUFFICES ASSUME LimitsFit PROVE ExchangeSpec => LostToClockOrStack
  OBVIOUS
<1>1. ExchangeInv /\ [ExchangeNext]_exchangeVars
      => [session' = "ended" /\ session # "ended" =>
            \/ error' = "InferenceTimeout"
            \/ outcome.kind \in {"raises", "dies"}
            \/ outcome.kind = "result" /\ (outcome.huge \/ ~outcome.finite)]_exchangeVars
  <2> SUFFICES ASSUME ExchangeInv, ExchangeNext, session' = "ended", session # "ended"
               PROVE  \/ error' = "InferenceTimeout"
                      \/ outcome.kind \in {"raises", "dies"}
                      \/ outcome.kind = "result" /\ (outcome.huge \/ ~outcome.finite)
    OBVIOUS
  <2>1. CASE Deadline
    BY <2>1 DEF Deadline, Fails
  <2>2. CASE ReadReply
    <3>1. FrameSize <= MaxInput
      BY <2>2, FramesFit DEF ReadReply, ExchangeInv, ExchangeTypeOK, PassedOn
    <3>2. FrameSize \in Int /\ MaxInput \in Int
      BY ExchangeAssumption DEF FrameSize, Envelope, AllBodies, ExchangeInv, ExchangeTypeOK
    <3>6. ~ (FrameSize > MaxInput)
      BY ONLY <3>1, <3>2
    <3>3. \/ frame = Rejected("invalid_request")
          \/ outcome.kind = "result" /\ frame = Emitted(outcome.finite, outcome.huge)
          \/ outcome.kind \in {"raises", "dies"}
      <4>1. ReplyKnown /\ stage = "replied"
        BY <2>2 DEF ReadReply, ExchangeInv
      <4> QED
        BY ONLY <4>1, <3>6 DEF ReplyKnown
    <3>4. CASE frame = Rejected("invalid_request")
      BY <2>2, <3>4 DEF ReadReply, Rejected, Frame, FatalReply
    <3>5. CASE outcome.kind = "result" /\ frame = Emitted(outcome.finite, outcome.huge)
      BY <2>2, <3>5 DEF ReadReply, Emitted, Frame
    <3> QED
      BY <3>3, <3>4, <3>5
  <2> QED
    BY <2>1, <2>2 DEF ExchangeNext, Attached, Post, Receive, Refuse, Send, ReadRequest, Predict
<1> QED
  BY ExchangeInvariance, <1>1, PTL DEF ExchangeSpec, LostToClockOrStack
===============================================================================
