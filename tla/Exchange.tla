------------------------------- MODULE Exchange -------------------------------
(***************************************************************************)
(* What the content of a request decides: the validation and the replies   *)
(* of src/src/api.rs, the frames of src/src/worker.rs, and the validation  *)
(* and the loop of src/python/worker.py.  One request is under way at a    *)
(* time; how several share the worker is the subject of Supervisor.        *)
(*                                                                         *)
(* A value is reduced to what some check tells apart.  "separators" is a   *)
(* text of U+001C to U+001F: blank for Python, not for Rust.  A body full  *)
(* of powers of ten such as 1e15 grows when it is written again, five      *)
(* bytes (with the comma) to nineteen.                                     *)
(***************************************************************************)
EXTENDS Integers, FiniteSets

CONSTANTS
    Bodies,         \* the request bodies considered
    MaxBody,        \* --max-body-bytes
    MaxQuestions,   \* --max-questions
    MaxInput,       \* MAX_INPUT_BYTES of the worker
    Outcomes        \* what a call of the inference stack may come to

VARIABLES
    session,   \* "loading", "serving", or "ended" with its worker
    stage,     \* where the request is
    path, body,
    outcome,   \* what the stack made of it, NoOutcome if it was not called
    frame,     \* the worker's reply
    error,     \* the WorkerError that predict() returned
    answer     \* the HTTP answer

exchangeVars == <<session, stage, path, body, outcome, frame, error, answer>>

Names    == {"a", "b", ""}
Types    == {"choice", "score", "noul"}
States   == {"null", "text", "blank", "separators", "object", "empty_object", "list",
             "empty_list", "number"}
Criteria == {"absent", "null", "text", "empty_list", "list", "empty_object", "object"}
Questions == [kind : Types \cup {"other", "absent", "no_object"}, instructions : BOOLEAN,
              criteria : Criteria]
AllBodies == [size : Nat, powers : BOOLEAN, readable : BOOLEAN, parses : BOOLEAN, state : States,
              questions : UNION {[S -> Questions] : S \in SUBSET Names}]

Keys == {"type", "choice", "score", "noul", "confidence", "legend", "probabilities", "action"}

\* A result has keys for some questions; the rest is how the call may fail.
NoOutcome   == [kind |-> "none"]
Results     == [kind : {"result"}, finite : BOOLEAN, huge : BOOLEAN, found : SUBSET Names,
                keys : SUBSET Keys]
Failures    == [kind : {"value_error", "raises", "dies", "hangs"}]
AllOutcomes == Results \cup Failures

ASSUME ExchangeAssumption ==
    /\ Bodies \subseteq AllBodies /\ Outcomes \subseteq AllOutcomes
    /\ {MaxBody, MaxQuestions, MaxInput} \subseteq Nat \ {0}

-------------------------------------------------------------------------------
(* Frames and errors                                                       *)

\* The fatal flag may stand in the frame or in its error object.
Frame(ok, id, code, fatal, inner, bad) ==
    [ok |-> ok, id |-> id, code |-> code, fatal |-> fatal, inner |-> inner, bad |-> bad]
NoFrame == Frame(FALSE, FALSE, "none", FALSE, FALSE, "absent")

\* Worker.emit, Worker.reject and Worker.fatal; a value that is not finite is written as
\* NaN, which is not JSON.
Emitted(finite, huge) ==
    Frame(TRUE, TRUE, "none", FALSE, FALSE,
          IF huge THEN "oversized" ELSE IF finite THEN "no" ELSE "malformed")
Rejected(code)  == Frame(FALSE, TRUE, code, FALSE, FALSE, "no")
Fatal(code, id) == Frame(FALSE, id, code, TRUE, FALSE, "no")

NoError == "none"
Errors  == {"Unavailable", "InferenceTimeout", "WorkerFailed", "InvalidRequest",
            "OversizedResponse", "Overloaded"}

InvalidatesWorker(e) == e \in {"InferenceTimeout", "WorkerFailed", "OversizedResponse"}

Kind(e) == CASE e = "Unavailable"       -> "unavailable"
             [] e = "InferenceTimeout"  -> "inference_timeout"
             [] e = "WorkerFailed"      -> "worker_failed"
             [] e = "InvalidRequest"    -> "invalid_request"
             [] e = "OversizedResponse" -> "oversized_response"
             [] e = "Overloaded"        -> "overloaded"

\* Mutant of WorkerErrorStatus: a lost worker is an error of the server's own.
WorkerErrorStatus500(e) == CASE e = "InvalidRequest"   -> 400
                             [] e = "Overloaded"       -> 429
                             [] e = "Unavailable"      -> 503
                             [] e = "InferenceTimeout" -> 504
                             [] e \in {"WorkerFailed", "OversizedResponse"} -> 500

WorkerErrorStatus(e) == CASE e = "InvalidRequest"   -> 400
                          [] e = "Overloaded"       -> 429
                          [] e = "Unavailable"      -> 503
                          [] e = "InferenceTimeout" -> 504
                          [] e \in {"WorkerFailed", "OversizedResponse"} -> 502

NoAnswer == [status |-> 0, code |-> "none"]
ErrorResponse(status, code) == [status |-> status, code |-> code]

Codes == {"body_too_large", "invalid_body", "invalid_json", "invalid_request", "unavailable",
          "inference_timeout", "worker_failed", "oversized_response", "overloaded"}

ExchangeTypeOK ==
    /\ session \in {"loading", "serving", "ended"}
    /\ stage \in {"idle", "received", "valid", "sent", "predicting", "replied", "answered"}
    /\ path \in {"predict", "systemone"} /\ body \in Bodies
    /\ outcome \in Outcomes \cup {NoOutcome}
    /\ frame.bad \in {"absent", "no", "oversized", "malformed", "eof"}
    /\ error \in Errors \cup {NoError}
    /\ \/ answer = NoAnswer
       \/ answer.status = 200
       \/ answer.status \in {400, 413, 429, 502, 503, 504} /\ answer.code \in Codes

ExchangeInit ==
    /\ session = "loading" /\ stage = "idle"
    /\ path = "predict" /\ body \in Bodies
    /\ outcome = NoOutcome /\ frame = NoFrame /\ error = NoError /\ answer = NoAnswer

-------------------------------------------------------------------------------
(* The daemon, before the worker                                           *)

Attached ==
    /\ session = "loading" /\ session' = "serving"
    /\ UNCHANGED <<stage, path, body, outcome, frame, error, answer>>

Post ==
    /\ stage \in {"idle", "answered"} /\ stage' = "received"
    /\ path' \in {"predict", "systemone"} /\ body' \in Bodies
    /\ outcome' = NoOutcome /\ frame' = NoFrame /\ error' = NoError /\ answer' = NoAnswer
    /\ UNCHANGED session

ValidateState(state) == state \notin {"blank", "empty_object", "empty_list", "number"}

\* Mutant of ValidateQuestion: a question may come without instructions.
ValidateQuestionBare(name, q) ==
    /\ name # "" /\ q.kind \in Types
    /\ q.kind = "choice" => q.criteria \in {"object", "list"}
    /\ q.kind = "score"  => q.criteria = "list"

ValidateQuestion(name, q) ==
    /\ name # "" /\ q.kind \in Types /\ q.instructions
    /\ q.kind = "choice" => q.criteria \in {"object", "list"}
    /\ q.kind = "score"  => q.criteria = "list"

Valid ==
    /\ ValidateState(body.state)
    /\ Cardinality(DOMAIN body.questions) \in 1..MaxQuestions
    /\ \A n \in DOMAIN body.questions : ValidateQuestion(n, body.questions[n])

\* Mutant of BodyTooLarge: the limit is not laid over the routes.
BodyTooLargeNever == FALSE

BodyTooLarge == body.size > MaxBody

Answered(a) == stage' = "answered" /\ answer' = a

\* predict_impl up to the worker's slot.
Receive ==
    /\ stage = "received"
    /\ \/ BodyTooLarge /\ Answered(ErrorResponse(413, "body_too_large"))
       \/ ~BodyTooLarge /\ ~body.readable /\ Answered(ErrorResponse(400, "invalid_body"))
       \/ ~BodyTooLarge /\ body.readable /\ ~body.parses
          /\ Answered(ErrorResponse(400, "invalid_json"))
       \/ ~BodyTooLarge /\ body.readable /\ body.parses /\ ~Valid
          /\ Answered(ErrorResponse(400, "invalid_request"))
       \/ ~BodyTooLarge /\ body.readable /\ body.parses /\ Valid /\ session = "loading"
          /\ Answered(ErrorResponse(503, "unavailable"))
       \/ ~BodyTooLarge /\ body.readable /\ body.parses /\ Valid /\ session # "loading"
          /\ stage' = "valid" /\ UNCHANGED answer
    /\ UNCHANGED <<session, path, body, outcome, frame, error>>

\* predict() returns an error, and worker_error_response answers with it.
Fails(e) == error' = e /\ Answered(ErrorResponse(WorkerErrorStatus(e), Kind(e)))

\* predict(): no permit, no worker, or the request is written.
Refuse ==
    /\ stage = "valid"
    /\ \/ Fails("Overloaded")
       \/ session = "ended" /\ Fails("Unavailable")
    /\ UNCHANGED <<session, path, body, outcome, frame>>

Send ==
    /\ stage = "valid" /\ session = "serving"
    /\ stage' = "sent"
    /\ UNCHANGED <<session, path, body, outcome, frame, error, answer>>

-------------------------------------------------------------------------------
(* The worker                                                              *)

\* The bytes of the frame: state and questions written again, and what goes around them.
Envelope == 64
FrameSize == Envelope + IF body.powers THEN (body.size * 19) \div 5 ELSE body.size

\* validate_params.
ValidateParams ==
    /\ body.state \notin {"blank", "separators", "empty_object", "empty_list", "number"}
    /\ DOMAIN body.questions # {}
    /\ \A n \in DOMAIN body.questions :
          body.questions[n].kind \in Types /\ body.questions[n].instructions

Replied(f) == stage' = "replied" /\ frame' = f

\* serve() up to the call of the stack.
ReadRequest ==
    /\ stage = "sent"
    /\ \/ FrameSize > MaxInput /\ Replied(Fatal("frame_too_large", FALSE))
       \/ FrameSize <= MaxInput /\ ~ValidateParams /\ Replied(Rejected("invalid_request"))
       \/ FrameSize <= MaxInput /\ ValidateParams /\ stage' = "predicting" /\ UNCHANGED frame
    /\ UNCHANGED <<session, path, body, outcome, error, answer>>

\* agent.predict and the reply to it; a process that dies closes its output.
Predict ==
    /\ stage = "predicting" /\ outcome = NoOutcome
    /\ outcome' \in Outcomes
    /\ CASE outcome'.kind = "result"      -> Replied(Emitted(outcome'.finite, outcome'.huge))
         [] outcome'.kind = "value_error" -> Replied(Rejected("invalid_request"))
         [] outcome'.kind = "raises"      -> Replied(Fatal("inference_failed", TRUE))
         [] outcome'.kind = "dies"        -> Replied([NoFrame EXCEPT !.bad = "eof"])
         [] outcome'.kind = "hangs"       -> UNCHANGED <<stage, frame>>
    /\ UNCHANGED <<session, path, body, error, answer>>

-------------------------------------------------------------------------------
(* The daemon, after the worker                                            *)

\* Mutant of FatalReply: the flag is looked for in the error object only.
FatalReplyInner == frame.inner

FatalReply == frame.fatal \/ frame.inner

ErrorOf(code) == IF code \in {"invalid_request", "validation"} THEN "InvalidRequest"
                                                               ELSE "WorkerFailed"

JevKeys(kind) == CASE kind = "noul"   -> {"type", "noul"}
                   [] kind = "choice" -> {"type", "choice", "confidence", "probabilities"}
                   [] kind = "score"  -> {"type", "score", "confidence", "legend",
                                          "probabilities"}

\* The keys that the worker has for a question.
AnswerKeys(name) == IF name \in outcome.found THEN outcome.keys ELSE {}

\* Mutant of JevAnswer: what the worker has is passed on, action block and all.
JevAnswerRaw(kind, keys) == [k \in keys |-> "value"]

JevAnswer(kind, keys) == [k \in JevKeys(kind) |-> IF k \in keys THEN "value" ELSE "null"]

\* What /v1/predict answers is the worker's result as it is.
Success ==
    [status |-> 200,
     answers |-> IF path = "systemone"
                 THEN [n \in DOMAIN body.questions |->
                         JevAnswer(body.questions[n].kind, AnswerKeys(n))]
                 ELSE [n \in outcome.found |-> [k \in outcome.keys |-> "value"]]]

\* The session reads a frame: what cannot be parsed or does not carry the id ends it, and
\* so does a fatal error, after it has been told.
ReadReply ==
    /\ stage = "replied"
    /\ \/ frame.bad = "oversized" /\ Fails("OversizedResponse") /\ session' = "ended"
       \/ /\ frame.bad \in {"malformed", "eof"} \/ (frame.bad = "no" /\ ~frame.id)
          /\ Fails("WorkerFailed") /\ session' = "ended"
       \/ /\ frame.bad = "no" /\ frame.id /\ frame.ok
          /\ Answered(Success) /\ UNCHANGED <<session, error>>
       \/ /\ frame.bad = "no" /\ frame.id /\ ~frame.ok
          /\ Fails(ErrorOf(frame.code))
          /\ session' = IF FatalReply THEN "ended" ELSE session
    /\ UNCHANGED <<path, body, outcome, frame>>

\* The inference deadline, which does not wait for a frame that is already there.
Deadline ==
    /\ stage \in {"sent", "predicting", "replied"}
    /\ Fails("InferenceTimeout") /\ session' = "ended"
    /\ UNCHANGED <<path, body, outcome, frame>>

ExchangeNext == \/ Attached \/ Post \/ Receive \/ Refuse \/ Send \/ ReadRequest \/ Predict
                \/ ReadReply \/ Deadline

ExchangeSpec == ExchangeInit /\ [][ExchangeNext]_exchangeVars

-------------------------------------------------------------------------------
(* Why the properties hold: what is known of a request at each stage       *)

\* What the daemon has passed on is within its limits and was found valid, and waits for a
\* worker that has not been given up.
PassedOn ==
    /\ stage \in {"valid", "sent", "predicting", "replied"} => ~BodyTooLarge /\ Valid
    /\ stage \in {"sent", "predicting", "replied"} => session = "serving"

\* A reply tells what became of the request, by its own code and flags.
ReplyKnown ==
    stage = "replied" =>
        \/ FrameSize > MaxInput /\ frame = Fatal("frame_too_large", FALSE)
        \/ frame = Rejected("invalid_request")
        \/ outcome.kind = "result" /\ frame = Emitted(outcome.finite, outcome.huge)
        \/ outcome.kind = "raises" /\ frame = Fatal("inference_failed", TRUE)
        \/ outcome.kind = "dies"   /\ frame = [NoFrame EXCEPT !.bad = "eof"]

\* A result is answered as the stack gave it, to the request that was posted.
AnswerKnown == stage = "answered" /\ answer.status = 200 => answer = Success

ExchangeInv == ExchangeTypeOK /\ PassedOn /\ ReplyKnown /\ AnswerKnown

\* The limits leave room for the growth of the largest body, as those by default do.
LimitsFit == Envelope + (MaxBody * 19) \div 5 <= MaxInput

-------------------------------------------------------------------------------
(* Properties                                                              *)

\* No content of a request costs the daemon its worker: under the default limits the
\* session is lost to the clock or to what the stack did, never to a frame that the
\* worker takes for too large or does not understand.
LostToClockOrStack ==
    [][session' = "ended" /\ session # "ended" =>
          \/ error' = "InferenceTimeout"
          \/ outcome.kind \in {"raises", "dies"}
          \/ outcome.kind = "result" /\ (outcome.huge \/ ~outcome.finite)]_exchangeVars

\* With the project's own worker an error that says the worker is no longer trustworthy
\* is told exactly when the session ends with it.
ToldIffLost ==
    [][error' \notin {error, NoError} =>
          (InvalidatesWorker(error') <=> session = "serving" /\ session' = "ended")
      ]_exchangeVars

\* The daemon and the worker validate by two programs in two languages.  What the first
\* lets through the second lets through, but for a text of separators.
LayersAgree ==
    [][stage = "sent" /\ stage' = "replied" /\ frame'.code = "invalid_request"
       => body.state = "separators"]_exchangeVars

\* A 200 of /v1/systemone has the questions of the request and the keys of their types,
\* whatever the worker left out or added, and null only where it left something out.
ShapeNeverDepends ==
    stage = "answered" /\ answer.status = 200 /\ path = "systemone" =>
        /\ DOMAIN answer.answers = DOMAIN body.questions
        /\ \A n \in DOMAIN answer.answers :
              /\ DOMAIN answer.answers[n] = JevKeys(body.questions[n].kind)
              /\ \A k \in DOMAIN answer.answers[n] :
                    answer.answers[n][k] = "null" <=> k \notin AnswerKeys(n)
===============================================================================
