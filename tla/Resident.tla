------------------------------- MODULE Resident -------------------------------
(***************************************************************************)
(* What src/src/worker.rs promises the HTTP layer: one resident model per  *)
(* daemon, loaded at most once and never replaced; each call decided at    *)
(* most once, with its own result and only while the model is in service,  *)
(* or with an error.  Supervisor implements it.                            *)
(***************************************************************************)
CONSTANT Requests

VARIABLES life,     \* of the one model: "starting", "serving", then "over"
          verdict   \* of each call: "none", "open", "error", or the payload answered

vars == <<life, verdict>>

ResidentType == /\ life \in {"starting", "serving", "over"}
                /\ verdict \in [Requests -> {"none", "open", "error"} \cup Requests]

Init == /\ life = "starting"
        /\ verdict = [r \in Requests |-> "none"]

\* The handshake: only a model that never served may begin to.
Load == /\ life = "starting" /\ life' = "serving"
        /\ UNCHANGED verdict

\* Calls are taken only once the model has been in service.
Open(r) == /\ life # "starting" /\ verdict[r] = "none"
           /\ verdict' = [verdict EXCEPT ![r] = "open"]
           /\ UNCHANGED life

Result(r) == /\ life = "serving" /\ verdict[r] = "open"
             /\ verdict' = [verdict EXCEPT ![r] = r]
             /\ UNCHANGED life

\* Calls not decided yet may be refused at any time, several at once when the model is lost.
Refuse(S) == verdict' = [r \in Requests |-> IF r \in S THEN "error" ELSE verdict[r]]

Undecided == {r \in Requests : verdict[r] \in {"none", "open"}}

Turn == \E S \in SUBSET Undecided : S # {} /\ Refuse(S) /\ UNCHANGED life
Lose == \E S \in SUBSET Undecided : Refuse(S) /\ life # "over" /\ life' = "over"

Next == Load \/ Turn \/ Lose \/ \E r \in Requests : Open(r) \/ Result(r)

Spec == Init /\ [][Next]_vars
===============================================================================
