------------------------------ MODULE MCExchange ------------------------------
(* Every question and every state, alone and beside a plain one, at and over the limits. *)
EXTENDS Exchange

ASSUME DefaultsFit == LimitsFit

Ask(kind, criteria) == [kind |-> kind, instructions |-> TRUE, criteria |-> criteria]

Plain == [size |-> 200, powers |-> FALSE, readable |-> TRUE, parses |-> TRUE, state |-> "text",
          questions |-> [n \in {"a"} |-> Ask("noul", "absent")]]

Sizes   == {[Plain EXCEPT !.size = s, !.powers = p, !.readable = r, !.parses = q] :
               s \in {200, MaxBody, MaxBody + 1, 2 * MaxBody}, p, r, q \in BOOLEAN}
ByState == {[Plain EXCEPT !.state = s] : s \in States}
One     == {[Plain EXCEPT !.questions = [n \in {name} |-> q]] :
               name \in {"a", ""}, q \in Questions}
Two     == {[Plain EXCEPT !.questions = [n \in {"a", "b"} |-> IF n = "a" THEN q ELSE r]] :
               q \in {Ask("choice", "object"), Ask("score", "list")}, r \in Questions}
Odd     == {[Plain EXCEPT !.questions = [n \in S |-> Ask("noul", "absent")]] : S \in {{}, Names}}

MCBodies   == Sizes \cup ByState \cup One \cup Two \cup Odd
MCOutcomes ==
    {[kind |-> "result", finite |-> TRUE, huge |-> FALSE, found |-> S, keys |-> K] :
        S \in SUBSET {"a", "b"}, K \in {{}, {"type", "action"}, Keys}}
    \cup {[kind |-> "result", finite |-> f, huge |-> ~f, found |-> {"a"}, keys |-> Keys] :
            f \in BOOLEAN}
    \cup Failures
===============================================================================
