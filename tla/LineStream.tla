------------------------------ MODULE LineStream ------------------------------
(***************************************************************************)
(* What the session expects of the worker's output: the stream, whatever   *)
(* pieces it arrives in, is the sequence of its lines, and the first line  *)
(* longer than the cap, or not text, is the last thing it is told of.      *)
(* FrameReader implements it.                                              *)
(***************************************************************************)
EXTENDS Naturals, Sequences

CONSTANT Cap    \* max_response_bytes, the newline included

VARIABLES rest, \* what is still to be told of the stream
          told, \* the frames returned
          over  \* nothing more will be read

vars == <<rest, told, over>>

Newlines(s) == {i \in DOMAIN s : s[i] = "nl"}

\* How much of s is its first line, with its newline if it has one.
LineLength(s) == IF Newlines(s) = {} THEN Len(s)
                 ELSE CHOOSE i \in Newlines(s) : \A j \in Newlines(s) : i <= j

Chop(s, byte) == IF s # <<>> /\ s[Len(s)] = byte THEN SubSeq(s, 1, Len(s) - 1) ELSE s

\* Mutant of Text: the newline is left in place.
TextUnchopped(line) == IF \E i \in DOMAIN line : line[i] = "bad"
                       THEN [kind |-> "error", text |-> <<>>]
                       ELSE [kind |-> "line", text |-> Chop(line, "cr")]

\* The text of a line loses its newline, then one carriage return; a line that is
\* not UTF-8 is a read error.
Text(line) == LET text == Chop(Chop(line, "nl"), "cr")
              IN  IF \E i \in DOMAIN text : text[i] = "bad"
                  THEN [kind |-> "error", text |-> <<>>]
                  ELSE [kind |-> "line", text |-> text]

Oversized == [kind |-> "oversized", text |-> <<>>]
Eof       == [kind |-> "eof", text |-> <<>>]

Tell(frame) == told' = Append(told, frame) /\ over' = (frame.kind # "line")

NextLine ==
    /\ ~over /\ rest # <<>> /\ LineLength(rest) <= Cap
    /\ Tell(Text(SubSeq(rest, 1, LineLength(rest))))
    /\ rest' = SubSeq(rest, LineLength(rest) + 1, Len(rest))

TooLong == /\ ~over /\ LineLength(rest) > Cap
           /\ Tell(Oversized) /\ UNCHANGED rest

End == /\ ~over /\ rest = <<>>
       /\ Tell(Eof) /\ UNCHANGED rest

Next == NextLine \/ TooLong \/ End
===============================================================================
