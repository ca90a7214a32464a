------------------------------ MODULE FrameReader ------------------------------
(***************************************************************************)
(* read_frame_buffered of src/src/worker.rs: one newline-terminated frame  *)
(* at a time, out of a pipe that delivers bytes in arbitrary pieces, under *)
(* a cap on its length, from inside a select! that may drop the read at    *)
(* its only await and start another later.                                 *)
(***************************************************************************)
EXTENDS Naturals, Sequences

CONSTANTS Cap,      \* max_response_bytes
          Streams   \* what the worker may write before it closes its output

ASSUME CapAssumption == Cap \in Nat
ASSUME StreamsAssumption == Streams \subseteq Seq({"x", "nl", "cr", "bad"})

VARIABLES pipe,     \* written by the worker, not read yet
          available,\* in the BufReader, not consumed
          buf,      \* frame_buffer, which outlives a read that is dropped
          reading,  \* a call is in progress
          told,     \* the frames the calls returned
          over      \* the session has ended: no further call

vars == <<pipe, available, buf, reading, told, over>>

Lines == INSTANCE LineStream WITH rest <- buf \o available \o pipe

TypeOK == /\ {pipe, available, buf} \subseteq Seq({"x", "nl", "cr", "bad"})
          /\ reading \in BOOLEAN /\ over \in BOOLEAN
          /\ told \in Seq([kind : {"line", "error", "oversized", "eof"},
                           text : Seq({"x", "cr"})])

Init == /\ pipe \in Streams
        /\ available = <<>> /\ buf = <<>> /\ reading = FALSE
        /\ told = <<>> /\ over = FALSE

\* The call returns, and any frame but a line ends the session.
Return(frame) == Lines!Tell(frame) /\ reading' = FALSE

Call == /\ ~over /\ ~reading
        /\ reading' = TRUE
        /\ UNCHANGED <<pipe, available, buf, told, over>>

\* Mutant of Dropped: the buffer is the read's own and goes with it.
DroppedWithBuffer == /\ reading /\ available = <<>>
                     /\ reading' = FALSE /\ buf' = <<>>
                     /\ UNCHANGED <<pipe, available, told, over>>

\* Another branch of the select! is taken while fill_buf waits.
Dropped == /\ reading /\ available = <<>>
           /\ reading' = FALSE
           /\ UNCHANGED <<pipe, available, buf, told, over>>

\* fill_buf reads what the pipe has, and is not called again before it is consumed.
FillBuf == /\ reading /\ available = <<>> /\ pipe # <<>>
           /\ \E n \in 1..Len(pipe) : /\ available' = SubSeq(pipe, 1, n)
                                      /\ pipe' = SubSeq(pipe, n + 1, Len(pipe))
           /\ UNCHANGED <<buf, reading, told, over>>

\* Mutant of EndOfInput: the rest of a line is waited for.
EndOfInputBetweenLines ==
    /\ reading /\ available = <<>> /\ pipe = <<>> /\ buf = <<>>
    /\ Return(Lines!Eof)
    /\ UNCHANGED <<pipe, available, buf>>

\* The end of the input ends an unterminated line.
EndOfInput ==
    /\ reading /\ available = <<>> /\ pipe = <<>>
    /\ IF buf = <<>> THEN Return(Lines!Eof) ELSE Return(Lines!Text(buf))
    /\ buf' = <<>>
    /\ UNCHANGED <<pipe, available>>

TooLong ==
    /\ reading /\ available # <<>> /\ Len(buf) + Lines!LineLength(available) > Cap
    /\ Return(Lines!Oversized)
    /\ UNCHANGED <<pipe, available, buf>>

\* Mutant of Consume: the cap is checked of what was kept, without the new piece.
ConsumeUnchecked ==
    /\ reading /\ available # <<>> /\ Len(buf) <= Cap
    /\ LET take  == Lines!LineLength(available)
           piece == SubSeq(available, 1, take)
       IN  /\ available' = SubSeq(available, take + 1, Len(available))
           /\ IF Lines!Newlines(available) # {}
              THEN Return(Lines!Text(buf \o piece)) /\ buf' = <<>>
              ELSE buf' = buf \o piece /\ UNCHANGED <<reading, told, over>>
    /\ UNCHANGED pipe

Consume ==
    /\ reading /\ available # <<>>
    /\ LET take  == Lines!LineLength(available)
           piece == SubSeq(available, 1, take)
       IN  /\ Len(buf) + take <= Cap
           /\ available' = SubSeq(available, take + 1, Len(available))
           /\ IF Lines!Newlines(available) # {}
              THEN Return(Lines!Text(buf \o piece)) /\ buf' = <<>>
              ELSE buf' = buf \o piece /\ UNCHANGED <<reading, told, over>>
    /\ UNCHANGED pipe

Finished == over /\ UNCHANGED vars

Next == Call \/ Dropped \/ FillBuf \/ EndOfInput \/ TooLong \/ Consume \/ Finished

Spec == Init /\ [][Next]_vars

\* Calls that are made again after being dropped and a worker that goes on writing
\* are served: the session polls the reader in every round of its loop.
FairSpec == Spec /\ WF_vars(Call) /\ SF_vars(FillBuf) /\ SF_vars(EndOfInput)
                 /\ WF_vars(TooLong) /\ WF_vars(Consume)

-------------------------------------------------------------------------------
\* "a worker that floods stdout is killed rather than OOM-ing the daemon"
\* (worker.rs:14): what is kept between reads stays under the cap and holds no
\* complete line.
Bounded == Len(buf) <= Cap /\ Lines!Newlines(buf) = {}

\* However the bytes are cut and however often a read is dropped, the frames are
\* the lines of the stream: none is lost, split, joined or told twice.
ReadsLines == [][Lines!Next]_(Lines!vars)

\* Every stream is read to its end, or to the frame that ends the session.
AllTold == <>over
===============================================================================
