---------------------------- MODULE MCFrameReader -----------------------------
(* Every stream of at most MaxLength bytes, in every cut.                  *)
EXTENDS FrameReader

CONSTANT MaxLength

ShortStreams == UNION {[1..n -> {"x", "nl", "cr", "bad"}] : n \in 0..MaxLength}
===============================================================================
