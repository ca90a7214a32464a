--------------------------- MODULE FrameReaderProofs ---------------------------
(***************************************************************************)
(* FrameReader implements LineStream, for every cap, every stream and      *)
(* every way of cutting it.                                                *)
(***************************************************************************)
EXTENDS FrameReader, SequenceTheorems, WellFoundedInduction, TLAPS

Bytes == {"x", "nl", "cr", "bad"}

-------------------------------------------------------------------------------
(* The first line of a sequence of bytes                                   *)

\* A set of positions that is not empty has a first one.
LEMMA FirstPosition ==
    ASSUME NEW T, T \subseteq Nat, T # {} PROVE \E i \in T : \A j \in T : i <= j
<1>1. PICK i \in T : \A j \in T : ~(<<j, i>> \in OpToRel(<, Nat))
  BY WFMin, NatLessThanWellFounded
<1>2. \A j \in Nat : <<j, i>> \in OpToRel(<, Nat) <=> j < i
  BY DEF OpToRel
<1>3. \A j \in T : i <= j
  <2>1. TAKE j \in T
  <2>2. i \in Nat /\ j \in Nat
    OBVIOUS
  <2>3. ~(j < i)
    BY <1>1, <1>2, <2>2
  <2>4. QED
    BY <2>2, <2>3
<1>4. QED
  BY <1>3

\* A line ends at the first newline, or with the bytes there are.
LEMMA FirstLine ==
    ASSUME NEW s \in Seq(Bytes), s # <<>>
    PROVE  /\ Lines!LineLength(s) \in 1..Len(s)
           /\ \A j \in 1..(Lines!LineLength(s) - 1) : s[j] # "nl"
           /\ Lines!Newlines(s) # {} => s[Lines!LineLength(s)] = "nl"
           /\ Lines!Newlines(s) = {} => Lines!LineLength(s) = Len(s)
<1>1. Len(s) \in Nat /\ Len(s) > 0 /\ DOMAIN s = 1..Len(s)
  OBVIOUS
<1>2. CASE Lines!Newlines(s) = {}
  BY <1>1, <1>2 DEF Lines!LineLength, Lines!Newlines
<1>3. CASE Lines!Newlines(s) # {}
  <2>1. Lines!Newlines(s) \subseteq 1..Len(s)
    BY <1>1 DEF Lines!Newlines
  <2>2. \E i \in Lines!Newlines(s) : \A j \in Lines!Newlines(s) : i <= j
    BY <1>3, <2>1, FirstPosition
  <2>3. /\ Lines!LineLength(s) \in Lines!Newlines(s)
        /\ \A j \in Lines!Newlines(s) : Lines!LineLength(s) <= j
    BY <1>3, <2>2 DEF Lines!LineLength
  <2>4. QED
    BY <1>1, <1>3, <2>1, <2>3 DEF Lines!Newlines
<1>4. QED
  BY <1>2, <1>3

\* A newline with none before it ends the line.
LEMMA LineEnds ==
    ASSUME NEW s \in Seq(Bytes), NEW n \in 1..Len(s), s[n] = "nl",
           \A j \in 1..(n - 1) : s[j] # "nl"
    PROVE  Lines!LineLength(s) = n
<1>1. s # <<>> /\ n \in Lines!Newlines(s)
  BY DEF Lines!Newlines
<1>2. /\ Lines!LineLength(s) \in 1..Len(s) /\ s[Lines!LineLength(s)] = "nl"
      /\ \A j \in 1..(Lines!LineLength(s) - 1) : s[j] # "nl"
  BY <1>1, FirstLine
<1>3. QED
  BY <1>2

\* Where the bytes of three pieces come to stand.
LEMMA Pieces ==
    ASSUME NEW a \in Seq(Bytes), NEW b \in Seq(Bytes), NEW c \in Seq(Bytes)
    PROVE  /\ a \o b \o c \in Seq(Bytes)
           /\ Len(a \o b \o c) = Len(a) + Len(b) + Len(c)
           /\ \A i \in 1..Len(a) : (a \o b \o c)[i] = a[i]
           /\ \A i \in 1..Len(b) : (a \o b \o c)[Len(a) + i] = b[i]
           /\ \A i \in 1..Len(c) : (a \o b \o c)[Len(a) + Len(b) + i] = c[i]
<1>1. /\ a \o b \in Seq(Bytes) /\ Len(a \o b) = Len(a) + Len(b)
      /\ \A i \in 1..Len(a) : (a \o b)[i] = a[i]
      /\ \A i \in 1..Len(b) : (a \o b)[Len(a) + i] = b[i]
  BY ConcatProperties
<1>2. /\ (a \o b) \o c \in Seq(Bytes) /\ Len((a \o b) \o c) = Len(a \o b) + Len(c)
      /\ \A i \in 1..Len(a \o b) : ((a \o b) \o c)[i] = (a \o b)[i]
      /\ \A i \in 1..Len(c) : ((a \o b) \o c)[Len(a \o b) + i] = c[i]
  BY <1>1, ConcatProperties
<1>3. Len(a) \in Nat /\ Len(b) \in Nat /\ Len(c) \in Nat
  OBVIOUS
<1>4. QED
  BY <1>1, <1>2, <1>3

\* Concatenation of bytes is associative.
LEMMA Assoc == \A a, b, c \in Seq(Bytes) : (a \o b) \o c = a \o (b \o c)
BY ConcatAssociative

\* A piece with a newline, after bytes that have none, ends their line.
LEMMA LineAcrossPieces ==
    ASSUME NEW a \in Seq(Bytes), NEW b \in Seq(Bytes), NEW c \in Seq(Bytes),
           Lines!Newlines(a) = {}, Lines!Newlines(b) # {}
    PROVE  /\ Lines!LineLength(a \o b \o c) = Len(a) + Lines!LineLength(b)
           /\ SubSeq(a \o b \o c, 1, Len(a) + Lines!LineLength(b))
                 = a \o SubSeq(b, 1, Lines!LineLength(b))
           /\ SubSeq(a \o b \o c, Len(a) + Lines!LineLength(b) + 1, Len(a \o b \o c))
                 = SubSeq(b, Lines!LineLength(b) + 1, Len(b)) \o c
<1> DEFINE s == a \o b \o c
           n == Lines!LineLength(b)
<1>1. b # <<>> /\ n \in 1..Len(b) /\ b[n] = "nl" /\ \A j \in 1..(n - 1) : b[j] # "nl"
  BY FirstLine DEF Lines!Newlines
<1>2. /\ s \in Seq(Bytes) /\ Len(s) = Len(a) + Len(b) + Len(c)
      /\ \A i \in 1..Len(a) : s[i] = a[i]
      /\ \A i \in 1..Len(b) : s[Len(a) + i] = b[i]
      /\ \A i \in 1..Len(c) : s[Len(a) + Len(b) + i] = c[i]
  BY Pieces
<1>3. \A i \in 1..Len(a) : a[i] # "nl"
  BY DEF Lines!Newlines
<1>4. Len(a) \in Nat /\ Len(b) \in Nat /\ Len(c) \in Nat
  OBVIOUS
<1> HIDE DEF s, n
<1>5. Lines!LineLength(s) = Len(a) + n
  <2> DEFINE k == Len(a) + n
  <2>1. k \in 1..Len(s) /\ s[k] = "nl"
    BY <1>1, <1>2, <1>4
  <2>2. ASSUME NEW j \in 1..(k - 1) PROVE s[j] # "nl"
    <3>1. CASE j <= Len(a)
      BY <1>2, <1>3, <3>1
    <3>2. CASE j > Len(a)
      <4>1. j - Len(a) \in 1..(n - 1) /\ j - Len(a) \in 1..Len(b) /\ j = Len(a) + (j - Len(a))
        BY <1>1, <1>4, <3>2
      <4>2. QED
        BY <1>1, <1>2, <4>1
    <3>3. QED
      BY <1>4, <3>1, <3>2
  <2> HIDE DEF k
  <2>3. Lines!LineLength(s) = k
    BY <1>2, <2>1, <2>2, LineEnds
  <2>4. QED
    BY <2>3 DEF k
<1>6. SubSeq(s, 1, Len(a) + n) = a \o SubSeq(b, 1, n)
  <2> DEFINE t == SubSeq(b, 1, n)
             u == SubSeq(s, 1, Len(a) + n)
             v == a \o t
  <2>1. t \in Seq(Bytes) /\ Len(t) = n /\ \A i \in 1..n : t[i] = b[i]
    BY <1>1, <1>4, SubSeqProperties
  <2>2. /\ v \in Seq(Bytes) /\ Len(v) = Len(a) + n
        /\ \A i \in 1..(Len(a) + n) : v[i] = IF i <= Len(a) THEN a[i] ELSE t[i - Len(a)]
    BY <2>1, ConcatProperties
  <2>3. /\ u \in Seq(Bytes) /\ Len(u) = Len(a) + n
        /\ \A i \in 1..(Len(a) + n) : u[i] = s[i]
    BY <1>1, <1>2, <1>4, SubSeqProperties
  <2> HIDE DEF t, u, v
  <2>4. ASSUME NEW i \in 1..(Len(a) + n) PROVE u[i] = v[i]
    <3>1. CASE i <= Len(a)
      <4>1. i \in 1..Len(a)
        BY <1>4, <3>1
      <4>2. QED
        BY <1>2, <2>2, <2>3, <3>1, <4>1
    <3>2. CASE i > Len(a)
      <4>1. i - Len(a) \in 1..n /\ i - Len(a) \in 1..Len(b) /\ i = Len(a) + (i - Len(a))
        BY <1>1, <1>4, <3>2
      <4>2. s[i] = b[i - Len(a)]
        BY <1>2, <4>1
      <4>3. v[i] = t[i - Len(a)]
        BY <1>4, <2>2, <3>2
      <4>4. QED
        BY <2>1, <2>3, <4>1, <4>2, <4>3
    <3>3. QED
      BY <1>1, <1>4, <3>1, <3>2
  <2>5. QED
    BY <2>2, <2>3, <2>4, SeqEqual DEF t, u, v
<1>7. SubSeq(s, Len(a) + n + 1, Len(s)) = SubSeq(b, n + 1, Len(b)) \o c
  <2> DEFINE m == Len(b) - n
             t == SubSeq(b, n + 1, Len(b))
             u == SubSeq(s, Len(a) + n + 1, Len(s))
             v == t \o c
  <2>1. m \in Nat /\ n \in Nat
    BY <1>1, <1>4
  <2>2. t \in Seq(Bytes) /\ Len(t) = m /\ \A i \in 1..m : t[i] = b[n + i]
    <3>1. \A i \in (n + 1)..Len(b) : b[i] \in Bytes
      BY <1>1, <1>4
    <3>2. /\ t \in Seq(Bytes)
          /\ Len(t) = IF n + 1 <= Len(b) THEN Len(b) - (n + 1) + 1 ELSE 0
          /\ \A i \in 1..(Len(b) - (n + 1) + 1) : t[i] = b[(n + 1) + i - 1]
      BY <1>4, <2>1, <3>1, SubSeqProperties
    <3> HIDE DEF t
    <3>3. QED
      BY <1>1, <1>4, <2>1, <3>2
  <2>3. /\ u \in Seq(Bytes) /\ Len(u) = m + Len(c)
        /\ \A i \in 1..(m + Len(c)) : u[i] = s[Len(a) + n + i]
    <3>1. \A i \in (Len(a) + n + 1)..Len(s) : s[i] \in Bytes
      BY <1>1, <1>2, <1>4
    <3>2. /\ u \in Seq(Bytes)
          /\ Len(u) = IF Len(a) + n + 1 <= Len(s) THEN Len(s) - (Len(a) + n + 1) + 1 ELSE 0
          /\ \A i \in 1..(Len(s) - (Len(a) + n + 1) + 1) : u[i] = s[(Len(a) + n + 1) + i - 1]
      BY <1>2, <1>4, <2>1, <3>1, SubSeqProperties
    <3>3. Len(s) - (Len(a) + n + 1) + 1 = m + Len(c) /\ m + Len(c) \in Nat
      BY <1>2, <1>4, <2>1
    <3>4. \A i \in 1..(m + Len(c)) : (Len(a) + n + 1) + i - 1 = Len(a) + n + i
      BY <1>4, <2>1
    <3>5. Len(u) = m + Len(c)
      BY <1>2, <1>4, <2>1, <3>2, <3>3
    <3> HIDE DEF u, m
    <3>6. \A i \in 1..(m + Len(c)) : u[i] = s[Len(a) + n + i]
      BY <3>2, <3>3, <3>4
    <3>7. QED
      BY <3>2, <3>5, <3>6
  <2>4. /\ v \in Seq(Bytes) /\ Len(v) = m + Len(c)
        /\ \A i \in 1..(m + Len(c)) : v[i] = IF i <= m THEN t[i] ELSE c[i - m]
    BY <2>2, ConcatProperties
  <2> HIDE DEF t, u, v
  <2>5. ASSUME NEW i \in 1..(m + Len(c)) PROVE u[i] = v[i]
    <3>1. CASE i <= m
      <4>1. n + i \in 1..Len(b) /\ Len(a) + n + i = Len(a) + (n + i)
        BY <1>1, <1>4, <3>1
      <4>2. s[Len(a) + (n + i)] = b[n + i]
        BY <1>2, <4>1
      <4>3. i \in 1..m /\ v[i] = t[i] /\ u[i] = s[Len(a) + (n + i)]
        BY <1>4, <2>1, <2>3, <2>4, <3>1, <4>1
      <4>4. QED
        BY <2>2, <4>2, <4>3
    <3>2. CASE i > m
      <4>1. i - m \in 1..Len(c) /\ Len(a) + n + i = Len(a) + Len(b) + (i - m)
        BY <1>1, <1>4, <2>1, <3>2
      <4>2. s[Len(a) + Len(b) + (i - m)] = c[i - m]
        BY <1>2, <4>1
      <4>3. v[i] = c[i - m] /\ u[i] = s[Len(a) + Len(b) + (i - m)]
        BY <1>4, <2>1, <2>3, <2>4, <3>2, <4>1
      <4>4. QED
        BY <4>2, <4>3
    <3>3. QED
      BY <1>4, <2>1, <3>1, <3>2
  <2>6. QED
    BY <2>3, <2>4, <2>5, SeqEqual DEF t, u, v
<1>8. QED
  BY <1>5, <1>6, <1>7 DEF s, n

\* Bytes without a newline all belong to the first line of what they begin.
LEMMA LineNotBefore ==
    ASSUME NEW a \in Seq(Bytes), NEW b \in Seq(Bytes), NEW c \in Seq(Bytes),
           Lines!Newlines(a) = {}, Lines!Newlines(b) = {}, b # <<>>
    PROVE  Lines!LineLength(a \o b \o c) >= Len(a) + Len(b)
<1> DEFINE s == a \o b \o c
           k == Lines!LineLength(s)
<1>1. /\ Len(a) \in Nat /\ Len(b) \in Nat /\ Len(c) \in Nat /\ Len(b) > 0
      /\ DOMAIN a = 1..Len(a) /\ DOMAIN b = 1..Len(b)
  OBVIOUS
<1>2. /\ s \in Seq(Bytes) /\ Len(s) = Len(a) + Len(b) + Len(c)
      /\ \A i \in 1..Len(a) : s[i] = a[i]
      /\ \A i \in 1..Len(b) : s[Len(a) + i] = b[i]
  BY Pieces
<1>3. /\ \A i \in 1..Len(a) : a[i] # "nl"
      /\ \A i \in 1..Len(b) : b[i] # "nl"
  BY <1>1 DEF Lines!Newlines
<1> HIDE DEF s
<1>4. /\ k \in 1..Len(s)
      /\ Lines!Newlines(s) # {} => s[k] = "nl"
      /\ Lines!Newlines(s) = {} => k = Len(s)
  <2>1. s # <<>>
    BY <1>1, <1>2, EmptySeq
  <2>2. QED
    BY <1>2, <2>1, FirstLine
<1> HIDE DEF k
<1>5. SUFFICES ASSUME k < Len(a) + Len(b) PROVE FALSE
  BY <1>1, <1>2, <1>4 DEF s, k
<1>6. s[k] = "nl"
  BY <1>1, <1>2, <1>4, <1>5
<1>7. CASE k <= Len(a)
  BY <1>1, <1>2, <1>3, <1>4, <1>6, <1>7
<1>8. CASE k > Len(a)
  <2>1. k - Len(a) \in 1..Len(b) /\ k = Len(a) + (k - Len(a))
    BY <1>1, <1>2, <1>4, <1>5, <1>8
  <2>2. QED
    BY <1>2, <1>3, <1>6, <2>1
<1>9. QED
  BY <1>1, <1>2, <1>4, <1>7, <1>8

-------------------------------------------------------------------------------
(* The text of a line                                                      *)

\* Chop takes at most the last byte away.
LEMMA Chopped ==
    ASSUME NEW s \in Seq(Bytes), NEW byte
    PROVE  /\ Lines!Chop(s, byte) \in Seq(Bytes)
           /\ Len(Lines!Chop(s, byte)) <= Len(s)
           /\ \A i \in 1..Len(Lines!Chop(s, byte)) : Lines!Chop(s, byte)[i] = s[i]
           /\ Len(Lines!Chop(s, byte)) = Len(s) /\ s # <<>> => s[Len(s)] # byte
<1>1. Len(s) \in Nat /\ (s # <<>> => Len(s) > 0)
  BY EmptySeq
<1>2. CASE s # <<>> /\ s[Len(s)] = byte
  <2>1. \A i \in 1..(Len(s) - 1) : s[i] \in Bytes
    BY <1>1
  <2>2. /\ SubSeq(s, 1, Len(s) - 1) \in Seq(Bytes)
        /\ Len(SubSeq(s, 1, Len(s) - 1)) = IF 1 <= Len(s) - 1 THEN (Len(s) - 1) - 1 + 1 ELSE 0
        /\ \A i \in 1..((Len(s) - 1) - 1 + 1) : SubSeq(s, 1, Len(s) - 1)[i] = s[1 + i - 1]
    BY <1>1, <2>1, SubSeqProperties
  <2>3. Lines!Chop(s, byte) = SubSeq(s, 1, Len(s) - 1)
    BY <1>2 DEF Lines!Chop
  <2>4. QED
    BY <1>1, <1>2, <2>2, <2>3
<1>3. CASE ~(s # <<>> /\ s[Len(s)] = byte)
  <2>1. Lines!Chop(s, byte) = s
    BY <1>3 DEF Lines!Chop
  <2>2. QED
    BY <1>1, <1>3, <2>1
<1>4. QED
  BY <1>2, <1>3

\* A line, whose only newline is its last byte, has a text without one.
LEMMA TextTyped ==
    ASSUME NEW line \in Seq(Bytes), \A i \in 1..(Len(line) - 1) : line[i] # "nl"
    PROVE  /\ Lines!Text(line).kind \in {"line", "error"}
           /\ Lines!Text(line) \in [kind : {"line", "error", "oversized", "eof"},
                                    text : Seq({"x", "cr"})]
<1> DEFINE bare == Lines!Chop(line, "nl")
           text == Lines!Chop(bare, "cr")
<1>1. /\ bare \in Seq(Bytes) /\ Len(bare) <= Len(line) /\ Len(bare) \in Nat
      /\ \A i \in 1..Len(bare) : bare[i] = line[i]
      /\ Len(bare) = Len(line) /\ line # <<>> => line[Len(line)] # "nl"
  BY Chopped
<1>2. Len(line) \in Nat /\ (Len(line) > 0 => line # <<>>)
  BY EmptySeq
<1> HIDE DEF bare
<1>3. \A i \in 1..Len(bare) : bare[i] # "nl"
  BY <1>1, <1>2
<1>4. /\ text \in Seq(Bytes) /\ Len(text) <= Len(bare)
      /\ \A i \in 1..Len(text) : text[i] = bare[i]
  BY <1>1, Chopped
<1> HIDE DEF text
<1>5. \A i \in 1..Len(text) : text[i] \in Bytes /\ text[i] # "nl"
  BY <1>1, <1>3, <1>4
<1>6. Lines!Text(line) = IF \E i \in DOMAIN text : text[i] = "bad"
                        THEN [kind |-> "error", text |-> <<>>]
                        ELSE [kind |-> "line", text |-> text]
  BY DEF Lines!Text, text, bare
<1>7. ASSUME ~ \E i \in DOMAIN text : text[i] = "bad" PROVE text \in Seq({"x", "cr"})
  <2>1. DOMAIN text = 1..Len(text) /\ Len(text) \in Nat
    BY <1>4
  <2>2. \A i \in 1..Len(text) : text[i] \in {"x", "cr"}
    BY <1>5, <1>7, <2>1 DEF Bytes
  <2>3. SubSeq(text, 1, Len(text)) \in Seq({"x", "cr"})
    BY <2>1, <2>2, SubSeqProperties
  <2>4. QED
    BY <1>4, <2>3, SubSeqFull
<1>8. <<>> \in Seq({"x", "cr"})
  BY EmptySeq
<1>9. QED
  BY <1>6, <1>7, <1>8

-------------------------------------------------------------------------------
(* The inductive invariant                                                 *)

\* A read is in progress only in a session that goes on.
Live == reading => ~over

Inv == TypeOK /\ Bounded /\ Live

\* A piece of what was read, with its newline if it has one, and what is left of it.
LEMMA Piece ==
    ASSUME NEW s \in Seq(Bytes), s # <<>>
    PROVE  LET n == Lines!LineLength(s)
               piece == SubSeq(s, 1, n)
           IN  /\ n \in 1..Len(s) /\ piece \in Seq(Bytes) /\ Len(piece) = n
               /\ SubSeq(s, n + 1, Len(s)) \in Seq(Bytes)
               /\ piece \o SubSeq(s, n + 1, Len(s)) = s
               /\ \A i \in 1..(n - 1) : piece[i] # "nl"
               /\ Lines!Newlines(s) = {} => /\ Lines!Newlines(piece) = {}
                                            /\ n = Len(s)
<1> DEFINE n == Lines!LineLength(s)
           piece == SubSeq(s, 1, n)
           left == SubSeq(s, n + 1, Len(s))
<1>1. /\ n \in 1..Len(s) /\ Len(s) \in Nat
      /\ \A j \in 1..(n - 1) : s[j] # "nl"
      /\ Lines!Newlines(s) = {} => n = Len(s)
  BY FirstLine
<1> HIDE DEF n
<1>2. piece \in Seq(Bytes) /\ Len(piece) = n /\ \A i \in 1..n : piece[i] = s[i]
  <2>1. \A i \in 1..n : s[i] \in Bytes
    BY <1>1
  <2>2. /\ piece \in Seq(Bytes)
        /\ Len(piece) = IF 1 <= n THEN n - 1 + 1 ELSE 0
        /\ \A i \in 1..(n - 1 + 1) : piece[i] = s[1 + i - 1]
    BY <1>1, <2>1, SubSeqProperties
  <2> HIDE DEF piece
  <2>3. QED
    BY <1>1, <2>2
<1>3. left \in Seq(Bytes)
  <2>1. \A i \in (n + 1)..Len(s) : s[i] \in Bytes
    BY <1>1
  <2>2. QED
    BY <1>1, <2>1, SubSeqProperties
<1>4. piece \o left = s
  <2>1. SubSeq(s, 1, n) \o SubSeq(s, n + 1, Len(s)) = SubSeq(s, 1, Len(s))
    BY <1>1, ConcatAdjacentSubSeq
  <2>2. QED
    BY <2>1, SubSeqFull
<1> HIDE DEF piece, left
<1>5. Lines!Newlines(s) = {} => Lines!Newlines(piece) = {}
  <2>1. DOMAIN piece = 1..n
    BY <1>1, <1>2
  <2>2. QED
    BY <1>1, <1>2, <2>1 DEF Lines!Newlines
<1>6. \A i \in 1..(n - 1) : piece[i] # "nl"
  BY <1>1, <1>2
<1>7. QED
  BY <1>1, <1>2, <1>3, <1>4, <1>5, <1>6 DEF n, piece, left

\* What a read takes from the pipe and what it leaves there.
LEMMA Cut ==
    ASSUME NEW s \in Seq(Bytes), NEW n \in 1..Len(s)
    PROVE  /\ SubSeq(s, 1, n) \in Seq(Bytes)
           /\ SubSeq(s, n + 1, Len(s)) \in Seq(Bytes)
           /\ SubSeq(s, 1, n) \o SubSeq(s, n + 1, Len(s)) = s
<1>1. Len(s) \in Nat /\ n \in Nat
  OBVIOUS
<1>2. \A i \in 1..n : s[i] \in Bytes
  BY <1>1
<1>3. \A i \in (n + 1)..Len(s) : s[i] \in Bytes
  BY <1>1
<1>4. SubSeq(s, 1, n) \in Seq(Bytes) /\ SubSeq(s, n + 1, Len(s)) \in Seq(Bytes)
  BY <1>1, <1>2, <1>3, SubSeqProperties
<1>5. SubSeq(s, 1, n) \o SubSeq(s, n + 1, Len(s)) = SubSeq(s, 1, Len(s))
  BY <1>1, ConcatAdjacentSubSeq
<1>6. QED
  BY <1>4, <1>5, SubSeqFull

\* A buffer without a newline and a piece that has one at most at its end.
LEMMA Extended ==
    ASSUME NEW a \in Seq(Bytes), NEW p \in Seq(Bytes), Lines!Newlines(a) = {}
    PROVE  /\ a \o p \in Seq(Bytes) /\ Len(a \o p) = Len(a) + Len(p)
           /\ Lines!Newlines(p) = {} => Lines!Newlines(a \o p) = {}
           /\ (\A i \in 1..(Len(p) - 1) : p[i] # "nl")
                => \A i \in 1..(Len(a \o p) - 1) : (a \o p)[i] # "nl"
<1> DEFINE v == a \o p
<1>1. /\ v \in Seq(Bytes) /\ Len(v) = Len(a) + Len(p)
      /\ \A i \in 1..(Len(a) + Len(p)) :
            v[i] = IF i <= Len(a) THEN a[i] ELSE p[i - Len(a)]
  BY ConcatProperties
<1>2. /\ Len(a) \in Nat /\ Len(p) \in Nat
      /\ DOMAIN a = 1..Len(a) /\ DOMAIN p = 1..Len(p)
  OBVIOUS
<1> HIDE DEF v
<1>3. \A i \in 1..Len(a) : a[i] # "nl"
  BY <1>2 DEF Lines!Newlines
<1>4. ASSUME Lines!Newlines(p) = {} PROVE Lines!Newlines(v) = {}
  <2>1. \A i \in 1..Len(p) : p[i] # "nl"
    BY <1>2, <1>4 DEF Lines!Newlines
  <2>2. ASSUME NEW i \in 1..(Len(a) + Len(p)) PROVE v[i] # "nl"
    BY <1>1, <1>2, <1>3, <2>1
  <2>3. DOMAIN v = 1..(Len(a) + Len(p))
    BY <1>1
  <2>4. QED
    BY <2>2, <2>3 DEF Lines!Newlines
<1>5. ASSUME \A i \in 1..(Len(p) - 1) : p[i] # "nl", NEW i \in 1..(Len(v) - 1)
      PROVE  v[i] # "nl"
  <2>1. i \in 1..(Len(a) + Len(p)) /\ i \in Nat
    BY <1>1, <1>2
  <2>2. CASE i <= Len(a)
    BY <1>1, <1>2, <1>3, <2>1, <2>2
  <2>3. CASE i > Len(a)
    <3>1. i - Len(a) \in 1..(Len(p) - 1)
      BY <1>1, <1>2, <2>1, <2>3
    <3>2. QED
      BY <1>1, <1>2, <1>5, <2>1, <2>3, <3>1
  <2>4. QED
    BY <1>2, <2>1, <2>2, <2>3
<1>6. QED
  BY <1>1, <1>4, <1>5 DEF v

\* One frame more, of a kind the reader returns.
LEMMA Telling ==
    ASSUME TypeOK, NEW frame, Return(frame),
           frame \in [kind : {"line", "error", "oversized", "eof"}, text : Seq({"x", "cr"})]
    PROVE  /\ reading' = FALSE /\ over' \in BOOLEAN
           /\ told' \in Seq([kind : {"line", "error", "oversized", "eof"},
                             text : Seq({"x", "cr"})])
<1> DEFINE F == [kind : {"line", "error", "oversized", "eof"}, text : Seq({"x", "cr"})]
<1>1. told \in Seq(F) /\ frame \in F
  BY DEF TypeOK
<1> HIDE DEF F
<1>2. told' = Append(told, frame) /\ over' = (frame.kind # "line") /\ reading' = FALSE
  BY DEF Return, Lines!Tell
<1>3. told' \in Seq(F)
  BY <1>1, <1>2
<1>4. QED
  BY <1>2, <1>3 DEF F

\* The invariant holds of every step.
LEMMA InvNext == Inv /\ [Next]_vars => Inv'
<1> SUFFICES ASSUME Inv, [Next]_vars PROVE Inv'
  OBVIOUS
<1> DEFINE Frame == [kind : {"line", "error", "oversized", "eof"}, text : Seq({"x", "cr"})]
<1>1. /\ pipe \in Seq(Bytes) /\ available \in Seq(Bytes) /\ buf \in Seq(Bytes)
      /\ Len(buf) <= Cap /\ Lines!Newlines(buf) = {}
      /\ reading \in BOOLEAN /\ over \in BOOLEAN /\ (reading => ~over)
      /\ told \in Seq(Frame)
  BY DEF Inv, TypeOK, Bounded, Live, Bytes
<1>2. Lines!Oversized \in Frame /\ Lines!Eof \in Frame /\ <<>> \in Seq(Bytes)
  BY EmptySeq DEF Lines!Oversized, Lines!Eof
<1>3. Len(<<>>) = 0 /\ Lines!Newlines(<<>>) = {} /\ 0 <= Cap
  BY CapAssumption, EmptySeq DEF Lines!Newlines
<1>4. SUFFICES /\ pipe' \in Seq(Bytes) /\ available' \in Seq(Bytes) /\ buf' \in Seq(Bytes)
               /\ Len(buf') <= Cap /\ Lines!Newlines(buf') = {}
               /\ reading' \in BOOLEAN /\ over' \in BOOLEAN /\ (reading' => ~over')
               /\ told' \in Seq(Frame)
  BY DEF Inv, TypeOK, Bounded, Live, Bytes, Lines!Newlines
<1>5. CASE Call
  BY <1>1, <1>5 DEF Call
<1>6. CASE Dropped
  BY <1>1, <1>6 DEF Dropped
<1>7. CASE FillBuf
  <2>1. PICK n \in 1..Len(pipe) : /\ available' = SubSeq(pipe, 1, n)
                                  /\ pipe' = SubSeq(pipe, n + 1, Len(pipe))
    BY <1>7 DEF FillBuf
  <2>2. pipe' \in Seq(Bytes) /\ available' \in Seq(Bytes)
    BY <1>1, <2>1, Cut
  <2>3. QED
    BY <1>1, <1>7, <2>2 DEF FillBuf
<1>8. CASE EndOfInput
  <2>1. Lines!Text(buf) \in Frame
    <3>1. \A i \in 1..(Len(buf) - 1) : buf[i] # "nl"
      BY <1>1 DEF Lines!Newlines
    <3>2. QED
      BY <1>1, <3>1, TextTyped
  <2>2. \E frame \in Frame : Return(frame)
    BY <1>2, <1>8, <2>1 DEF EndOfInput
  <2>3. reading' = FALSE /\ over' \in BOOLEAN /\ told' \in Seq(Frame)
    BY <2>2, Telling DEF Inv
  <2>4. buf' = <<>> /\ pipe' = pipe /\ available' = available
    BY <1>8 DEF EndOfInput
  <2> HIDE DEF Frame
  <2>5. QED
    BY <1>1, <1>2, <1>3, <2>3, <2>4
<1>9. CASE TooLong
  <2>1. reading' = FALSE /\ over' \in BOOLEAN /\ told' \in Seq(Frame)
    BY <1>2, <1>9, Telling DEF Inv, TooLong
  <2>2. buf' = buf /\ pipe' = pipe /\ available' = available
    BY <1>9 DEF TooLong
  <2> HIDE DEF Frame
  <2>3. QED
    BY <1>1, <2>1, <2>2
<1>10. CASE Consume
  <2> DEFINE take  == Lines!LineLength(available)
             piece == SubSeq(available, 1, take)
  <2>1. /\ take \in 1..Len(available) /\ piece \in Seq(Bytes) /\ Len(piece) = take
        /\ SubSeq(available, take + 1, Len(available)) \in Seq(Bytes)
        /\ \A i \in 1..(take - 1) : piece[i] # "nl"
        /\ Lines!Newlines(available) = {} => Lines!Newlines(piece) = {}
    <3>1. available # <<>>
      BY <1>10 DEF Consume
    <3>2. QED
      BY <1>1, <3>1, Piece
  <2>2. /\ Len(buf) + take <= Cap /\ pipe' = pipe
        /\ available' = SubSeq(available, take + 1, Len(available))
        /\ Lines!Newlines(available) # {} => Return(Lines!Text(buf \o piece)) /\ buf' = <<>>
        /\ Lines!Newlines(available) = {} =>
              buf' = buf \o piece /\ UNCHANGED <<reading, told, over>>
    BY <1>10 DEF Consume
  <2> HIDE DEF take, piece
  <2>3. /\ buf \o piece \in Seq(Bytes) /\ Len(buf \o piece) = Len(buf) + take
        /\ Lines!Newlines(piece) = {} => Lines!Newlines(buf \o piece) = {}
        /\ \A i \in 1..(Len(buf \o piece) - 1) : (buf \o piece)[i] # "nl"
    BY <1>1, <2>1, Extended
  <2>4. CASE Lines!Newlines(available) # {}
    <3>1. Lines!Text(buf \o piece) \in Frame
      BY <2>3, TextTyped
    <3>2. reading' = FALSE /\ over' \in BOOLEAN /\ told' \in Seq(Frame)
      BY <2>2, <2>4, <3>1, Telling DEF Inv
    <3> HIDE DEF Frame
    <3>3. QED
      BY <1>1, <1>2, <1>3, <2>1, <2>2, <2>4, <3>2
  <2>5. CASE Lines!Newlines(available) = {}
    <3>1. /\ buf' = buf \o piece
          /\ reading' = reading /\ told' = told /\ over' = over
      BY <2>2, <2>5
    <3>2. buf' \in Seq(Bytes) /\ Len(buf') <= Cap /\ Lines!Newlines(buf') = {}
      BY <2>1, <2>2, <2>3, <2>5, <3>1
    <3> HIDE DEF Frame
    <3>3. QED
      BY <1>1, <2>1, <2>2, <3>1, <3>2
  <2>6. QED
    BY <2>4, <2>5
<1>11. CASE UNCHANGED vars
  BY <1>1, <1>11 DEF vars
<1>12. QED
  BY <1>5, <1>6, <1>7, <1>8, <1>9, <1>10, <1>11 DEF Next, Finished

\* It holds at the start, when nothing was read.
LEMMA InvInit == Init => Inv
<1> SUFFICES ASSUME Init PROVE Inv
  OBVIOUS
<1>1. pipe \in Seq(Bytes)
  BY StreamsAssumption DEF Init, Bytes
<1>2. Len(<<>>) = 0 /\ <<>> \in Seq(Bytes) /\ Lines!Newlines(<<>>) = {}
  BY EmptySeq DEF Lines!Newlines
<1>3. told \in Seq([kind : {"line", "error", "oversized", "eof"}, text : Seq({"x", "cr"})])
  BY EmptySeq DEF Init
<1>4. TypeOK
  BY <1>1, <1>2, <1>3 DEF Init, TypeOK, Bytes
<1>5. Len(buf) <= Cap /\ Lines!Newlines(buf) = {}
  BY <1>2, CapAssumption DEF Init
<1>6. reading = FALSE
  BY DEF Init
<1>7. QED
  BY <1>4, <1>5, <1>6 DEF Inv, Bounded, Live

LEMMA Invariance == Spec => []Inv
<1>1. QED
  BY InvInit, InvNext, PTL DEF Spec

\* What is kept and what is returned has the types declared, in every reachable state;
\* in particular no text that is returned holds a newline or a byte that is not UTF-8.
THEOREM TypeCorrect == Spec => []TypeOK
<1>1. Inv => TypeOK
  BY DEF Inv
<1>2. QED
  BY <1>1, Invariance, PTL

\* A worker that floods its output makes the daemon keep no more than the cap.
THEOREM BoundedAlways == Spec => []Bounded
<1>1. Inv => Bounded
  BY DEF Inv
<1>2. QED
  BY <1>1, Invariance, PTL

-------------------------------------------------------------------------------
(* The reader implements LineStream                                        *)

\* Every step tells the next frame of the stream, or changes nothing of it: a read that
\* is dropped, or that finds part of a line, leaves what is still to be told.
LEMMA StepImplements == Inv /\ [Next]_vars => [Lines!Next]_(Lines!vars)
<1> SUFFICES ASSUME Inv, [Next]_vars PROVE [Lines!Next]_(Lines!vars)
  OBVIOUS
<1> DEFINE rest == buf \o available \o pipe
<1>1. /\ pipe \in Seq(Bytes) /\ available \in Seq(Bytes) /\ buf \in Seq(Bytes)
      /\ Len(buf) <= Cap /\ Lines!Newlines(buf) = {} /\ (reading => ~over)
      /\ <<>> \in Seq(Bytes)
  BY EmptySeq DEF Inv, TypeOK, Bounded, Live, Bytes
<1>2. ASSUME rest' = rest, told' = told, over' = over PROVE [Lines!Next]_(Lines!vars)
  BY <1>2 DEF Lines!vars
<1>3. CASE Call
  BY <1>2, <1>3 DEF Call
<1>4. CASE Dropped
  BY <1>2, <1>4 DEF Dropped
<1>5. CASE FillBuf
  <2>1. PICK n \in 1..Len(pipe) : /\ available' = SubSeq(pipe, 1, n)
                                  /\ pipe' = SubSeq(pipe, n + 1, Len(pipe))
    BY <1>5 DEF FillBuf
  <2>2. available = <<>> /\ buf' = buf /\ told' = told /\ over' = over
    BY <1>5 DEF FillBuf
  <2>3. pipe' \in Seq(Bytes) /\ available' \in Seq(Bytes) /\ available' \o pipe' = pipe
    BY <1>1, <2>1, Cut
  <2>4. rest' = buf \o (available' \o pipe')
    <3>1. rest' = (buf \o available') \o pipe'
      BY <2>2
    <3>2. (buf \o available') \o pipe' = buf \o (available' \o pipe')
      BY <1>1, <2>3, Assoc
    <3>3. QED
      BY <3>1, <3>2
  <2>5. rest = buf \o pipe
    BY <1>1, <2>2, ConcatEmptySeq
  <2>6. QED
    BY <1>2, <2>2, <2>3, <2>4, <2>5
<1>6. CASE EndOfInput
  <2>1. /\ ~over /\ available = <<>> /\ pipe = <<>> /\ buf' = <<>>
        /\ available' = <<>> /\ pipe' = <<>>
    BY <1>1, <1>6 DEF EndOfInput
  <2>2. rest = buf /\ rest' = <<>>
    BY <1>1, <2>1, ConcatEmptySeq
  <2>3. CASE buf = <<>>
    BY <1>6, <2>1, <2>2, <2>3 DEF EndOfInput, Return, Lines!Next, Lines!End
  <2>4. CASE buf # <<>>
    <3>1. Lines!LineLength(buf) = Len(buf) /\ Len(buf) \in Nat
      BY <1>1, <2>4, FirstLine
    <3>2. SubSeq(buf, 1, Len(buf)) = buf /\ SubSeq(buf, Len(buf) + 1, Len(buf)) = <<>>
      BY <1>1, <3>1, SubSeqFull, SubSeqEmpty
    <3>3. Lines!Tell(Lines!Text(buf))
      BY <1>6, <2>4 DEF EndOfInput, Return
    <3>4. Lines!NextLine
      BY <1>1, <2>1, <2>2, <2>4, <3>1, <3>2, <3>3 DEF Lines!NextLine
    <3>5. QED
      BY <3>4 DEF Lines!Next
  <2>5. QED
    BY <2>3, <2>4
<1>7. CASE TooLong
  <2>1. /\ ~over /\ available # <<>> /\ Len(buf) + Lines!LineLength(available) > Cap
        /\ Lines!Tell(Lines!Oversized) /\ rest' = rest
    BY <1>1, <1>7 DEF TooLong, Return
  <2>2. Lines!LineLength(rest) >= Len(buf) + Lines!LineLength(available)
    <3>1. CASE Lines!Newlines(available) # {}
      <4>1. Lines!LineLength(rest) = Len(buf) + Lines!LineLength(available)
        BY <1>1, <3>1, LineAcrossPieces
      <4>2. Lines!LineLength(available) \in Nat /\ Len(buf) \in Nat
        BY <1>1, <2>1, FirstLine
      <4>3. QED
        BY <4>1, <4>2
    <3>2. CASE Lines!Newlines(available) = {}
      BY <1>1, <2>1, <3>2, FirstLine, LineNotBefore
    <3>3. QED
      BY <3>1, <3>2
  <2>3. Lines!LineLength(rest) > Cap
    <3>1. Lines!LineLength(available) \in Nat /\ Len(buf) \in Nat
      BY <1>1, <2>1, FirstLine
    <3>2. rest \in Seq(Bytes) /\ rest # <<>>
      BY <1>1, <2>1, Pieces, ConcatProperties, ConcatEqualIffEmpty
    <3> HIDE DEF rest
    <3>3. Lines!LineLength(rest) \in Nat
      BY <3>2, FirstLine
    <3>4. QED
      BY <2>1, <2>2, <3>1, <3>3, CapAssumption
  <2>4. QED
    BY <2>1, <2>3 DEF Lines!Next, Lines!TooLong
<1>8. CASE Consume
  <2> DEFINE take  == Lines!LineLength(available)
             piece == SubSeq(available, 1, take)
             left  == SubSeq(available, take + 1, Len(available))
  <2>1. /\ ~over /\ available # <<>> /\ Len(buf) + take <= Cap /\ pipe' = pipe
        /\ available' = left
        /\ Lines!Newlines(available) # {} => Return(Lines!Text(buf \o piece)) /\ buf' = <<>>
        /\ Lines!Newlines(available) = {} =>
              buf' = buf \o piece /\ UNCHANGED <<reading, told, over>>
    BY <1>1, <1>8 DEF Consume
  <2>2. /\ piece \in Seq(Bytes) /\ left \in Seq(Bytes) /\ piece \o left = available
        /\ take \in 1..Len(available)
    BY <1>1, <2>1, Piece
  <2>3. CASE Lines!Newlines(available) # {}
    <3>1. /\ Lines!LineLength(rest) = Len(buf) + take
          /\ SubSeq(rest, 1, Len(buf) + take) = buf \o piece
          /\ SubSeq(rest, Len(buf) + take + 1, Len(rest)) = left \o pipe
      BY <1>1, <2>3, LineAcrossPieces
    <3>2. rest' = left \o pipe
      BY <1>1, <2>1, <2>2, <2>3, ConcatEmptySeq
    <3>3. Lines!Tell(Lines!Text(buf \o piece))
      BY <2>1, <2>3 DEF Return
    <3>4. rest # <<>>
      BY <1>1, <2>1, ConcatProperties, ConcatEqualIffEmpty
    <3> HIDE DEF take, piece, left
    <3>5. Lines!NextLine
      BY <2>1, <3>1, <3>2, <3>3, <3>4 DEF Lines!NextLine
    <3>6. QED
      BY <3>5 DEF Lines!Next
  <2>4. CASE Lines!Newlines(available) = {}
    <3>1. /\ buf' = buf \o piece
          /\ told' = told /\ over' = over
      BY <2>1, <2>4
    <3> HIDE DEF take, piece, left
    <3>2. rest' = ((buf \o piece) \o left) \o pipe
      BY <2>1, <3>1
    <3>3. (buf \o piece) \o left = buf \o (piece \o left)
      BY <1>1, <2>2, Assoc
    <3>4. rest' = buf \o available \o pipe
      BY <2>2, <3>2, <3>3
    <3>5. QED
      BY <1>2, <3>1, <3>4
  <2>5. QED
    BY <2>3, <2>4
<1>9. CASE UNCHANGED vars
  BY <1>2, <1>9 DEF vars
<1>10. QED
  BY <1>3, <1>4, <1>5, <1>6, <1>7, <1>8, <1>9 DEF Next, Finished

\* However the bytes are cut and however often a read is dropped, the frames are the
\* lines of the stream, for every stream and every cap: what the comment over
\* read_frame_buffered ("The caller retains consumed bytes") is there for.
THEOREM ReadsLinesAlways == Spec => ReadsLines
<1>1. QED
  BY Invariance, StepImplements, PTL DEF Spec, ReadsLines
===============================================================================
