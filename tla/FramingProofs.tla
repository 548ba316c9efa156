--------------------------- MODULE FramingProofs ---------------------------
(***************************************************************************)
(* For every limit, every set of fills and lines of every length: what     *)
(* comes of a line does not depend on the fills it arrives in, and no more *)
(* than the limit is kept of it.                                           *)
(***************************************************************************)
EXTENDS Framing, SequenceTheorems, TLAPS

-----------------------------------------------------------------------------
(* Prefixes. *)

(* Take is the longest prefix that is no longer than asked for. *)
LEMMA TakeFacts ==
  ASSUME NEW S, NEW s \in Seq(S), NEW n \in Nat
  PROVE  /\ Take(s, n) \in Seq(S)
         /\ Len(Take(s, n)) = Least(n, Len(s))
         /\ Len(Take(s, n)) \in Nat /\ Len(Take(s, n)) <= n
         /\ \A i \in 1 .. Least(n, Len(s)) : Take(s, n)[i] = s[i]
<1>1. Len(s) \in Nat /\ \A i \in 1 .. Len(s) : s[i] \in S
  BY LenProperties, ElementOfSeq
<1>2. Least(n, Len(s)) \in Nat /\ Least(n, Len(s)) <= n /\ Least(n, Len(s)) <= Len(s)
  BY <1>1 DEF Least
<1>3. \A i \in 1 .. Least(n, Len(s)) : s[i] \in S
  BY <1>1, <1>2
<1>4. /\ SubSeq(s, 1, Least(n, Len(s))) \in Seq(S)
      /\ Len(SubSeq(s, 1, Least(n, Len(s)))) =
           IF 1 <= Least(n, Len(s)) THEN Least(n, Len(s)) - 1 + 1 ELSE 0
      /\ \A i \in 1 .. Least(n, Len(s)) - 1 + 1 : SubSeq(s, 1, Least(n, Len(s)))[i] = s[1 + i - 1]
  <2>1. 1 \in Int /\ Least(n, Len(s)) \in Int
    BY <1>2
  <2> QED BY <1>3, <2>1, SubSeqProperties
<1> QED BY <1>2, <1>4 DEF Take

(* All of a sequence that is short enough. *)
LEMMA TakeAll ==
  ASSUME NEW S, NEW s \in Seq(S), NEW n \in Nat, Len(s) <= n
  PROVE  Take(s, n) = s
<1>1. Len(s) \in Nat
  BY LenProperties
<1>2. Least(n, Len(s)) = Len(s)
  BY <1>1 DEF Least
<1> QED BY <1>2, SubSeqFull DEF Take

LEMMA LeastInParts ==
  ASSUME NEW n \in Nat, NEW x \in Nat, NEW y \in Nat
  PROVE  /\ Least(n, x) + Least(n - Least(n, x), y) = Least(n, x + y)
         /\ Least(n - Least(n, x), y) > 0 => Least(n, x) = x
BY DEF Least

(* A prefix taken in two parts. *)
LEMMA TakeInParts ==
  ASSUME NEW S, NEW s \in Seq(S), NEW t \in Seq(S), NEW n \in Nat
  PROVE  Take(s, n) \o Take(t, n - Len(Take(s, n))) = Take(s \o t, n)
<1> DEFINE a == Take(s, n)
           b == Take(t, n - Len(Take(s, n)))
           u == s \o t
<1>1. /\ Len(s) \in Nat /\ Len(t) \in Nat
      /\ u \in Seq(S) /\ Len(u) = Len(s) + Len(t)
      /\ \A i \in 1 .. Len(s) + Len(t) : u[i] = IF i <= Len(s) THEN s[i] ELSE t[i - Len(s)]
  BY LenProperties, ConcatProperties
<1>2. /\ a \in Seq(S) /\ Len(a) = Least(n, Len(s)) /\ Len(a) \in Nat /\ Len(a) <= n
      /\ \A i \in 1 .. Len(a) : a[i] = s[i]
  BY TakeFacts
<1>3. n - Len(a) \in Nat
  BY <1>2
<1>4. /\ b \in Seq(S) /\ Len(b) = Least(n - Len(a), Len(t)) /\ Len(b) \in Nat
      /\ \A i \in 1 .. Len(b) : b[i] = t[i]
  BY <1>3, TakeFacts
<1>5. /\ Take(u, n) \in Seq(S) /\ Len(Take(u, n)) = Least(n, Len(u))
      /\ \A i \in 1 .. Least(n, Len(u)) : Take(u, n)[i] = u[i]
  BY <1>1, TakeFacts
<1>6. /\ a \o b \in Seq(S) /\ Len(a \o b) = Len(a) + Len(b)
      /\ \A i \in 1 .. Len(a) + Len(b) : (a \o b)[i] = IF i <= Len(a) THEN a[i] ELSE b[i - Len(a)]
  BY <1>2, <1>4, ConcatProperties
<1> HIDE DEF a, b, u
<1>7. Len(a) + Len(b) = Least(n, Len(u))
  BY <1>1, <1>2, <1>4, LeastInParts
<1>8. Len(b) > 0 => Len(a) = Len(s)
  BY <1>1, <1>2, <1>4, LeastInParts
<1>9. \A i \in 1 .. Len(a \o b) : (a \o b)[i] = Take(u, n)[i]
  <2> SUFFICES ASSUME NEW i \in 1 .. Len(a \o b)
               PROVE  (a \o b)[i] = Take(u, n)[i]
    OBVIOUS
  <2>1. i \in 1 .. Len(a) + Len(b) /\ i \in 1 .. Least(n, Len(u)) /\ i \in Nat /\ i >= 1
    BY <1>2, <1>4, <1>6, <1>7
  <2>2. CASE i <= Len(a)
    <3>1. (a \o b)[i] = s[i]
      BY <1>2, <1>6, <2>1, <2>2
    <3>2. i <= Len(s) /\ i \in 1 .. Len(s) + Len(t)
      BY <1>1, <1>2, <2>1, <2>2 DEF Least
    <3> QED BY <1>1, <1>5, <2>1, <3>1, <3>2
  <2>3. CASE i > Len(a)
    <3>1. i - Len(a) \in 1 .. Len(b)
      BY <1>2, <1>4, <2>1, <2>3
    <3>2. (a \o b)[i] = t[i - Len(a)]
      BY <1>2, <1>4, <1>6, <2>1, <2>3, <3>1
    <3>3. Len(a) = Len(s)
      BY <1>4, <1>8, <3>1
    <3>4. i \in 1 .. Len(s) + Len(t)
      BY <1>1, <1>4, <2>1, <3>1, <3>3, <1>7 DEF Least
    <3> QED BY <1>1, <1>5, <2>1, <2>3, <3>2, <3>3, <3>4
  <2> QED BY <1>2, <2>1, <2>2, <2>3
<1>10. a \o b = Take(u, n)
  BY <1>5, <1>6, <1>7, <1>9, SeqEqual
<1> QED BY <1>10 DEF a, b, u

-----------------------------------------------------------------------------
(* The end of a sequence. *)

LEMMA ButLastFacts ==
  ASSUME NEW S, NEW s \in Seq(S), s # <<>>
  PROVE  /\ ButLast(s) \in Seq(S) /\ Len(ButLast(s)) = Len(s) - 1
         /\ Len(s) \in Nat \ {0} /\ s[Len(s)] \in S
         /\ \A i \in 1 .. Len(s) - 1 : ButLast(s)[i] = s[i]
<1>1. Len(s) \in Nat \ {0} /\ \A i \in 1 .. Len(s) : s[i] \in S
  BY EmptySeq, ElementOfSeq
<1>2. \A i \in 1 .. Len(s) - 1 : s[i] \in S
  BY <1>1
<1>3. /\ SubSeq(s, 1, Len(s) - 1) \in Seq(S)
      /\ Len(SubSeq(s, 1, Len(s) - 1)) =
           IF 1 <= Len(s) - 1 THEN Len(s) - 1 - 1 + 1 ELSE 0
      /\ \A i \in 1 .. Len(s) - 1 - 1 + 1 : SubSeq(s, 1, Len(s) - 1)[i] = s[1 + i - 1]
  <2>1. 1 \in Int /\ Len(s) - 1 \in Int
    BY <1>1
  <2> QED BY <1>2, <2>1, SubSeqProperties
<1>4. Len(SubSeq(s, 1, Len(s) - 1)) = Len(s) - 1
  <2> DEFINE m == Len(s) - 1
             k == Len(SubSeq(s, 1, Len(s) - 1))
  <2>1. m \in Nat /\ k = IF 1 <= m THEN m - 1 + 1 ELSE 0
    BY <1>1, <1>3
  <2> HIDE DEF m, k
  <2>2. k = m
    BY <2>1
  <2> QED BY <2>2 DEF m, k
<1>5. ASSUME NEW i \in 1 .. Len(s) - 1
      PROVE  i \in 1 .. Len(s) - 1 - 1 + 1 /\ 1 + i - 1 = i
  BY <1>1
<1>6. \A i \in 1 .. Len(s) - 1 : SubSeq(s, 1, Len(s) - 1)[i] = s[i]
  <2> TAKE i \in 1 .. Len(s) - 1
  <2>1. SubSeq(s, 1, Len(s) - 1)[i] = s[1 + i - 1]
    BY <1>3, <1>5
  <2> QED BY <2>1, <1>5
<1>7. Len(s) \in 1 .. Len(s)
  BY <1>1
<1>8. SubSeq(s, 1, Len(s) - 1) \in Seq(S) /\ Len(SubSeq(s, 1, Len(s) - 1)) = Len(s) - 1
  BY <1>3, <1>4
<1> QED BY <1>1, <1>6, <1>7, <1>8 DEF ButLast

(* The end of a concatenation is that of its second part. *)
LEMMA EndOfConcat ==
  ASSUME NEW S, NEW s \in Seq(S), NEW t \in Seq(S), t # <<>>
  PROVE  /\ s \o t # <<>> /\ s \o t \in Seq(S)
         /\ \A x : EndsIn(x, s \o t) <=> EndsIn(x, t)
         /\ ButLast(s \o t) = s \o ButLast(t)
<1> DEFINE u == s \o t
           w == s \o ButLast(t)
<1>1. /\ Len(s) \in Nat /\ Len(t) \in Nat \ {0}
      /\ u \in Seq(S) /\ Len(u) = Len(s) + Len(t)
      /\ \A i \in 1 .. Len(s) + Len(t) : u[i] = IF i <= Len(s) THEN s[i] ELSE t[i - Len(s)]
  BY LenProperties, EmptySeq, ConcatProperties
<1>2. u # <<>>
  BY <1>1, EmptySeq
<1>3. u[Len(u)] = t[Len(t)]
  BY <1>1
<1>4. /\ ButLast(t) \in Seq(S) /\ Len(ButLast(t)) = Len(t) - 1
      /\ \A i \in 1 .. Len(t) - 1 : ButLast(t)[i] = t[i]
  BY ButLastFacts
<1>5. /\ w \in Seq(S) /\ Len(w) = Len(s) + (Len(t) - 1)
      /\ \A i \in 1 .. Len(s) + (Len(t) - 1) :
           w[i] = IF i <= Len(s) THEN s[i] ELSE ButLast(t)[i - Len(s)]
  <2> DEFINE b == ButLast(t)
  <2>1. b \in Seq(S) /\ Len(b) = Len(t) - 1
    BY <1>4
  <2> HIDE DEF b
  <2>2. /\ s \o b \in Seq(S) /\ Len(s \o b) = Len(s) + Len(b)
        /\ \A i \in 1 .. Len(s) + Len(b) :
             (s \o b)[i] = IF i <= Len(s) THEN s[i] ELSE b[i - Len(s)]
    BY <2>1, ConcatProperties
  <2>3. /\ s \o b \in Seq(S) /\ Len(s \o b) = Len(s) + (Len(t) - 1)
        /\ \A i \in 1 .. Len(s) + (Len(t) - 1) :
             (s \o b)[i] = IF i <= Len(s) THEN s[i] ELSE b[i - Len(s)]
    BY <2>1, <2>2
  <2> QED BY <2>3 DEF b
<1>6. /\ ButLast(u) \in Seq(S) /\ Len(ButLast(u)) = Len(u) - 1
      /\ \A i \in 1 .. Len(u) - 1 : ButLast(u)[i] = u[i]
  BY <1>1, <1>2, ButLastFacts
<1> HIDE DEF u, w
<1>7. \A i \in 1 .. Len(ButLast(u)) : ButLast(u)[i] = w[i]
  <2> SUFFICES ASSUME NEW i \in 1 .. Len(ButLast(u))
               PROVE  ButLast(u)[i] = w[i]
    OBVIOUS
  <2>1. i \in Nat /\ i >= 1 /\ i <= Len(s) + Len(t) - 1
    BY <1>1, <1>6
  <2>2. ButLast(u)[i] = IF i <= Len(s) THEN s[i] ELSE t[i - Len(s)]
    BY <1>1, <1>6, <2>1
  <2>3. w[i] = IF i <= Len(s) THEN s[i] ELSE ButLast(t)[i - Len(s)]
    BY <1>1, <1>5, <2>1
  <2>4. i > Len(s) => ButLast(t)[i - Len(s)] = t[i - Len(s)]
    <3>1. i > Len(s) => i - Len(s) \in 1 .. Len(t) - 1
      BY <1>1, <2>1
    <3> QED BY <1>4, <3>1
  <2> QED BY <1>1, <2>1, <2>2, <2>3, <2>4
<1>8. ButLast(u) = w
  BY <1>1, <1>5, <1>6, <1>7, SeqEqual
<1> QED BY <1>1, <1>2, <1>3, <1>8 DEF u, w, EndsIn

LEMMA ButLastOfSnoc ==
  ASSUME NEW S, NEW s \in Seq(S), NEW x \in S
  PROVE  /\ ButLast(s \o <<x>>) = s /\ EndsIn(x, s \o <<x>>)
         /\ s \o <<x>> \in Seq(S)
<1>1. <<x>> \in Seq(S) /\ <<x>> # <<>> /\ Len(<<x>>) = 1 /\ EndsIn(x, <<x>>)
  BY DEF EndsIn
<1>2. ButLast(<<x>>) = <<>>
  BY <1>1, SubSeqEmpty DEF ButLast
<1>3. /\ s \o <<x>> \in Seq(S)
      /\ EndsIn(x, s \o <<x>>) <=> EndsIn(x, <<x>>)
      /\ ButLast(s \o <<x>>) = s \o ButLast(<<x>>)
  BY <1>1, EndOfConcat
<1> QED BY <1>1, <1>2, <1>3, ConcatEmptySeq

(* A prefix that leaves out one element. *)
LEMMA TakeAllButOne ==
  ASSUME NEW S, NEW s \in Seq(S), NEW n \in Nat, Len(s) = n + 1
  PROVE  Take(s, n) = ButLast(s)
BY DEF Take, Least, ButLast

-----------------------------------------------------------------------------
(* The invariant: while a line is read, its bytes are counted, the last one *)
(* is known, and the buffer holds the beginning of it; once it is complete, *)
(* what was returned is what was sent.                                      *)

Body == {"cr", "bad", "other"}

StillReading ==
  line = Reading =>
    /\ frame \in Seq(Body)
    /\ bytes_before_lf = Len(frame)
    /\ frame = <<>> => last_byte = "none"
    /\ frame # <<>> => last_byte = frame[Len(frame)]
    /\ buf = Take(frame, MaxBytes)

FramingInv == /\ frame \in Seq(Byte) /\ buf \in Seq(Byte)
              /\ Len(buf) <= MaxBytes
              /\ StillReading
              /\ FramedAsSent

LEMMA Bytes == Body \subseteq Byte /\ \A s \in Seq(Body) : s \in Seq(Byte)
BY DEF Body, Byte

LEMMA NoLf == \A s \in Seq(Body) : ~EndsIn("lf", s)
<1> SUFFICES ASSUME NEW s \in Seq(Body), s # <<>>
             PROVE  s[Len(s)] # "lf"
  BY DEF EndsIn
<1> QED BY ButLastFacts DEF Body

LEMMA InitFraming == NewLine => FramingInv
<1> SUFFICES ASSUME NewLine PROVE FramingInv
  OBVIOUS
<1>1. frame = <<>> /\ buf = <<>> /\ line = Reading /\ last_byte = "none" /\ bytes_before_lf = 0
  BY DEF NewLine
<1>2. <<>> \in Seq(Body) /\ <<>> \in Seq(Byte) /\ Len(<<>>) = 0 /\ Len(<<>>) <= MaxBytes
  BY FramingAssumption
<1>3. Take(<<>>, MaxBytes) = <<>>
  BY <1>2, TakeAll, FramingAssumption
<1>4. StillReading
  BY <1>1, <1>2, <1>3 DEF StillReading
<1>5. FramedAsSent
  BY <1>1 DEF FramedAsSent, Reading
<1> QED BY <1>1, <1>2, <1>4, <1>5 DEF FramingInv

(* A fill without a newline extends what is read, and what is kept of it.   *)
LEMMA FillWithoutLfKeeps ==
  ASSUME FramingInv, NEW chunk \in Chunks, FillWithoutLf(chunk)
  PROVE  FramingInv'
<1>1. /\ line = Reading /\ line' = Reading /\ chunk # <<>> /\ chunk \in Seq(Body)
      /\ frame' = frame \o chunk /\ buf' = keep(chunk)
      /\ bytes_before_lf' = bytes_before_lf + Len(chunk) /\ last_byte' = chunk[Len(chunk)]
  BY FramingAssumption DEF FillWithoutLf, Body
<1>2. frame \in Seq(Body) /\ bytes_before_lf = Len(frame) /\ buf = Take(frame, MaxBytes)
  BY <1>1 DEF FramingInv, StillReading
<1>3. buf' = Take(frame', MaxBytes)
  BY <1>1, <1>2, TakeInParts, FramingAssumption DEF keep
<1>4. /\ frame' # <<>> /\ frame' \in Seq(Body) /\ Len(frame') = Len(frame) + Len(chunk)
      /\ frame'[Len(frame')] = chunk[Len(chunk)]
  <2>1. /\ Len(frame) \in Nat /\ Len(chunk) \in Nat \ {0}
        /\ frame' \in Seq(Body) /\ Len(frame') = Len(frame) + Len(chunk)
        /\ \A i \in 1 .. Len(frame) + Len(chunk) :
             frame'[i] = IF i <= Len(frame) THEN frame[i] ELSE chunk[i - Len(frame)]
    BY <1>1, <1>2, LenProperties, EmptySeq, ConcatProperties
  <2>2. frame' # <<>>
    BY <2>1, EmptySeq
  <2> QED BY <2>1, <2>2
<1>5. buf' \in Seq(Body) /\ Len(buf') <= MaxBytes
  BY <1>3, <1>4, TakeFacts, FramingAssumption
<1>6. StillReading'
  BY <1>1, <1>2, <1>3, <1>4 DEF StillReading
<1>7. FramedAsSent'
  BY <1>1 DEF FramedAsSent, Reading
<1> QED BY <1>4, <1>5, <1>6, <1>7, Bytes DEF FramingInv

(* A fill with a newline completes the line: what is returned is Payload,   *)
(* or one CR less when the payload is at the limit and ends in one.         *)
LEMMA FillWithLfKeeps ==
  ASSUME FramingInv, NEW chunk \in Chunks, FillWithLf(chunk)
  PROVE  FramingInv'
<1> DEFINE g    == frame \o chunk
           sent == IF EndsIn("cr", g) THEN ButLast(g) ELSE g
<1>1. /\ line = Reading /\ chunk \in Seq(Body) /\ frame' = g \o <<"lf">>
      /\ frame \in Seq(Body) /\ bytes_before_lf = Len(frame) /\ buf = Take(frame, MaxBytes)
      /\ frame = <<>> => last_byte = "none"
      /\ frame # <<>> => last_byte = frame[Len(frame)]
      /\ buf \in Seq(Byte) /\ Len(buf) <= MaxBytes /\ MaxBytes \in Nat
  BY FramingAssumption DEF FillWithLf, FramingInv, StillReading, Body
<1>2. /\ g \in Seq(Body) /\ Len(g) = Len(frame) + Len(chunk)
      /\ Len(g) \in Nat /\ Len(frame) \in Nat /\ Len(chunk) \in Nat
  BY <1>1, ConcatProperties, LenProperties
<1>3. EndsIn("lf", frame') /\ ButLast(frame') = g /\ frame' \in Seq(Byte)
  <2>1. g \in Seq(Byte) /\ "lf" \in Byte
    BY <1>2, Bytes DEF Byte
  <2> HIDE DEF g
  <2> QED BY <1>1, <2>1, ButLastOfSnoc
<1>4. Payload' = sent
  BY <1>3 DEF Payload
<1>5. crlf(chunk) <=> EndsIn("cr", g)
  <2>1. CASE chunk = <<>>
    <3>1. g = frame
      BY <1>1, <2>1, ConcatEmptySeq
    <3>2. crlf(chunk) <=> last_byte = "cr"
      BY <2>1 DEF crlf
    <3> QED BY <1>1, <3>1, <3>2 DEF EndsIn
  <2>2. CASE chunk # <<>>
    <3>1. EndsIn("cr", g) <=> EndsIn("cr", chunk)
      BY <1>1, <2>2, EndOfConcat
    <3> QED BY <2>2, <3>1 DEF crlf
  <2> QED BY <2>1, <2>2
<1>6. sent \in Seq(Body) /\ Len(sent) = line_bytes(chunk) /\ Len(sent) \in Nat
  <2>1. CASE EndsIn("cr", g)
    <3>1. g # <<>> /\ sent = ButLast(g)
      BY <2>1 DEF EndsIn
    <3>2. sent \in Seq(Body) /\ Len(sent) = Len(g) - 1
      BY <1>2, <3>1, ButLastFacts
    <3>3. line_bytes(chunk) = Len(frame) + Len(chunk) - 1
      BY <1>1, <1>5, <2>1 DEF line_bytes
    <3> QED BY <1>2, <3>2, <3>3, LenProperties
  <2>2. CASE ~EndsIn("cr", g)
    <3>1. line_bytes(chunk) = Len(frame) + Len(chunk) - 0
      BY <1>1, <1>5, <2>2 DEF line_bytes
    <3> QED BY <1>2, <2>2, <3>1
  <2> QED BY <2>1, <2>2
<1>7. CASE line_bytes(chunk) > MaxBytes
  <2>1. line' = TooLarge(line_bytes(chunk)) /\ buf' = buf
    BY <1>7 DEF FillWithLf
  <2>2. line' # Reading /\ line'.kind = "too_large" /\ line'.observed_at_least = line_bytes(chunk)
    BY <2>1 DEF TooLarge, Reading
  <2>3. FramedAsSent'
    BY <1>4, <1>6, <1>7, <2>2 DEF FramedAsSent
  <2> QED BY <1>1, <1>3, <2>1, <2>2, <2>3 DEF FramingInv, StillReading
<1>8. CASE ~(line_bytes(chunk) > MaxBytes)
  <2> DEFINE kept    == IF crlf(chunk) /\ chunk = <<>> /\ EndsIn("cr", buf)
                        THEN ButLast(buf) ELSE buf
             payload == IF crlf(chunk) /\ chunk # <<>> THEN ButLast(chunk) ELSE chunk
  <2>1. buf' = kept \o Take(payload, MaxBytes - Len(kept)) /\ line' = Decoded(buf')
    BY <1>8 DEF FillWithLf
  <2>2. Len(sent) <= MaxBytes
    <3> HIDE DEF sent
    <3> QED BY <1>1, <1>6, <1>8
  <2>3. /\ buf' \in Seq(Body) /\ Len(buf') <= MaxBytes
        /\ \/ buf' = sent
           \/ Len(sent) = MaxBytes /\ EndsIn("cr", sent) /\ buf' = ButLast(sent)
    <3> HIDE DEF g
    <3>1. CASE ~crlf(chunk)
      <4>1. buf' = Take(frame, MaxBytes) \o Take(chunk, MaxBytes - Len(Take(frame, MaxBytes)))
        BY <1>1, <2>1, <3>1
      <4>2. buf' = Take(g, MaxBytes)
        BY <1>1, <4>1, TakeInParts DEF g
      <4>3. sent = g
        BY <1>5, <3>1
      <4> QED BY <1>1, <1>2, <2>2, <4>2, <4>3, TakeAll
    <3>2. CASE crlf(chunk) /\ chunk # <<>>
      <4>1. ButLast(chunk) \in Seq(Body)
        BY <1>1, <3>2, ButLastFacts
      <4>2. buf' = Take(frame, MaxBytes)
                     \o Take(ButLast(chunk), MaxBytes - Len(Take(frame, MaxBytes)))
        BY <1>1, <2>1, <3>2
      <4>3. buf' = Take(frame \o ButLast(chunk), MaxBytes)
        BY <1>1, <4>1, <4>2, TakeInParts
      <4>4. sent = frame \o ButLast(chunk)
        BY <1>1, <1>5, <3>2, EndOfConcat DEF g
      <4>5. sent \in Seq(Body)
        BY <1>6
      <4> HIDE DEF sent
      <4> QED BY <1>1, <2>2, <4>3, <4>4, <4>5, TakeAll
    <3>3. CASE crlf(chunk) /\ chunk = <<>>
      <4>1. g = frame
        BY <1>1, <3>3, ConcatEmptySeq DEF g
      <4>2. EndsIn("cr", frame) /\ sent = ButLast(frame) /\ frame # <<>>
        BY <1>5, <3>3, <4>1 DEF EndsIn
      <4>3. sent \in Seq(Body) /\ Len(sent) = Len(frame) - 1
        BY <1>1, <4>2, ButLastFacts
      <4>4. buf \in Seq(Body)
        BY <1>1, TakeFacts
      <4>5. ASSUME kept \in Seq(Body), Len(kept) <= MaxBytes
            PROVE  buf' = kept
        <5>1. Take(payload, MaxBytes - Len(kept)) = <<>>
          <6>1. payload = <<>> /\ <<>> \in Seq(Body) /\ Len(<<>>) = 0
            BY <3>3
          <6>2. MaxBytes - Len(kept) \in Nat /\ Len(<<>>) <= MaxBytes - Len(kept)
            <7>1. Len(kept) \in Nat
              BY <4>5, LenProperties
            <7> HIDE DEF kept
            <7> QED BY <1>1, <4>5, <7>1, <6>1
          <6> HIDE DEF kept, payload
          <6> QED BY <6>1, <6>2, TakeAll
        <5> QED BY <2>1, <4>5, <5>1, ConcatEmptySeq
      <4>6. CASE Len(frame) <= MaxBytes
        <5>1. buf = frame
          BY <1>1, <4>6, TakeAll
        <5>2. kept = sent
          BY <3>3, <4>2, <5>1
        <5> HIDE DEF kept, payload, sent
        <5>3. buf' = kept
          BY <2>2, <4>3, <4>5, <5>2
        <5> QED BY <2>2, <4>3, <5>2, <5>3
      <4>7. CASE ~(Len(frame) <= MaxBytes)
        <5>1. Len(frame) = MaxBytes + 1
          <6> HIDE DEF sent
          <6> QED BY <1>1, <1>2, <2>2, <4>3, <4>7
        <5>2. buf = sent
          BY <1>1, <4>2, <5>1, TakeAllButOne
        <5>3. Len(sent) = MaxBytes
          <6> HIDE DEF sent
          <6> QED BY <1>1, <1>2, <4>3, <5>1
        <5>4. CASE EndsIn("cr", sent)
          <6>1. kept = ButLast(sent)
            BY <3>3, <5>2, <5>4
          <6>2. sent # <<>>
            BY <5>4 DEF EndsIn
          <6> HIDE DEF kept, payload, sent
          <6>3. kept \in Seq(Body) /\ Len(kept) = MaxBytes - 1 /\ Len(kept) <= MaxBytes
            BY <1>1, <4>3, <5>3, <6>1, <6>2, ButLastFacts
          <6>4. buf' = kept
            BY <4>5, <6>3
          <6> QED BY <5>3, <5>4, <6>1, <6>3, <6>4
        <5>5. CASE ~EndsIn("cr", sent)
          <6>1. kept = sent
            BY <5>2, <5>5
          <6> HIDE DEF kept, payload, sent
          <6>2. buf' = kept
            BY <2>2, <4>3, <4>5, <6>1
          <6> QED BY <2>2, <4>3, <6>1, <6>2
        <5> QED BY <5>4, <5>5
      <4> QED BY <4>6, <4>7
    <3> QED BY <3>1, <3>2, <3>3
  <2>4. line' # Reading /\ line'.kind \in {"line", "invalid_utf8"}
    BY <2>1 DEF Decoded, Line, Invalid, Reading
  <2> HIDE DEF sent
  <2>5. FramedAsSent'
    <3>1. line'.kind # "too_large" /\ ~(Len(Payload') > MaxBytes)
      BY <1>1, <1>4, <1>6, <2>2, <2>4
    <3>2. \/ line' = Decoded(Payload')
          \/ CrAtTheLimit' /\ line' = Decoded(ButLast(Payload'))
      <4> HIDE DEF kept, payload
      <4>1. line' = Decoded(buf')
        BY <2>1
      <4> QED BY <1>4, <2>3, <4>1 DEF CrAtTheLimit
    <3> QED BY <3>1, <3>2 DEF FramedAsSent
  <2> QED BY <1>3, <2>3, <2>4, <2>5, Bytes DEF FramingInv, StillReading
<1> QED BY <1>7, <1>8

(* At the end of the input the bytes read are the payload.                  *)
LEMMA EndOfInputKeeps ==
  ASSUME FramingInv, EndOfInput
  PROVE  FramingInv'
<1>1. /\ line = Reading /\ frame' = frame /\ buf' = buf
      /\ line' = IF bytes_before_lf > MaxBytes THEN TooLarge(bytes_before_lf)
                 ELSE IF buf = <<>> THEN Eof ELSE Decoded(buf)
  BY DEF EndOfInput
<1>2. /\ frame \in Seq(Body) /\ bytes_before_lf = Len(frame) /\ buf = Take(frame, MaxBytes)
      /\ MaxBytes \in Nat /\ Len(frame) \in Nat
  BY <1>1, FramingAssumption, LenProperties DEF FramingInv, StillReading
<1>3. Payload' = frame
  BY <1>1, <1>2, NoLf DEF Payload
<1>4. line' # Reading
  BY <1>1 DEF TooLarge, Eof, Decoded, Line, Invalid, Reading
<1>5. FramedAsSent'
  <2>1. CASE bytes_before_lf > MaxBytes
    <3>1. line'.kind = "too_large" /\ line'.observed_at_least = Len(frame)
      BY <1>1, <1>2, <2>1 DEF TooLarge
    <3> QED BY <1>2, <1>3, <2>1, <3>1 DEF FramedAsSent
  <2>2. CASE ~(bytes_before_lf > MaxBytes)
    <3>1. buf = frame
      BY <1>2, <2>2, TakeAll
    <3>2. CASE buf = <<>>
      <4>1. line'.kind = "eof"
        BY <1>1, <2>2, <3>2 DEF Eof
      <4> QED BY <4>1 DEF FramedAsSent
    <3>3. CASE buf # <<>>
      <4>1. line' = Decoded(frame) /\ line'.kind \in {"line", "invalid_utf8"}
        BY <1>1, <2>2, <3>1, <3>3 DEF Decoded, Line, Invalid
      <4> QED BY <1>2, <1>3, <2>2, <4>1 DEF FramedAsSent
    <3> QED BY <3>2, <3>3
  <2> QED BY <2>1, <2>2
<1> QED BY <1>1, <1>4, <1>5 DEF FramingInv, StillReading

LEMMA StepFraming == FramingInv /\ [FramingNext]_framing => FramingInv'
<1> SUFFICES ASSUME FramingInv, [FramingNext]_framing
             PROVE  FramingInv'
  OBVIOUS
<1>1. ASSUME NEW chunk \in Chunks, FillWithoutLf(chunk)
      PROVE  FramingInv'
  BY <1>1, FillWithoutLfKeeps
<1>2. ASSUME NEW chunk \in Chunks, FillWithLf(chunk)
      PROVE  FramingInv'
  BY <1>2, FillWithLfKeeps
<1>3. CASE EndOfInput
  BY <1>3, EndOfInputKeeps
<1>4. CASE ReadError
  <2>1. line' = Eof /\ frame' = frame /\ buf' = buf
    BY <1>4 DEF ReadError
  <2>2. line'.kind = "eof" /\ line' # Reading
    BY <2>1 DEF Eof, Reading
  <2> QED BY <2>1, <2>2 DEF FramingInv, StillReading, FramedAsSent
<1>5. CASE Again
  <2>1. NewLine'
    BY <1>5 DEF Again, NewLine
  <2>2. (NewLine)' => (FramingInv)'
    BY InitFraming, PTL
  <2> QED BY <2>1, <2>2
<1>6. CASE UNCHANGED framing
  BY <1>6 DEF framing, FramingInv, StillReading, FramedAsSent, Payload, CrAtTheLimit
<1> QED BY <1>1, <1>2, <1>3, <1>4, <1>5, <1>6 DEF FramingNext

LEMMA FramingInvariant == FramingSpec => []FramingInv
<1>1. FramingInit => FramingInv
  BY InitFraming DEF FramingInit
<1> QED BY <1>1, StepFraming, PTL DEF FramingSpec

(* What comes of a line does not depend on the fills it arrives in.         *)
THEOREM LinesAreFramedAsSent == FramingSpec => []FramedAsSent
<1>1. FramingInv => FramedAsSent
  BY DEF FramingInv
<1> QED BY <1>1, FramingInvariant, PTL

(* No more than the limit is kept of a line, however long it grows.         *)
THEOREM LinesAreKeptWithinTheLimit == FramingSpec => []KeptWithinLimit
<1>1. FramingInv => KeptWithinLimit
  BY DEF FramingInv, StillReading, KeptWithinLimit
<1> QED BY <1>1, FramingInvariant, PTL
=============================================================================
