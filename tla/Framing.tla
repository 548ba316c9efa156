------------------------------- MODULE Framing -------------------------------
(***************************************************************************)
(* read_bounded_line (src/mcp/server.rs): one request line is assembled    *)
(* from whatever fills the transport hands over, with a hard limit on what *)
(* is kept.  A byte is what the function tells apart: "cr", "lf", a byte   *)
(* that makes the line invalid UTF-8, or any other.                        *)
(***************************************************************************)
EXTENDS Naturals, Sequences

CONSTANTS MaxBytes,  \* max_bytes
          Chunks,    \* what a fill may hold before its first LF
          Longest    \* bound: no line of the input is longer
ASSUME FramingAssumption == /\ MaxBytes \in Nat
                            /\ Longest \in Nat
                            /\ Chunks \subseteq Seq({"cr", "bad", "other"})

VARIABLES
  frame,            \* every byte of this line read so far
  buf,              \* the prefix that is kept
  bytes_before_lf,  \* how many were read, kept or not
  last_byte,        \* the last byte of the previous fill, "none" at the start
  line              \* what read_bounded_line has returned, "reading" until then
framing == <<frame, buf, bytes_before_lf, last_byte, line>>

Reading    == [kind |-> "reading"]
TooLarge(n) == [kind |-> "too_large", observed_at_least |-> n]
Eof        == [kind |-> "eof"]
Line(s)    == [kind |-> "line", payload |-> s]
Invalid    == [kind |-> "invalid_utf8"]

Least(a, b) == IF a <= b THEN a ELSE b
Take(s, n)  == SubSeq(s, 1, Least(n, Len(s)))
Occurs(b, s) == \E i \in 1..Len(s) : s[i] = b
EndsIn(b, s) == s # <<>> /\ s[Len(s)] = b
ButLast(s)   == SubSeq(s, 1, Len(s) - 1)
Decoded(s)   == IF Occurs("bad", s) THEN Invalid ELSE Line(s)

-----------------------------------------------------------------------------
NewLine == /\ frame = <<>> /\ buf = <<>> /\ bytes_before_lf = 0
           /\ last_byte = "none" /\ line = Reading
FramingInit == NewLine

(* Fault: the rest of a fill is kept whatever its length. *)
keep_everything(chunk) == buf \o chunk
(* The bounded prefix of a fill that the buffer has room for. *)
keep(chunk) == buf \o Take(chunk, MaxBytes - Len(buf))

(* A fill without a newline. *)
FillWithoutLf(chunk) ==
  /\ line = Reading /\ chunk # <<>>
  /\ Len(frame) + Len(chunk) < Longest
  /\ frame' = frame \o chunk
  /\ buf' = keep(chunk)
  /\ bytes_before_lf' = bytes_before_lf + Len(chunk)
  /\ last_byte' = chunk[Len(chunk)]
  /\ UNCHANGED line

(* Fault: only the fill that holds the newline is looked at. *)
crlf_in_this_fill(chunk) == EndsIn("cr", chunk)
(* The byte before the newline, be it in this fill or the previous one. *)
crlf(chunk) == IF chunk = <<>> THEN last_byte = "cr" ELSE EndsIn("cr", chunk)
line_bytes(chunk) == bytes_before_lf + Len(chunk) - (IF crlf(chunk) THEN 1 ELSE 0)

(* A fill whose first newline comes after `chunk`. *)
FillWithLf(chunk) ==
  /\ line = Reading
  /\ Len(frame) + Len(chunk) < Longest
  /\ frame' = frame \o chunk \o <<"lf">>
  /\ IF line_bytes(chunk) > MaxBytes
     THEN line' = TooLarge(line_bytes(chunk)) /\ UNCHANGED buf
     ELSE LET kept    == IF crlf(chunk) /\ chunk = <<>> /\ EndsIn("cr", buf)
                         THEN ButLast(buf) ELSE buf
              payload == IF crlf(chunk) /\ chunk # <<>> THEN ButLast(chunk) ELSE chunk
          IN /\ buf' = kept \o Take(payload, MaxBytes - Len(kept))
             /\ line' = Decoded(buf')
  /\ UNCHANGED <<bytes_before_lf, last_byte>>

(* The transport ends, or breaks: a broken line is not handed on. *)
EndOfInput ==
  /\ line = Reading
  /\ line' = IF bytes_before_lf > MaxBytes THEN TooLarge(bytes_before_lf)
             ELSE IF buf = <<>> THEN Eof ELSE Decoded(buf)
  /\ UNCHANGED <<frame, buf, bytes_before_lf, last_byte>>
ReadError ==
  /\ line = Reading
  /\ line' = Eof
  /\ UNCHANGED <<frame, buf, bytes_before_lf, last_byte>>

(* The loop of the server asks for the next line, unless the input is over *)
(* or was not UTF-8.                                                       *)
Again == /\ line.kind \in {"line", "too_large"}
         /\ EndsIn("lf", frame)
         /\ frame' = <<>> /\ buf' = <<>> /\ bytes_before_lf' = 0
         /\ last_byte' = "none" /\ line' = Reading

FramingNext ==
  \/ \E chunk \in Chunks : FillWithoutLf(chunk) \/ FillWithLf(chunk)
  \/ EndOfInput \/ ReadError \/ Again
FramingSpec == FramingInit /\ [][FramingNext]_framing

-----------------------------------------------------------------------------
Byte == {"cr", "bad", "other", "lf"}
FramingTypeOK ==
  /\ frame \in Seq(Byte) /\ buf \in Seq(Byte)
  /\ bytes_before_lf \in Nat /\ last_byte \in Byte \cup {"none"}
  /\ line.kind \in {"reading", "too_large", "eof", "line", "invalid_utf8"}

(* What a line is, fills aside: the bytes before LF or CRLF, or before the *)
(* end of the input.                                                       *)
Payload == IF ~EndsIn("lf", frame) THEN frame
           ELSE IF EndsIn("cr", ButLast(frame)) THEN ButLast(ButLast(frame))
           ELSE ButLast(frame)

(* The longest accepted line may end in a CR of its own.  When the CRLF    *)
(* that ends it is split between fills, the CR was never kept, and the one *)
(* that `buf` ends in belongs to the payload.                              *)
CrAtTheLimit == Len(Payload) = MaxBytes /\ EndsIn("cr", Payload)

(* What comes of a line does not depend on the fills it arrives in:        *)
(* exactly the lines within the limit are accepted, the length reported of *)
(* the others is their length, and the payload handed on is the one sent,  *)
(* up to a trailing CR of a line at the limit (server.rs:84, 117, 156).    *)
FramedAsSent ==
  line.kind \notin {"reading", "eof"} =>
    /\ line.kind = "too_large" <=> Len(Payload) > MaxBytes
    /\ line.kind = "too_large" => line.observed_at_least = Len(Payload)
    /\ line.kind # "too_large" =>
         \/ line = Decoded(Payload)
         \/ CrAtTheLimit /\ line = Decoded(ButLast(Payload))

(* However long a line grows without a newline, no more than the limit is  *)
(* kept of it, and what is kept is its beginning.                          *)
KeptWithinLimit == /\ Len(buf) <= MaxBytes
                   /\ line = Reading => buf = Take(frame, MaxBytes)
=============================================================================
