-------------------------- MODULE McpServerProofs --------------------------
(***************************************************************************)
(* For any messages, any number of lines, and any limits: the registry is  *)
(* exact, one era wins, a pipelined handshake works, a cancellation        *)
(* reaches the request it names and no other, and every line is answered   *)
(* once.  The server implements Conversation.  It is never stuck, and its  *)
(* every step uses something up.                                           *)
(***************************************************************************)
EXTENDS McpServer, FiniteSetTheorems, SequenceTheorems, TLAPS

HasTask   == {"started", "pinned", "working", "answered", "completed", "sending"}

(* Where the loop is fixes what the current line is and how far its        *)
(* request has come; lines not yet read have left no trace.                *)
LoopInv ==
  /\ main \in {"refusing", "registering", "initializing", "notifying", "applying", "flagging"}
       => Current \in Line
  /\ \A n \in Line : n > Current => pc[n] = "none" /\ outcome[n] = "none" /\ ~flag[n]
  /\ \A n \in Line : pc[n] # "none" => line[n].kind = "request"
  /\ main = "registering" =>
       Message.kind = "request" /\ pc[Current] = "none" /\ outcome[Current] = "none"
  /\ main = "refusing" => pc[Current] = "none" /\ outcome[Current] # "none"
  /\ main = "initializing" => pc[Current] # "none"
  /\ main \in {"notifying", "applying", "flagging"} => Message.kind = "notification"
  /\ \A n \in Line : pc[n] \notin {"none", "ended"} /\ HandledInline(line[n])
       => n = Current /\ main = "initializing"
  /\ \A n \in Line : pc[n] = "spawned" => ~HandledInline(line[n])
  /\ \A n \in Line : pc[n] = "working" => line[n].method = "call"

(* A cleanup left to a deferred task is of a request that is over.         *)
RegistryInv ==
  /\ RegistryIsExact
  /\ \A n \in deferred : pc[n] \in {"sending", "ended"}

(* The metric counts the tasks that have one.                              *)
Counted  == {n \in Line : pc[n] \in HasTask /\ ~HandledInline(line[n])}
GaugeInv == gauge = Cardinality(Counted)

(* A line whose answer has gone to the channel. *)
Emitted(n) == \/ pc[n] = "ended"
              \/ pc[n] = "none" /\ outcome[n] # "none" /\ ~(main = "refusing" /\ n = Current)

AnswerInv ==
  /\ \A a, b \in DOMAIN out : out[a] = out[b] => a = b
  /\ \A a \in DOMAIN out : stdout[out[a]] = 0 /\ Emitted(out[a])
  /\ \A n \in Line : stdout[n] \in {0, 1} /\ (stdout[n] = 1 => Emitted(n))

(* While no era is pinned, no notification has got past the edge. *)
EraInv ==
  /\ OneEra
  /\ era = "undecided" =>
       \A k \in 1 .. Current :
         line[k].kind = "notification" /\ Classify(line[k]) # "rejected"
           => k = Current /\ main = "notifying"
  /\ main \in {"applying", "flagging"} => Classify(Message) = era

(* The writer outlives whoever may send to it, and the loop the tasks.     *)
ShutdownInv ==
  /\ writer = "failed" => out = <<>>
  /\ writer = "done" => main \in {"draining", "exited"} /\ out = <<>>
  /\ main \in {"draining", "exited"} => \A n \in Line : pc[n] \in {"none", "ended"}
  /\ main = "exited" => writer # "running"

(* A line that wants an answer is answered, under way, or in the hands of   *)
(* the loop; nothing else is answered.                                      *)
WantedInv ==
  /\ \A n \in Line : outcome[n] # "none" => Wants(n)
  /\ \A n \in Line : Wants(n) =>
       \/ Emitted(n) \/ pc[n] # "none"
       \/ n = Current /\ main \in {"refusing", "registering"}

(* A line that has been answered is in the channel or on stdout. *)
DeliveredInv ==
  writer # "failed" =>
    \A n \in Line : Emitted(n) => stdout[n] = 1 \/ \E a \in DOMAIN out : out[a] = n

(* The loop is still to carry out the cancellation of n on line k. *)
Carrying(k, n) ==
  /\ k = Current
  /\ main \in {"notifying", "applying", "flagging"}
  /\ main = "flagging" => target = n

(* What only a cancellation explains: a flag that is not the timeout's own, *)
(* or the answer that says so.                                              *)
Marked(n) == (flag[n] /\ outcome[n] # "timeout") \/ outcome[n] = "cancelled"

CancelInv ==
  /\ \A n \in Line : Marked(n) => \E k \in n + 1 .. Current : Cancels(k, n)
  /\ \A n \in Registered : \A k \in n + 1 .. Current :
       Cancels(k, n) => flag[n] \/ Carrying(k, n)
  /\ main = "flagging" =>
       target \in Line /\ target < Current /\ Message.method = "cancelled"
         /\ line[target].id = Message.id

(* The request on line n began the session. *)
Opened(n) == /\ line[n].kind = "request" /\ line[n].method = "initialize" /\ Legacy(n)
             /\ outcome[n] = "result"
HandshakeInv ==
  /\ \A n \in Line : Opened(n) => session # "uninitialized"
  /\ PipelinedHandshake

(* A request is decided when its task says so, and a call goes on under the *)
(* session it was let in by.  The loop moves past the notification that     *)
(* completes the handshake only when the session is no longer awaiting it.  *)
Completes(n) == /\ line[n].kind = "notification" /\ line[n].method = "initialized"
                /\ Legacy(n)
ServingInv ==
  /\ \A n \in Line : pc[n] \in {"spawned", "started", "pinned", "working"} => outcome[n] = "none"
  /\ \A n \in Line : pc[n] \in {"answered", "completed", "sending", "ended"} => outcome[n] # "none"
  /\ \A n \in Line : pc[n] = "working" => IsServed(n)
  /\ Current \in Line /\ Completes(Current) /\ session = "awaiting"
       => main \in {"notifying", "applying"}

IInv == /\ TypeOK /\ LoopInv /\ RegistryInv /\ GaugeInv
        /\ AnswerInv /\ ShutdownInv /\ WantedInv /\ DeliveredInv
        /\ EraInv /\ CancelInv /\ HandshakeInv /\ ServingInv
-----------------------------------------------------------------------------
(* The kinds of steps the proofs tell apart.                               *)

Quiet   == CheckWriter \/ ReadEof \/ FinishInitialize \/ DropNotification \/ JoinTasks \/ Exit
Refuses == RefuseCapacity \/ RefuseDuplicate
Answers(n) == \/ RejectClaim(n) \/ RejectEra(n) \/ Initialize(n) \/ RejectUnready(n)
              \/ AnswerAtOnce(n) \/ EndCall(n) \/ TimeOutCall(n) \/ Panic(n)
Advances(n) == \/ Answers(n) \/ Start(n) \/ PinRequest(n) \/ BeginCall(n) \/ Complete(n)
               \/ DropGuard(n) \/ Send(n) \/ RunDeferred(n)
LoopMoves == \/ Refuses \/ SendRefusal \/ Register \/ PinNotification \/ ApplyInitialized
             \/ LookUpCancelled \/ SetCancelFlag
WriterMoves == Write \/ WriteFails \/ WriterEnds

LEMMA Steps ==
  ASSUME [Next]_vars
  PROVE  \/ Quiet \/ LoopMoves \/ ReadLine \/ WriterMoves \/ UNCHANGED vars
         \/ \E n \in Line : Advances(n)
BY DEF Next, LoopStep, RequestStep, Dispatch, Exited, Quiet, LoopMoves, Refuses, WriterMoves,
       Advances, Answers

(* An answer is given between the edge and the end of the call, and says   *)
(* who refused whom only where the loop did.                               *)
LEMMA Answering ==
  ASSUME NEW n \in Line, Answers(n)
  PROVE  /\ pc[n] \in {"started", "pinned", "working"}
         /\ era' = era
         /\ \E o \in Outcomes \ {"none", "duplicate", "too_many"} : Answer(n, o)
         /\ \/ flag' = flag
            \/ pc[n] = "working" /\ Answer(n, "timeout") /\ flag' = [flag EXCEPT ![n] = TRUE]
BY DEF Answers, RejectClaim, RejectEra, Initialize, RejectUnready, AnswerAtOnce, EndCall, TimeOutCall, Panic,
       Outcomes

LEMMA LineFacts ==
  ASSUME TypeOK
  PROVE  /\ Current \in Nat /\ Current <= MaxLines /\ 1 .. Current \subseteq Line
         /\ DOMAIN line = 1 .. Current
         /\ \A n \in 1 .. Current : line[n] \in [kind : Kinds, method : Methods,
                                                 claim : Claims, id : Ids]
BY BoundAssumption, MessageAssumption DEF TypeOK, Current, Line

(* What classification can answer. *)
LEMMA ClassifyRange ==
  ASSUME NEW m \in [kind : Kinds, method : Methods, claim : Claims, id : Ids]
  PROVE  Classify(m) \in {"legacy", "modern", "rejected"}
BY DEF Classify, Claims

LEMMA Reading ==
  ASSUME TypeOK, ReadLine
  PROVE  /\ Len(line') = Current + 1 /\ Current + 1 \in Line
         /\ line'[Current + 1] \in Messages
         /\ \A n \in 1 .. Current : line'[n] = line[n]
         /\ line' \in Seq(Messages)
BY BoundAssumption DEF TypeOK, ReadLine, Current, Line

-----------------------------------------------------------------------------
(* Types. *)

LEMMA EmitTypes ==
  ASSUME TypeOK, NEW n \in Line, Emit(n)
  PROVE  out' \in Seq(Line) /\ Len(out') <= WriterCapacity /\ stdout' = stdout /\ writer' = writer
<1>1. CASE out' = out
  BY <1>1 DEF TypeOK, Emit
<1>2. CASE out' = Append(out, n) /\ Len(out) < WriterCapacity
  BY <1>2, BoundAssumption DEF TypeOK, Emit
<1> QED BY <1>1, <1>2 DEF Emit
LEMMA CountFacts ==
  /\ IsFiniteSet(Counted) /\ Cardinality(Counted) \in Nat
  /\ \A n \in Counted : Cardinality(Counted) > 0
<1>1. IsFiniteSet(Line)
  BY FS_Interval, BoundAssumption DEF Line
<1>2. IsFiniteSet(Counted)
  BY <1>1, FS_Subset DEF Counted
<1> QED BY <1>2, FS_CardinalityType, FS_EmptySet

LEMMA TypeStep ==
  ASSUME TypeOK, LoopInv, GaugeInv, [Next]_vars
  PROVE  TypeOK'
<1>1. CASE Quiet
  BY <1>1 DEF Quiet, CheckWriter, ReadEof, FinishInitialize, DropNotification, JoinTasks, Exit,
     TypeOK, MainStates, registry, channel
<1>2. CASE ReadLine
  <2>1. PICK m \in Messages :
          /\ main' = CASE m.kind = "junk" -> "refusing"
                       [] m.kind = "request" -> "registering"
                       [] m.kind = "notification" -> "notifying"
          /\ outcome' = IF m.kind = "junk" THEN [outcome EXCEPT ![Current + 1] = "invalid"]
                                           ELSE outcome
    BY <1>2 DEF ReadLine
  <2>2. main' \in MainStates
    BY <2>1, MessageAssumption DEF MainStates, Kinds
  <2>3. outcome' \in [Line -> Outcomes]
    BY <2>1 DEF TypeOK, Outcomes
  <2>4. line' \in Seq(Messages) /\ Len(line') <= MaxLines
    BY <1>2, Reading, BoundAssumption DEF Line
  <2> QED BY <1>2, <2>2, <2>3, <2>4 DEF ReadLine, TypeOK, registry, channel
<1>3. CASE LoopMoves
  <2> USE <1>3, LineFacts DEF TypeOK, MainStates, registry, channel, LoopInv
  <2>1. CASE Refuses
    BY <2>1 DEF Refuses, RefuseCapacity, RefuseDuplicate, Refuse, Outcomes
  <2>2. CASE SendRefusal
    <3>1. Current \in Line
      BY <2>2 DEF SendRefusal
    <3> QED BY <2>2, <3>1, EmitTypes DEF SendRefusal
  <2>3. CASE Register
    BY <2>3 DEF Register, TaskStates, Message
  <2>4. CASE PinNotification
    <3>1. Message \in [kind : Kinds, method : Methods, claim : Claims, id : Ids]
      BY <2>4 DEF PinNotification, Message, Line
    <3> QED BY <2>4, <3>1, ClassifyRange DEF PinNotification
  <2>5. CASE ApplyInitialized
    BY <2>5 DEF ApplyInitialized
  <2>6. CASE LookUpCancelled
    <3>1. Message.id \in Ids
      BY <2>6 DEF LookUpCancelled, Message, Line
    <3> QED BY <2>6, <3>1 DEF LookUpCancelled
  <2>7. CASE SetCancelFlag
    BY <2>7 DEF SetCancelFlag
  <2> QED BY <1>3, <2>1, <2>2, <2>3, <2>4, <2>5, <2>6, <2>7 DEF LoopMoves
<1>4. CASE WriterMoves
  <2>1. CASE Write
    <3>1. Head(out) \in Line /\ Tail(out) \in Seq(Line) /\ Len(Tail(out)) <= WriterCapacity
      BY <2>1, HeadTailProperties, BoundAssumption DEF Write, TypeOK
    <3> QED BY <2>1, <3>1 DEF Write, TypeOK, registry
  <2>2. CASE WriteFails
    <3>1. out' \in Seq(Line) /\ Len(out') = 0
      BY <2>2, EmptySeq DEF WriteFails
    <3> QED BY <2>2, <3>1, BoundAssumption DEF WriteFails, TypeOK, registry
  <2>3. CASE WriterEnds
    BY <2>3 DEF WriterEnds, TypeOK, registry
  <2> QED BY <1>4, <2>1, <2>2, <2>3 DEF WriterMoves
<1>5. ASSUME NEW n \in Line, Advances(n)
      PROVE  TypeOK'
  <2>0. pc[n] # "none" => line[n] \in [kind : Kinds, method : Methods, claim : Claims, id : Ids]
    BY LineFacts DEF LoopInv, Line
  <2>1. CASE Answers(n)
    <3>1. PICK o \in Outcomes : Answer(n, o)
      BY <2>1, Answering
    <3>2. session' \in {"uninitialized", "awaiting", "ready"} /\ line' = line /\ era' = era
      BY <2>1, <3>1, Answering
      DEF Answers, RejectClaim, RejectEra, Initialize, RejectUnready, AnswerAtOnce, EndCall, TimeOutCall, Panic,
          Answer, TypeOK
    <3>3. flag' \in [Line -> BOOLEAN]
      BY <2>1, Answering DEF TypeOK
    <3> QED BY <3>1, <3>2, <3>3 DEF Answer, TypeOK, TaskStates, registry, channel
  <2>2. CASE Start(n)
    BY <2>2 DEF Start, TypeOK, TaskStates, registry, channel
  <2>3. CASE PinRequest(n)
    <3>1. Classify(line[n]) \in {"legacy", "modern"}
      BY <2>0, <2>3, ClassifyRange DEF PinRequest
    <3> QED BY <2>3, <3>1 DEF PinRequest, TypeOK, TaskStates, registry, channel
  <2>4. CASE BeginCall(n)
    BY <2>4 DEF BeginCall, TypeOK, TaskStates, registry, channel
  <2>5. CASE Complete(n)
    BY <2>5 DEF Complete, WithoutEntry, TypeOK, TaskStates, channel
  <2>6. CASE DropGuard(n)
    BY <2>6 DEF DropGuard, WithoutEntry, TypeOK, TaskStates, channel
  <2>7. CASE Send(n)
    <3>1. ~HandledInline(line[n]) => n \in Counted
      BY <2>7 DEF Send, Counted, HasTask
    <3>2. gauge' \in Nat
      BY <2>7, <3>1, CountFacts DEF Send, TypeOK, GaugeInv
    <3> QED BY <2>7, <3>2, EmitTypes DEF Send, TypeOK, TaskStates, registry
  <2>8. CASE RunDeferred(n)
    BY <2>8 DEF RunDeferred, WithoutEntry, TypeOK, TaskStates, channel
  <2> QED BY <1>5, <2>1, <2>2, <2>3, <2>4, <2>5, <2>6, <2>7, <2>8 DEF Advances
<1>6. CASE UNCHANGED vars
  BY <1>6 DEF vars, TypeOK, registry, channel
<1> QED BY <1>1, <1>2, <1>3, <1>4, <1>5, <1>6, Steps
-----------------------------------------------------------------------------
(* The loop and the tasks. *)

(* A step of a request changes nothing of the loop, and only its own line. *)
LEMMA RequestFrame ==
  ASSUME TypeOK, NEW n \in Line, Advances(n)
  PROVE  /\ line' = line /\ main' = main /\ target' = target
         /\ \A k \in Line \ {n} : pc'[k] = pc[k] /\ outcome'[k] = outcome[k] /\ flag'[k] = flag[k]
         /\ flag' = flag \/ (flag'[n] /\ outcome'[n] = "timeout" /\ pc[n] = "working")
         /\ pc[n] = "none" => pc' = pc /\ outcome' = outcome
         /\ pc[n] # "none" => pc'[n] # "none"
         /\ pc[n] = "ended" => pc' = pc
         /\ pc'[n] # pc[n] => outcome' = outcome \/ pc'[n] = "answered"
         /\ outcome' = outcome \/ pc[n] \in {"started", "pinned", "working"}
<1>1. CASE Answers(n)
  BY <1>1, Answering DEF Answer, TypeOK
<1>2. CASE Start(n) \/ PinRequest(n) \/ BeginCall(n)
  BY <1>2 DEF Start, PinRequest, BeginCall, TypeOK
<1>3. CASE Complete(n) \/ DropGuard(n) \/ Send(n) \/ RunDeferred(n)
  BY <1>3 DEF Complete, DropGuard, Send, RunDeferred, TypeOK
<1> QED BY <1>1, <1>2, <1>3 DEF Advances

LEMMA LoopStepKeeps ==
  ASSUME TypeOK, LoopInv, CancelInv, [Next]_vars
  PROVE  LoopInv'
<1>1. CASE Quiet
  BY <1>1 DEF Quiet, CheckWriter, ReadEof, FinishInitialize, DropNotification, JoinTasks, Exit,
     LoopInv, Current, HandledInline
<1>2. CASE ReadLine
  <2>1. PICK m \in Messages :
          /\ line' = Append(line, m)
          /\ main' = CASE m.kind = "junk" -> "refusing"
                       [] m.kind = "request" -> "registering"
                       [] m.kind = "notification" -> "notifying"
          /\ outcome' = IF m.kind = "junk" THEN [outcome EXCEPT ![Current + 1] = "invalid"]
                                           ELSE outcome
    BY <1>2 DEF ReadLine
  <2>0. /\ Current' = Current + 1 /\ Current + 1 \in Line /\ Current \in Nat
        /\ \A n \in 1 .. Current : line'[n] = line[n]
    BY <1>2, Reading, LineFacts DEF Current
  <2>15. Message' = m
    BY <2>0, <2>1 DEF Current, Message, TypeOK
  <2>2. pc' = pc /\ flag' = flag /\ main = "reading"
    BY <1>2 DEF ReadLine
  <2>3. \A n \in Line : pc[n] # "none" => n \in 1 .. Current
    BY LineFacts DEF LoopInv, Line
  <2>4. m.kind \in Kinds
    BY MessageAssumption
  <2>5. \A n \in Line : n > Current + 1 => outcome'[n] = outcome[n]
    BY <2>0, <2>1 DEF TypeOK, Line
  <2>6. outcome'[Current + 1] = IF m.kind = "junk" THEN "invalid" ELSE "none"
    BY <2>0, <2>1 DEF TypeOK, LoopInv, Line
  <2>7. pc[Current + 1] = "none"
    BY <2>0 DEF LoopInv, Line
  <2>8. \A n \in Line : n > Current' => pc'[n] = "none" /\ outcome'[n] = "none" /\ ~flag'[n]
    BY <2>0, <2>2, <2>5 DEF LoopInv, Line
  <2>9. \A n \in Line : pc'[n] # "none" => line'[n] = line[n] /\ pc'[n] = pc[n]
    BY <2>0, <2>2, <2>3
  <2>10. main' \in {"refusing", "registering", "notifying"}
    BY <2>1, <2>4 DEF Kinds
  <2>11. /\ main' = "registering" => m.kind = "request"
         /\ main' = "notifying" => m.kind = "notification"
         /\ main' = "refusing" => m.kind = "junk"
    BY <2>1, <2>4 DEF Kinds
  <2>12. \A n \in Line : pc[n] # "none" =>
           line[n].kind = "request" /\ (pc[n] = "ended" \/ ~HandledInline(line[n]))
             /\ (pc[n] = "working" => line[n].method = "call")
             /\ (pc[n] = "spawned" => ~HandledInline(line[n]))
    BY <2>2 DEF LoopInv
  <2>13. \A n \in Line : pc'[n] # "none" =>
           line'[n].kind = "request" /\ (pc'[n] = "ended" \/ ~HandledInline(line'[n]))
             /\ (pc'[n] = "working" => line'[n].method = "call")
             /\ (pc'[n] = "spawned" => ~HandledInline(line'[n]))
    BY <2>9, <2>12 DEF HandledInline
  <2>14. /\ pc'[Current'] = "none"
         /\ outcome'[Current'] = IF m.kind = "junk" THEN "invalid" ELSE "none"
    BY <2>0, <2>2, <2>6, <2>7
  <2> QED
    BY <2>0, <2>15, <2>8, <2>10, <2>11, <2>13, <2>14 DEF LoopInv
<1>7. main = "flagging" => target \in Line /\ target < Current
  BY DEF CancelInv
<1>3. CASE LoopMoves
  <2> USE LineFacts DEF TypeOK, LoopInv, Current, Message, HandledInline, Line
  <2>1. CASE Refuses
    <3>1. PICK o \in {"too_many", "duplicate"} : main = "registering" /\ Refuse(o)
      BY <2>1 DEF Refuses, RefuseCapacity, RefuseDuplicate
    <3>2. outcome'[Current] = o /\ \A n \in Line : n > Current => outcome'[n] = outcome[n]
      BY <3>1 DEF Refuse
    <3>3. pc' = pc /\ line' = line /\ flag' = flag /\ main' = "refusing"
      BY <3>1 DEF Refuse
    <3> QED BY <3>1, <3>2, <3>3
  <2>2. CASE SendRefusal
    BY <2>2 DEF SendRefusal
  <2>3. CASE Register
    <3>1. /\ pc'[Current] \in {"started", "spawned"}
          /\ pc'[Current] = "spawned" => ~HandledInline(Message)
          /\ main' = IF HandledInline(Message) THEN "initializing" ELSE "checking"
          /\ \A n \in Line \ {Current} : pc'[n] = pc[n]
      BY <2>3 DEF Register
    <3>2. line' = line /\ flag' = flag /\ outcome' = outcome /\ main = "registering"
      BY <2>3 DEF Register
    <3> QED BY <3>1, <3>2
  <2>4. CASE PinNotification
    BY <2>4 DEF PinNotification
  <2>5. CASE ApplyInitialized
    BY <2>5 DEF ApplyInitialized
  <2>6. CASE LookUpCancelled
    BY <2>6 DEF LookUpCancelled
  <2>7. CASE SetCancelFlag
    <3>0. target \in Line /\ target < Current
      BY <1>7, <2>7 DEF SetCancelFlag
    <3>2. \A n \in Line : n > Current => n # target
      BY <3>0
    <3>1. \A n \in Line : n > Current => flag'[n] = flag[n]
      BY ONLY TypeOK, <2>7, <3>2, ZenonT(20) DEF SetCancelFlag, TypeOK
    <3> QED BY <2>7, <3>1 DEF SetCancelFlag
  <2> QED BY <1>3, <2>1, <2>2, <2>3, <2>4, <2>5, <2>6, <2>7 DEF LoopMoves
<1>4. CASE WriterMoves
  BY <1>4 DEF WriterMoves, Write, WriteFails, WriterEnds, LoopInv, Current, Message, HandledInline
<1>5. ASSUME NEW n \in Line, Advances(n)
      PROVE  LoopInv'
  <2>1. (pc'[n] = "working" => line[n].method = "call")
        /\ (pc'[n] = "spawned" => ~HandledInline(line[n]))
    BY <1>5, Answering DEF Advances, Answer, Start, PinRequest, BeginCall, Complete, DropGuard,
       Send, RunDeferred, LoopInv, TypeOK
  <2>2. pc[n] # "none" => n \in 1 .. Current
    BY LineFacts DEF LoopInv, Line
  <2>3. /\ Current' = Current /\ Message' = Message
        /\ \A k \in Line : pc'[k] = "none" <=> pc[k] = "none"
        /\ \A k \in Line : pc[k] = "ended" => pc'[k] = "ended"
        /\ \A k \in Line : pc[k] = "none" => outcome'[k] = outcome[k]
    BY <1>5, RequestFrame DEF Current, Message
  <2>4. line' = line /\ main' = main
        /\ (pc[n] = "none" => flag' = flag)
        /\ \A k \in Line \ {n} : pc'[k] = pc[k] /\ flag'[k] = flag[k]
    BY <1>5, RequestFrame
  <2> QED BY <2>1, <2>2, <2>3, <2>4, LineFacts DEF LoopInv, HandledInline, Line
<1>6. CASE UNCHANGED vars
  BY <1>6 DEF vars, LoopInv, Current, Message, HandledInline
<1> QED BY <1>1, <1>2, <1>3, <1>4, <1>5, <1>6, Steps
-----------------------------------------------------------------------------
(* The registry. *)

(* As many ids are taken as requests are registered.                        *)
LEMMA InFlightIsRegistered ==
  ASSUME TypeOK, LoopInv, RegistryIsExact
  PROVE  /\ IsFiniteSet(Registered) /\ Cardinality(Registered) \in Nat
         /\ InFlight = Cardinality(Registered)
<1> DEFINE Taken == {i \in Ids : active[i] # NoLine}
           id    == [n \in Registered |-> line[n].id]
           entry == [i \in Taken |-> active[i]]
<1>1. IsFiniteSet(Registered)
  <2>1. IsFiniteSet(Line)
    BY FS_Interval, BoundAssumption DEF Line
  <2> QED BY <2>1, FS_Subset DEF Registered
<1>2. Cardinality(Registered) \in Nat
  BY <1>1, FS_CardinalityType
<1>3. \A n \in Registered : n \in 1 .. Current /\ line[n].id \in Ids /\ n # NoLine
  BY LineFacts DEF Registered, LoopInv, Line, NoLine
<1>4. id \in Injection(Registered, Taken)
  BY <1>3 DEF Injection, IsInjective, RegistryIsExact
<1>5. entry \in Injection(Taken, Registered)
  BY DEF Injection, IsInjective, RegistryIsExact
<1>6. IsFiniteSet(Taken) /\ Cardinality(Taken) <= Cardinality(Registered)
  BY <1>1, <1>5, FS_Injection
<1>7. Cardinality(Registered) <= Cardinality(Taken)
  BY <1>4, <1>6, FS_Injection
<1>8. Cardinality(Taken) \in Nat
  BY <1>6, FS_CardinalityType
<1> QED BY <1>1, <1>2, <1>6, <1>7, <1>8 DEF InFlight

(* Removing an entry takes away no other request's.                         *)
LEMMA RemovalIsExact ==
  ASSUME TypeOK, LoopInv, RegistryInv, NEW n \in Line, n \in 1 .. Current,
         active' = WithoutEntry(n), line' = line,
         n \notin Registered', Registered' = Registered \ {n}
  PROVE  RegistryIsExact'
<1>1. \A i \in Ids : active'[i] = IF i = line[n].id /\ active[i] = n THEN NoLine ELSE active[i]
  BY DEF WithoutEntry, TypeOK
<1>2. \A m \in Registered : m \in 1 .. Current /\ line[m].id \in Ids
  BY LineFacts DEF Registered, LoopInv, Line
<1>3. Cardinality(Registered') <= Cardinality(Registered) /\ Cardinality(Registered') \in Nat
  BY InFlightIsRegistered, FS_Subset, FS_CardinalityType DEF RegistryInv
<1>4. \A m \in Registered' : active'[line'[m].id] = m
  BY <1>1, <1>2 DEF RegistryInv, RegistryIsExact
<1>5. \A i \in Ids : active'[i] # NoLine => active'[i] \in Registered' /\ line'[active'[i]].id = i
  BY <1>1 DEF RegistryInv, RegistryIsExact
<1>6. Cardinality(Registered') <= MaxInFlight
  BY <1>3, InFlightIsRegistered, BoundAssumption DEF RegistryInv, RegistryIsExact
<1> QED BY <1>4, <1>5, <1>6 DEF RegistryIsExact

(* Where neither the registry nor the registered requests change.           *)
LEMMA RegistryStays ==
  ASSUME TypeOK, LoopInv, RegistryIsExact, active' = active, Registered' = Registered,
         \A n \in 1 .. Current : line'[n] = line[n]
  PROVE  RegistryIsExact'
<1>1. \A n \in Registered : n \in 1 .. Current
  BY LineFacts DEF Registered, LoopInv, Line
<1> QED BY <1>1 DEF RegistryIsExact

LEMMA RegistryStepKeeps ==
  ASSUME TypeOK, LoopInv, RegistryInv, [Next]_vars
  PROVE  RegistryInv'
<1>1. CASE UNCHANGED <<active, deferred, pc>> /\ \A n \in 1 .. Current : line'[n] = line[n]
  <2>1. Registered' = Registered
    BY <1>1 DEF Registered
  <2> QED BY <1>1, <2>1, RegistryStays DEF RegistryInv
<1>2. CASE Quiet \/ WriterMoves \/ UNCHANGED vars
  BY <1>1, <1>2 DEF Quiet, CheckWriter, ReadEof, FinishInitialize, DropNotification, JoinTasks,
     Exit, WriterMoves, Write, WriteFails, WriterEnds, vars, registry
<1>3. CASE ReadLine
  BY <1>1, <1>3, Reading DEF ReadLine, registry
<1>4. CASE LoopMoves
  <2>1. CASE Register
    <3>1. /\ Current \in Line /\ pc[Current] = "none" /\ Current \in 1 .. Current
          /\ Message.id \in Ids
      BY <2>1, LineFacts DEF Register, LoopInv, Line, Message
    <3>2. Registered' = Registered \cup {Current} /\ Current \notin Registered
      BY <2>1, <3>1 DEF Register, Registered, TypeOK
    <3>3. active' = [active EXCEPT ![line[Current].id] = Current] /\ line' = line
          /\ active[line[Current].id] = NoLine
      BY <2>1 DEF Register, Message
    <3>4. Cardinality(Registered') <= MaxInFlight
      <4>1. Cardinality(Registered') = Cardinality(Registered) + 1
        BY <3>2, InFlightIsRegistered, FS_AddElement DEF RegistryInv
      <4>2. Cardinality(Registered) < MaxInFlight
        BY <2>1, InFlightIsRegistered DEF Register, RegistryInv
      <4> QED BY <4>1, <4>2, InFlightIsRegistered, BoundAssumption DEF RegistryInv
    <3>5. \A n \in Registered' : active'[line'[n].id] = n
      <4>1. \A n \in Registered : n \in 1 .. Current /\ line[n].id \in Ids /\ n # NoLine
        BY LineFacts DEF Registered, LoopInv, Line, NoLine
      <4> QED BY <4>1, <3>1, <3>2, <3>3 DEF RegistryInv, RegistryIsExact, TypeOK, Message
    <3>6. \A i \in Ids : active'[i] # NoLine => active'[i] \in Registered'
                                               /\ line'[active'[i]].id = i
      BY <3>2, <3>3 DEF RegistryInv, RegistryIsExact, TypeOK
    <3>7. deferred' = deferred /\ \A n \in deferred : n # Current /\ pc'[n] = pc[n]
      BY <2>1, <3>1 DEF Register, RegistryInv, TypeOK
    <3> QED BY <3>4, <3>5, <3>6, <3>7 DEF RegistryInv, RegistryIsExact
  <2> QED
    BY <1>1, <1>4, <2>1 DEF LoopMoves, Refuses, RefuseCapacity, RefuseDuplicate, Refuse,
       SendRefusal, PinNotification, ApplyInitialized, LookUpCancelled, SetCancelFlag, registry
<1>5. ASSUME NEW n \in Line, Advances(n)
      PROVE  RegistryInv'
  <2>0. pc[n] # "none" => n \in 1 .. Current
    BY LineFacts DEF LoopInv, Line
  <2>1. CASE Answers(n) \/ Start(n) \/ PinRequest(n) \/ BeginCall(n) \/ Send(n)
    <3>1. active' = active /\ deferred' = deferred /\ line' = line
      BY <2>1, Answering DEF Answer, Start, PinRequest, BeginCall, Send, registry
    <3>2. Registered' = Registered /\ \A k \in deferred : pc'[k] \in {"sending", "ended"}
      BY <2>1, Answering DEF Answer, Start, PinRequest, BeginCall, Send, Registered, TypeOK,
         RegistryInv
    <3> QED BY <3>1, <3>2, RegistryStays DEF RegistryInv
  <2>2. CASE Complete(n)
    <3>1. Registered' = Registered \ {n} /\ line' = line /\ active' = WithoutEntry(n)
          /\ pc[n] # "none"
      BY <2>2 DEF Complete, Registered, TypeOK
    <3>2. \A k \in deferred : pc'[k] = pc[k]
      BY <2>2 DEF Complete, RegistryInv, TypeOK
    <3> QED BY <2>0, <2>2, <3>1, <3>2, RemovalIsExact DEF Complete, RegistryInv
  <2>3. CASE DropGuard(n)
    <3>1. Registered' = Registered /\ n \notin Registered /\ line' = line /\ pc[n] # "none"
      BY <2>3 DEF DropGuard, Registered, TypeOK
    <3>2. deferred' \in {deferred, deferred \cup {n}}
          /\ \A k \in deferred' : pc'[k] \in {"sending", "ended"}
      BY <2>3 DEF DropGuard, RegistryInv, TypeOK
    <3>3. RegistryIsExact'
      BY <2>0, <2>3, <3>1, RemovalIsExact, RegistryStays DEF DropGuard, RegistryInv
    <3> QED BY <3>2, <3>3 DEF RegistryInv
  <2>4. CASE RunDeferred(n)
    <3>1. pc[n] \in {"sending", "ended"} /\ n \notin Registered /\ pc' = pc /\ line' = line
      BY <2>4 DEF RunDeferred, RegistryInv, Registered
    <3>2. Registered' = Registered
      BY <3>1 DEF Registered
    <3> QED BY <2>0, <2>4, <3>1, <3>2, RemovalIsExact DEF RunDeferred, RegistryInv
  <2> QED BY <1>5, <2>1, <2>2, <2>3, <2>4 DEF Advances
<1> QED BY <1>2, <1>3, <1>4, <1>5, Steps
-----------------------------------------------------------------------------
(* The metric of active requests. *)

LEMMA GaugeStepKeeps ==
  ASSUME TypeOK, LoopInv, GaugeInv, [Next]_vars
  PROVE  GaugeInv'
<1>0. \A n \in Line : pc[n] # "none" => n \in 1 .. Current
  BY LineFacts DEF LoopInv, Line
<1>1. ASSUME gauge' = gauge, \A n \in 1 .. Current : line'[n] = line[n],
             \A n \in Line : pc'[n] \in HasTask <=> pc[n] \in HasTask
      PROVE  GaugeInv'
  <2>1. Counted' = Counted
    BY <1>0, <1>1 DEF Counted, HandledInline, HasTask
  <2> QED BY <1>1, <2>1 DEF GaugeInv
<1>2. CASE Quiet \/ WriterMoves \/ UNCHANGED vars
  BY <1>1, <1>2 DEF Quiet, CheckWriter, ReadEof, FinishInitialize, DropNotification, JoinTasks,
     Exit, WriterMoves, Write, WriteFails, WriterEnds, vars
<1>3. CASE ReadLine
  BY <1>1, <1>3, Reading DEF ReadLine
<1>4. CASE Register
  <2>1. /\ Current \in Line /\ pc[Current] = "none" /\ line' = line /\ gauge' = gauge
        /\ \A n \in Line \ {Current} : pc'[n] = pc[n]
        /\ pc'[Current] \in HasTask => HandledInline(line[Current])
    BY <1>4 DEF Register, LoopInv, Message, TypeOK, HasTask
  <2>2. Counted' = Counted
    BY <2>1 DEF Counted, HasTask
  <2> QED BY <2>1, <2>2 DEF GaugeInv
<1>5. CASE LoopMoves /\ ~Register
  BY <1>1, <1>5 DEF LoopMoves, Refuses, RefuseCapacity, RefuseDuplicate, Refuse,
     SendRefusal, PinNotification, ApplyInitialized, LookUpCancelled, SetCancelFlag
<1>6. ASSUME NEW n \in Line, Advances(n)
      PROVE  GaugeInv'
  <2>1. CASE Start(n)
    <3>1. /\ pc[n] = "spawned" /\ line' = line /\ gauge' = gauge + 1 /\ pc'[n] = "started"
          /\ \A k \in Line \ {n} : pc'[k] = pc[k]
      BY <2>1 DEF Start, TypeOK
    <3>2. ~HandledInline(line[n])
      BY <3>1 DEF LoopInv
    <3>3. Counted' = Counted \cup {n} /\ n \notin Counted
      BY <3>1, <3>2 DEF Counted, HasTask
    <3> QED BY <3>1, <3>3, CountFacts, FS_AddElement DEF GaugeInv
  <2>2. CASE Send(n)
    <3>1. /\ pc[n] = "sending" /\ line' = line /\ pc'[n] = "ended"
          /\ gauge' = IF HandledInline(line[n]) THEN gauge ELSE gauge - 1
          /\ \A k \in Line \ {n} : pc'[k] = pc[k]
      BY <2>2 DEF Send, TypeOK
    <3>2. Counted' = Counted \ {n} /\ (n \in Counted <=> ~HandledInline(line[n]))
      BY <3>1 DEF Counted, HasTask
    <3> QED BY <3>1, <3>2, CountFacts, FS_RemoveElement DEF GaugeInv
  <2>3. CASE Answers(n) \/ PinRequest(n) \/ BeginCall(n) \/ Complete(n) \/ DropGuard(n)
             \/ RunDeferred(n)
    <3>1. line' = line /\ gauge' = gauge
      BY <2>3, Answering DEF Answer, PinRequest, BeginCall, Complete, DropGuard, RunDeferred
    <3>2. \A k \in Line : pc'[k] \in HasTask <=> pc[k] \in HasTask
      BY <2>3, Answering DEF Answer, PinRequest, BeginCall, Complete, DropGuard, RunDeferred,
         TypeOK, HasTask
    <3> QED BY <3>1, <3>2, <1>1
  <2> QED BY <1>6, <2>1, <2>2, <2>3 DEF Advances
<1> QED BY <1>2, <1>3, <1>4, <1>5, <1>6, Steps
-----------------------------------------------------------------------------
(* Answers: an answer once sent is never sent again.                        *)

LEMMA EmittedStays ==
  ASSUME TypeOK, LoopInv, [Next]_vars, NEW n \in Line, Emitted(n)
  PROVE  Emitted(n)'
<1>1. CASE Quiet
  BY <1>1 DEF Quiet, CheckWriter, ReadEof, FinishInitialize, DropNotification, JoinTasks, Exit,
     Emitted, Current
<1>2. CASE ReadLine
  <2>1. Current' = Current + 1 /\ pc' = pc /\ n # Current + 1 /\ Current \in Nat
    BY <1>2, Reading, LineFacts DEF Current, ReadLine, LoopInv, Emitted, Line
  <2>2. outcome'[n] = outcome[n]
    BY <1>2, <2>1 DEF ReadLine, TypeOK
  <2> QED BY <2>1, <2>2 DEF Emitted
<1>3. CASE LoopMoves
  <2>1. CASE Refuses
    <3>1. n # Current /\ pc' = pc /\ Current' = Current
      BY <2>1 DEF Refuses, RefuseCapacity, RefuseDuplicate, Refuse, LoopInv, Emitted, Current
    <3>2. outcome'[n] = outcome[n]
      BY <2>1, <3>1 DEF Refuses, RefuseCapacity, RefuseDuplicate, Refuse, TypeOK
    <3> QED BY <3>1, <3>2 DEF Emitted
  <2>2. CASE Register
    <3>1. n # Current /\ outcome' = outcome /\ Current' = Current
      BY <2>2 DEF Register, LoopInv, Emitted, Current
    <3>2. pc'[n] = pc[n]
      BY <2>2, <3>1 DEF Register, TypeOK
    <3> QED BY <3>1, <3>2 DEF Emitted
  <2> QED
    BY <1>3, <2>1, <2>2 DEF LoopMoves, SendRefusal, PinNotification, ApplyInitialized,
       LookUpCancelled, SetCancelFlag, Emitted, Current
<1>4. CASE WriterMoves \/ UNCHANGED vars
  BY <1>4 DEF WriterMoves, Write, WriteFails, WriterEnds, Emitted, vars, Current
<1>5. ASSUME NEW m \in Line, Advances(m)
      PROVE  Emitted(n)'
  BY <1>5, RequestFrame DEF Emitted, Current
<1> QED BY <1>1, <1>2, <1>3, <1>4, <1>5, Steps

(* Sending the answer of a line that had none yet. *)
LEMMA EmitKeeps ==
  ASSUME TypeOK, LoopInv, AnswerInv, [Next]_vars, NEW n \in Line,
         Emit(n), ~Emitted(n), Emitted(n)'
  PROVE  AnswerInv'
<1>1. stdout' = stdout /\ stdout[n] = 0 /\ \A a \in DOMAIN out : out[a] # n
  BY DEF Emit, AnswerInv
<1>2. \A k \in Line : Emitted(k) => Emitted(k)'
  BY EmittedStays
<1>3. \A a \in DOMAIN out : out[a] \in Line
  BY DEF TypeOK
<1>4. CASE out' = out
  BY <1>1, <1>2, <1>3, <1>4 DEF AnswerInv
<1>5. CASE out' = Append(out, n)
  <2>1. /\ DOMAIN out' = 1 .. Len(out) + 1 /\ DOMAIN out = 1 .. Len(out) /\ Len(out) \in Nat
        /\ \A a \in 1 .. Len(out) : out'[a] = out[a]
        /\ out'[Len(out) + 1] = n
    BY <1>5 DEF TypeOK
  <2>2. \A a \in DOMAIN out' : a \in DOMAIN out \/ a = Len(out) + 1
    BY <2>1
  <2> QED BY <1>1, <1>2, <1>3, <2>1, <2>2 DEF AnswerInv
<1> QED BY <1>4, <1>5 DEF Emit

LEMMA AnswerStepKeeps ==
  ASSUME TypeOK, LoopInv, AnswerInv, [Next]_vars
  PROVE  AnswerInv'
<1>1. \A k \in Line : Emitted(k) => Emitted(k)'
  BY EmittedStays
<1>2. \A a \in DOMAIN out : out[a] \in Line
  BY DEF TypeOK
<1>3. CASE UNCHANGED <<out, stdout>>
  BY <1>1, <1>2, <1>3 DEF AnswerInv
<1>4. CASE SendRefusal
  <2>1. /\ Current \in Line /\ ~Emitted(Current) /\ Current' = Current /\ pc' = pc
        /\ outcome' = outcome /\ main' = "checking" /\ Emit(Current)
        /\ pc[Current] = "none" /\ outcome[Current] # "none"
    BY <1>4 DEF SendRefusal, LoopInv, Emitted, Current
  <2>2. Emitted(Current)'
    BY <2>1 DEF Emitted
  <2>3. PICK n \in Line : n = Current
    BY <2>1
  <2>4. Emitted(n)'
    BY <2>1, <2>3 DEF Emitted
  <2> QED BY <2>1, <2>3, <2>4, EmitKeeps
<1>5. ASSUME NEW n \in Line, Send(n)
      PROVE  AnswerInv'
  BY <1>5, EmitKeeps DEF Send, Emitted, TypeOK
<1>6. CASE Write
  <2>1. /\ out # <<>> /\ out' = Tail(out) /\ stdout' = [stdout EXCEPT ![Head(out)] = @ + 1]
        /\ out \in Seq(Line)
    BY <1>6 DEF Write, TypeOK
  <2>2. /\ Len(out) \in Nat /\ Len(out) > 0 /\ Head(out) = out[1] /\ DOMAIN out = 1 .. Len(out)
        /\ DOMAIN out' = 1 .. Len(out) - 1
        /\ \A a \in 1 .. Len(out) - 1 : out'[a] = out[a + 1]
    BY <2>1, HeadTailProperties, LenProperties
  <2>3. \A a \in DOMAIN out' : a + 1 \in DOMAIN out /\ a + 1 # 1 /\ out'[a] = out[a + 1]
    BY <2>2
  <2>4. stdout[out[1]] = 0 /\ Emitted(out[1]) /\ out[1] \in Line
        /\ \A a \in DOMAIN out' : out[a + 1] # out[1]
    BY <1>2, <2>2, <2>3 DEF AnswerInv
  <2>5. /\ stdout'[out[1]] = 1
        /\ \A n \in Line \ {out[1]} : stdout'[n] = stdout[n]
    BY <2>1, <2>2, <2>4 DEF TypeOK
  <2>6. \A a, b \in DOMAIN out' : out'[a] = out'[b] => a = b
    <3>1. \A a, b \in DOMAIN out' : out'[a] = out'[b] => a + 1 = b + 1
      BY <2>3 DEF AnswerInv
    <3> QED BY <2>2, <3>1
  <2>7. (\A a \in DOMAIN out : stdout[out[a]] = 0 /\ Emitted(out[a]))'
    <3>1. \A a \in DOMAIN out' : out'[a] \in Line \ {out[1]}
      BY <1>2, <2>3, <2>4
    <3>2. \A a \in DOMAIN out' : stdout[out'[a]] = 0 /\ Emitted(out'[a])
      BY <2>3 DEF AnswerInv
    <3> QED BY <1>1, <2>5, <3>1, <3>2
  <2>8. \A n \in Line : stdout'[n] \in {0, 1} /\ (stdout'[n] = 1 => Emitted(n)')
    BY <1>1, <2>4, <2>5 DEF AnswerInv
  <2> QED BY <2>6, <2>7, <2>8 DEF AnswerInv
<1>7. CASE WriteFails
  BY <1>1, <1>7 DEF WriteFails, AnswerInv
<1>8. CASE Quiet \/ ReadLine \/ WriterEnds \/ UNCHANGED vars \/ (LoopMoves /\ ~SendRefusal)
  BY <1>3, <1>8 DEF Quiet, CheckWriter, ReadEof, FinishInitialize, DropNotification, JoinTasks,
     Exit, ReadLine, WriterEnds, vars, LoopMoves, Refuses, RefuseCapacity, RefuseDuplicate, Refuse,
     Register, PinNotification, ApplyInitialized, LookUpCancelled, SetCancelFlag, channel
<1>9. ASSUME NEW n \in Line, Advances(n), ~Send(n)
      PROVE  AnswerInv'
  BY <1>3, <1>9, Answering DEF Advances, Answer, Start, PinRequest, BeginCall, Complete,
     DropGuard, RunDeferred, channel
<1> QED BY <1>4, <1>5, <1>6, <1>7, <1>8, <1>9, Steps DEF WriterMoves

(* A line counts as answered by no other step than the sending of it.       *)
LEMMA OnlySendingEmits ==
  ASSUME TypeOK, LoopInv, [Next]_vars, NEW n \in Line, Emitted(n)', ~Emitted(n)
  PROVE  Send(n) \/ (SendRefusal /\ n = Current)
<1>1. ~Quiet
  <2>1. ASSUME Quiet PROVE main # "refusing" /\ pc' = pc /\ outcome' = outcome
    BY <2>1 DEF Quiet, CheckWriter, ReadEof, FinishInitialize, DropNotification, JoinTasks, Exit
  <2> QED BY <2>1 DEF Emitted
<1>2. ~ReadLine
  <2> SUFFICES ASSUME ReadLine PROVE FALSE
    OBVIOUS
  <2>1. PICK m \in Messages :
          /\ main' = CASE m.kind = "junk" -> "refusing"
                       [] m.kind = "request" -> "registering"
                       [] m.kind = "notification" -> "notifying"
          /\ outcome' = IF m.kind = "junk" THEN [outcome EXCEPT ![Current + 1] = "invalid"]
                                           ELSE outcome
    BY DEF ReadLine
  <2>2. Current' = Current + 1 /\ pc' = pc /\ main = "reading"
    BY Reading DEF Current, ReadLine
  <2>3. n # Current + 1 => outcome'[n] = outcome[n]
    BY <2>1 DEF TypeOK
  <2>4. n = Current + 1 => outcome[n] = "none" /\ (outcome'[n] # "none" => main' = "refusing")
    BY <2>1, LineFacts DEF TypeOK, LoopInv
  <2> QED BY <2>2, <2>3, <2>4 DEF Emitted
<1>3. LoopMoves => SendRefusal /\ n = Current
  <2>1. ~Refuses
    <3> SUFFICES ASSUME Refuses PROVE FALSE
      OBVIOUS
    <3>1. pc' = pc /\ Current' = Current /\ main = "registering" /\ main' = "refusing"
      BY DEF Refuses, RefuseCapacity, RefuseDuplicate, Refuse, Current
    <3>2. n # Current => outcome'[n] = outcome[n]
      BY DEF Refuses, RefuseCapacity, RefuseDuplicate, Refuse, TypeOK
    <3> QED BY <3>1, <3>2 DEF Emitted
  <2>2. ~Register
    <3> SUFFICES ASSUME Register PROVE FALSE
      OBVIOUS
    <3>1. outcome' = outcome /\ main = "registering"
      BY DEF Register
    <3>2. n # Current => pc'[n] = pc[n]
      BY DEF Register, TypeOK
    <3>3. n = Current => pc'[n] \in {"started", "spawned"}
      BY DEF Register, TypeOK
    <3> QED BY <3>1, <3>2, <3>3 DEF Emitted
  <2>3. ASSUME SendRefusal PROVE n = Current
    BY <2>3 DEF SendRefusal, Emitted, Current
  <2>4. ~(PinNotification \/ ApplyInitialized \/ LookUpCancelled \/ SetCancelFlag)
    BY DEF PinNotification, ApplyInitialized, LookUpCancelled, SetCancelFlag, Emitted
  <2> QED BY <2>1, <2>2, <2>3, <2>4 DEF LoopMoves
<1>4. ~(WriterMoves \/ UNCHANGED vars)
  BY DEF WriterMoves, Write, WriteFails, WriterEnds, Emitted, vars, Current
<1>5. ASSUME NEW m \in Line, Advances(m)
      PROVE  Send(n)
  <2>1. m = n
    BY <1>5, RequestFrame DEF Emitted, Current
  <2>2. pc[n] \notin {"none", "ended"} /\ pc'[n] = "ended"
    BY <1>5, <2>1, RequestFrame DEF Emitted, Current
  <2>3. ~Answers(n)
    BY <2>1, <2>2, Answering DEF Answer, TypeOK
  <2> QED BY <1>5, <2>1, <2>2, <2>3 DEF Advances, Start, PinRequest, BeginCall, Complete,
          DropGuard, RunDeferred, TypeOK
<1> QED BY <1>1, <1>2, <1>3, <1>4, <1>5, Steps

LEMMA ShutdownStepKeeps ==
  ASSUME TypeOK, LoopInv, ShutdownInv, [Next]_vars
  PROVE  ShutdownInv'
<1>1. CASE JoinTasks
  BY <1>1 DEF JoinTasks, ShutdownInv, TypeOK, channel
<1>2. CASE Quiet /\ ~JoinTasks
  BY <1>2 DEF Quiet, CheckWriter, ReadEof, FinishInitialize, DropNotification, Exit,
     ShutdownInv, TypeOK, channel
<1>3. CASE ReadLine
  <2>1. main' \in {"refusing", "registering", "notifying"}
    BY <1>3, MessageAssumption DEF ReadLine, Kinds
  <2> QED BY <1>3, <2>1 DEF ReadLine, ShutdownInv, channel
<1>4. CASE SendRefusal
  BY <1>4 DEF SendRefusal, Emit, ShutdownInv
<1>5. CASE LoopMoves /\ ~SendRefusal
  <2>1. main \notin {"draining", "exited"} /\ main' \notin {"draining", "exited"}
        /\ out' = out /\ writer' = writer
    BY <1>5 DEF LoopMoves, Refuses, RefuseCapacity, RefuseDuplicate, Refuse, Register,
       PinNotification, ApplyInitialized, LookUpCancelled, SetCancelFlag, channel
  <2> QED BY <2>1 DEF ShutdownInv
<1>6. CASE WriterMoves \/ UNCHANGED vars
  BY <1>6 DEF WriterMoves, Write, WriteFails, WriterEnds, ShutdownInv, SendersGone, vars, channel
<1>7. ASSUME NEW n \in Line, Advances(n)
      PROVE  ShutdownInv'
  <2>1. main' = main /\ (main \in {"draining", "exited"} => pc' = pc)
    BY <1>7, RequestFrame DEF ShutdownInv
  <2>2. writer' = writer /\ (out' = out \/ Send(n))
    BY <1>7, Answering DEF Advances, Answer, Start, PinRequest, BeginCall, Complete, DropGuard,
       Send, Emit, RunDeferred, channel
  <2>3. ASSUME Send(n)
        PROVE  (writer = "failed" => out' = out) /\ main \notin {"draining", "exited"}
    BY <2>3 DEF Send, Emit, ShutdownInv
  <2> QED BY <2>1, <2>2, <2>3 DEF ShutdownInv
<1> QED BY <1>1, <1>2, <1>3, <1>4, <1>5, <1>6, <1>7, Steps

LEMMA StartedIsWanted ==
  ASSUME TypeOK, LoopInv, NEW n \in Line, pc[n] # "none"
  PROVE  Wants(n)
<1>1. Current \in Nat /\ n \in Nat
  BY LineFacts, BoundAssumption DEF Line
<1>2. n <= Current /\ line[n].kind = "request"
  BY <1>1 DEF LoopInv
<1> QED BY <1>2 DEF Wants, Current

LEMMA WantedStepKeeps ==
  ASSUME TypeOK, LoopInv, WantedInv, [Next]_vars
  PROVE  WantedInv'
<1>1. \A n \in Line : Emitted(n) => Emitted(n)'
  BY EmittedStays
<1>2. ASSUME line' = line, outcome' = outcome,
             \A n \in Line : pc[n] # "none" => pc'[n] # "none",
             main \in {"refusing", "registering"} => main' = main
      PROVE  WantedInv'
  BY <1>1, <1>2 DEF WantedInv, Wants, Current
<1>3. CASE SendRefusal
  <2>1. Emitted(Current)' /\ Current' = Current
    BY <1>3 DEF SendRefusal, LoopInv, Emitted, Current
  <2> QED BY <1>1, <1>3, <2>1 DEF SendRefusal, WantedInv, Wants, Current
<1>4. CASE ReadLine
  <2>1. PICK m \in Messages :
          /\ line' = Append(line, m)
          /\ main' = CASE m.kind = "junk" -> "refusing"
                       [] m.kind = "request" -> "registering"
                       [] m.kind = "notification" -> "notifying"
          /\ outcome' = IF m.kind = "junk" THEN [outcome EXCEPT ![Current + 1] = "invalid"]
                                           ELSE outcome
    BY <1>4 DEF ReadLine
  <2>2. /\ Current' = Current + 1 /\ Current \in Nat /\ main = "reading" /\ pc' = pc
        /\ m.kind \in Kinds /\ line'[Current + 1] = m
        /\ \A n \in 1 .. Current : line'[n] = line[n]
    BY <1>4, <2>1, Reading, LineFacts, MessageAssumption DEF Current, ReadLine, TypeOK
  <2>3. ASSUME NEW n \in Line, n # Current + 1
        PROVE  outcome'[n] = outcome[n] /\ (Wants(n)' <=> Wants(n))
    BY <2>1, <2>2, <2>3 DEF TypeOK, Wants, Current, Line
  <2>4. Current + 1 \in Line => outcome[Current + 1] = "none"
    BY <2>2 DEF LoopInv
  <2>5. ASSUME NEW n \in Line, n = Current + 1
        PROVE  /\ outcome'[n] # "none" => Wants(n)'
               /\ Wants(n)' => main' \in {"refusing", "registering"}
    BY <2>1, <2>2, <2>4, <2>5 DEF Wants, Current, Kinds
  <2> QED BY <1>1, <2>2, <2>3, <2>5 DEF WantedInv
<1>5. CASE Refuses
  <2>1. /\ main = "registering" /\ main' = "refusing" /\ pc' = pc /\ line' = line
        /\ \A n \in Line : outcome'[n] # outcome[n] => n = Current
    BY <1>5 DEF Refuses, RefuseCapacity, RefuseDuplicate, Refuse, TypeOK
  <2>2. Wants(Current)
    BY <2>1, LineFacts DEF LoopInv, Wants, Message, Current
  <2> QED BY <1>1, <2>1, <2>2 DEF WantedInv, Wants, Current
<1>6. CASE Register
  <2>1. /\ line' = line /\ outcome' = outcome /\ Current \in Line /\ pc'[Current] # "none"
        /\ \A n \in Line \ {Current} : pc'[n] = pc[n]
    BY <1>6 DEF Register, LoopInv, TypeOK
  <2> QED BY <1>1, <1>6, <2>1 DEF WantedInv, Wants, Current
<1>7. CASE PinNotification \/ ApplyInitialized \/ LookUpCancelled \/ SetCancelFlag
  BY <1>2, <1>7 DEF PinNotification, ApplyInitialized, LookUpCancelled, SetCancelFlag
<1>8. CASE Quiet \/ WriterMoves \/ UNCHANGED vars
  BY <1>2, <1>8 DEF Quiet, CheckWriter, ReadEof, FinishInitialize, DropNotification, JoinTasks,
     Exit, WriterMoves, Write, WriteFails, WriterEnds, vars
<1>9. ASSUME NEW n \in Line, Advances(n)
      PROVE  WantedInv'
  <2>1. /\ line' = line /\ main' = main
        /\ \A k \in Line : pc[k] # "none" => pc'[k] # "none"
        /\ \A k \in Line : outcome'[k] = outcome[k] \/ pc[k] # "none"
    BY <1>9, RequestFrame
  <2>2. \A k \in Line : pc[k] # "none" => Wants(k)
    BY StartedIsWanted
  <2> QED BY <1>1, <2>1, <2>2 DEF WantedInv, Wants, Current
<1> QED BY <1>3, <1>4, <1>5, <1>6, <1>7, <1>8, <1>9, Steps DEF LoopMoves

LEMMA DeliveredStepKeeps ==
  ASSUME TypeOK, LoopInv, AnswerInv, DeliveredInv, [Next]_vars
  PROVE  DeliveredInv'
<1> SUFFICES ASSUME writer' # "failed", NEW n \in Line, Emitted(n)'
             PROVE  stdout'[n] = 1 \/ \E a \in DOMAIN out' : out'[a] = n
  BY DEF DeliveredInv
<1>1. writer # "failed"
  <2>1. writer' = writer \/ WriteFails \/ WriterEnds
    BY Steps, Answering DEF Quiet, CheckWriter, ReadEof, FinishInitialize, DropNotification,
       JoinTasks, Exit, LoopMoves, Refuses, RefuseCapacity, RefuseDuplicate, Refuse, SendRefusal,
       Register, PinNotification, ApplyInitialized, LookUpCancelled, SetCancelFlag, Emit, ReadLine,
       WriterMoves, Write, vars, channel, Advances, Answer, Start, PinRequest, BeginCall,
       Complete, DropGuard, Send, RunDeferred
  <2> QED BY <2>1 DEF WriteFails, WriterEnds
<1>2. ASSUME NEW m \in Line, Emit(m)
      PROVE  /\ stdout' = stdout /\ \E a \in DOMAIN out' : out'[a] = m
             /\ \A a \in DOMAIN out : a \in DOMAIN out' /\ out'[a] = out[a]
  <2>1. out' = Append(out, m) /\ stdout' = stdout
    BY <1>1, <1>2 DEF Emit
  <2>2. /\ DOMAIN out' = 1 .. Len(out) + 1 /\ DOMAIN out = 1 .. Len(out) /\ Len(out) \in Nat
        /\ \A a \in 1 .. Len(out) : out'[a] = out[a]
        /\ out'[Len(out) + 1] = m
    BY <2>1 DEF TypeOK
  <2> QED BY <2>1, <2>2
<1>3. CASE ~Emitted(n)
  <2>1. Emit(n)
    BY <1>3, OnlySendingEmits DEF Send, SendRefusal
  <2> QED BY <1>2, <2>1
<1>4. CASE Emitted(n)
  <2>1. stdout[n] = 1 \/ \E a \in DOMAIN out : out[a] = n
    BY <1>1, <1>4 DEF DeliveredInv
  <2>2. CASE SendRefusal
    BY <1>2, <2>1, <2>2 DEF SendRefusal, LoopInv
  <2>3. CASE \E m \in Line : Send(m)
    BY <1>2, <2>1, <2>3 DEF Send
  <2>4. CASE Write
    <3>1. /\ out # <<>> /\ out' = Tail(out) /\ stdout' = [stdout EXCEPT ![Head(out)] = @ + 1]
          /\ out \in Seq(Line)
      BY <2>4 DEF Write, TypeOK
    <3>2. /\ Len(out) \in Nat /\ Len(out) > 0 /\ Head(out) = out[1] /\ DOMAIN out = 1 .. Len(out)
          /\ DOMAIN out' = 1 .. Len(out) - 1
          /\ \A a \in 1 .. Len(out) - 1 : out'[a] = out[a + 1]
      BY <3>1, HeadTailProperties, LenProperties
    <3>3. stdout[out[1]] = 0 /\ out[1] \in Line
      BY <3>2 DEF AnswerInv, TypeOK
    <3>4. CASE n = out[1]
      BY <3>1, <3>2, <3>3, <3>4 DEF TypeOK
    <3>5. CASE n # out[1]
      <4>1. stdout'[n] = stdout[n]
        BY <3>1, <3>2, <3>5 DEF TypeOK
      <4>2. ASSUME NEW a \in DOMAIN out, out[a] = n
            PROVE  a - 1 \in DOMAIN out' /\ out'[a - 1] = n
        <5>1. a # 1 /\ a \in 1 .. Len(out)
          BY <3>2, <3>5, <4>2
        <5>2. a - 1 \in 1 .. Len(out) - 1 /\ (a - 1) + 1 = a
          BY <3>2, <5>1
        <5> QED BY <3>2, <4>2, <5>2
      <4> QED BY <2>1, <4>1, <4>2
    <3> QED BY <3>4, <3>5
  <2>5. CASE UNCHANGED <<out, stdout>>
    BY <2>1, <2>5
  <2> QED
    BY <1>1, <2>2, <2>3, <2>4, <2>5, Steps, Answering DEF Quiet, CheckWriter, ReadEof,
       FinishInitialize, DropNotification, JoinTasks, Exit, LoopMoves, Refuses, RefuseCapacity,
       RefuseDuplicate, Refuse, Register, PinNotification, ApplyInitialized, LookUpCancelled,
       SetCancelFlag, ReadLine, WriterMoves, WriteFails, WriterEnds, vars, channel, Advances,
       Answer, Start, PinRequest, BeginCall, Complete, DropGuard, RunDeferred
<1> QED BY <1>3, <1>4
-----------------------------------------------------------------------------
(* The era. *)

(* An era once pinned stays. *)
LEMMA EraStays ==
  ASSUME TypeOK, [Next]_vars
  PROVE  /\ era # "undecided" => era' = era
         /\ era' # era => PinNotification \/ \E n \in Line : PinRequest(n)
<1>1. CASE PinNotification
  BY <1>1 DEF PinNotification, Admits
<1>2. ASSUME NEW n \in Line, Advances(n)
      PROVE  /\ era # "undecided" => era' = era
             /\ era' # era => PinRequest(n)
  BY <1>2, Answering DEF Advances, Start, PinRequest, BeginCall, Complete, DropGuard, Send,
     RunDeferred, Admits
<1> QED
  BY <1>1, <1>2, Steps DEF Quiet, CheckWriter, ReadEof, FinishInitialize, DropNotification,
     JoinTasks, Exit, ReadLine, WriterMoves, Write, WriteFails, WriterEnds, vars, LoopMoves,
     Refuses, RefuseCapacity, RefuseDuplicate, Refuse, SendRefusal, Register, ApplyInitialized,
     LookUpCancelled, SetCancelFlag

(* Before an era is pinned no request is past the edge. *)
LEMMA NothingServedUndecided ==
  ASSUME TypeOK, LoopInv, EraInv, era = "undecided"
  PROVE  /\ \A n \in Line : n \notin Served /\ pc[n] \notin {"pinned", "working"}
         /\ session = "uninitialized"
<1>1. \A n \in Line : pc[n] # "none" \/ outcome[n] # "none" => n \in 1 .. Current
  BY LineFacts DEF LoopInv, Line
<1>2. \A n \in 1 .. Current : Classify(line[n]) # "undecided"
  BY LineFacts, ClassifyRange
<1> QED BY <1>1, <1>2 DEF EraInv, OneEra, Served

LEMMA EraStepKeeps ==
  ASSUME TypeOK, LoopInv, CancelInv, EraInv, [Next]_vars
  PROVE  EraInv'
<1>0. \A n \in Line : pc[n] # "none" \/ outcome[n] # "none" => n \in 1 .. Current
  BY LineFacts DEF LoopInv, Line
<1>1. CASE Quiet \/ WriterMoves \/ UNCHANGED vars
  BY <1>1 DEF Quiet, CheckWriter, ReadEof, FinishInitialize, DropNotification, JoinTasks,
     Exit, WriterMoves, Write, WriteFails, WriterEnds, vars, EraInv, OneEra, Served, Current,
     Message, Admits
<1>2. CASE ReadLine
  <2>1. /\ Current' = Current + 1 /\ Current \in Nat /\ era' = era /\ pc' = pc
        /\ session' = session /\ main = "reading" /\ main' \notin {"applying", "flagging"}
        /\ line'[Current + 1].kind = "notification" => main' = "notifying"
        /\ \A n \in 1 .. Current : line'[n] = line[n]
    <3>1. PICK m \in Messages :
          /\ line' = Append(line, m)
          /\ main' = CASE m.kind = "junk" -> "refusing"
                       [] m.kind = "request" -> "registering"
                       [] m.kind = "notification" -> "notifying"
      BY <1>2 DEF ReadLine
    <3>2. m.kind \in Kinds /\ line'[Current + 1] = m
      BY <3>1, MessageAssumption DEF TypeOK, Current
    <3> QED BY <1>2, <3>1, <3>2, Reading, LineFacts DEF Current, ReadLine, Kinds
  <2>2. \A n \in Line : n \in Served' => n \in Served /\ n \in 1 .. Current
    <3>1. \A n \in Line : outcome'[n] \in {outcome[n], "invalid"}
      BY <1>2 DEF ReadLine, TypeOK
    <3> QED BY <3>1, <1>0 DEF Served
  <2>3. OneEra'
    <3>1. \A n \in Served' : n \in Served /\ line'[n] = line[n]
      BY <2>1, <2>2 DEF Served
    <3>2. \A n \in Line : pc'[n] \in {"pinned", "working"} =>
            pc[n] \in {"pinned", "working"} /\ line'[n] = line[n]
      BY <1>0, <2>1
    <3> QED BY <2>1, <3>1, <3>2 DEF EraInv, OneEra
  <2>4. \A k \in 1 .. Current' : k \in 1 .. Current \/ k = Current'
    BY <2>1
  <2> QED BY <2>1, <2>3, <2>4 DEF EraInv, Classify
<1>3. CASE LoopMoves
  <2>1. CASE Refuses
    <3>1. /\ line' = line /\ era' = era /\ session' = session /\ pc' = pc
          /\ main = "registering" /\ main' = "refusing" /\ Current' = Current
      BY <2>1 DEF Refuses, RefuseCapacity, RefuseDuplicate, Refuse, Current
    <3>2. \A n \in Line : n \in Served' => n \in Served
      BY <2>1 DEF Refuses, RefuseCapacity, RefuseDuplicate, Refuse, Served, TypeOK
    <3> QED BY <3>1, <3>2 DEF EraInv, OneEra, Served
  <2>2. CASE Register
    <3>1. /\ line' = line /\ era' = era /\ session' = session /\ outcome' = outcome
          /\ main = "registering" /\ main' \in {"initializing", "checking"} /\ Current' = Current
      BY <2>2 DEF Register, Current
    <3>2. \A n \in Line : pc'[n] \in {"pinned", "working"} => pc[n] \in {"pinned", "working"}
      BY <2>2 DEF Register, TypeOK
    <3> QED BY <3>1, <3>2 DEF EraInv, OneEra, Served
  <2>3. CASE PinNotification
    <3>1. /\ line' = line /\ era' = Classify(Message) /\ session' = session /\ pc' = pc
          /\ outcome' = outcome /\ main' = "applying" /\ Current' = Current /\ Message' = Message
          /\ Current \in 1 .. Current
      BY <2>3, LineFacts DEF PinNotification, Current, Message, LoopInv, Line
    <3>2. era' # "undecided"
      BY <3>1, LineFacts, ClassifyRange DEF Message
    <3>3. OneEra'
      BY <2>3, <3>1, NothingServedUndecided DEF PinNotification, Admits, EraInv, OneEra, Served
    <3> QED BY <3>1, <3>2, <3>3 DEF EraInv, Classify
  <2>4. CASE ApplyInitialized
    <3>1. session' # "uninitialized" => session # "uninitialized"
      BY <2>4 DEF ApplyInitialized
    <3> QED
      BY <2>4, <3>1 DEF ApplyInitialized, EraInv, OneEra, Served, Current, Message
  <2>5. CASE SendRefusal \/ LookUpCancelled \/ SetCancelFlag
    BY <2>5 DEF SendRefusal, LookUpCancelled, SetCancelFlag, EraInv, OneEra, Served, Current,
       Message
  <2> QED BY <1>3, <2>1, <2>2, <2>3, <2>4, <2>5 DEF LoopMoves
<1>4. ASSUME NEW n \in Line, Advances(n)
      PROVE  EraInv'
  <2>0. line' = line /\ main' = main /\ Current' = Current /\ Message' = Message
    BY <1>4, RequestFrame DEF Current, Message
  <2>1. CASE Answers(n)
    <3>1. PICK o \in Outcomes \ {"none", "duplicate", "too_many"} : Answer(n, o)
      BY <2>1, Answering
    <3>2. era' = era /\ \A k \in Line \ {n} : outcome'[k] = outcome[k] /\ pc'[k] = pc[k]
      BY <2>1, <3>1, Answering DEF Answer, TypeOK
    <3>3. pc'[n] = "answered"
      BY <3>1 DEF Answer, TypeOK
    <3>4. n \in Served' => pc[n] \in {"pinned", "working"}
      BY <2>1 DEF Answers, RejectClaim, RejectEra, Initialize, RejectUnready, AnswerAtOnce, EndCall, TimeOutCall,
         Panic, Answer, Served, TypeOK
    <3>5. session' # session => Classify(line[n]) = "legacy" /\ pc[n] = "pinned"
      BY <2>1 DEF Answers, RejectClaim, RejectEra, Initialize, RejectUnready, AnswerAtOnce, EndCall, TimeOutCall,
         Panic, Answer, Legacy
    <3>6. OneEra'
      BY <2>0, <3>2, <3>3, <3>4, <3>5 DEF EraInv, OneEra, Served
    <3> QED BY <2>0, <3>2, <3>6 DEF EraInv
  <2>2. CASE PinRequest(n)
    <3>1. /\ era' = Classify(line[n]) /\ session' = session /\ outcome' = outcome
          /\ \A k \in Line \ {n} : pc'[k] = pc[k]
          /\ n \in 1 .. Current
      BY <1>0, <2>2 DEF PinRequest, TypeOK
    <3>2. era' # "undecided"
      BY <3>1, LineFacts, ClassifyRange
    <3>3. OneEra'
      BY <2>0, <2>2, <3>1, NothingServedUndecided DEF PinRequest, Admits, EraInv, OneEra, Served
    <3>4. main \in {"applying", "flagging"} => era # "undecided"
      <4>1. main \in {"applying", "flagging"} => Current \in 1 .. Current
        BY LineFacts DEF LoopInv, Line
      <4> QED BY <4>1, LineFacts, ClassifyRange DEF EraInv, Message
    <3> QED BY <2>0, <2>2, <3>1, <3>2, <3>3, <3>4 DEF EraInv, PinRequest, Admits
  <2>3. CASE Start(n) \/ BeginCall(n) \/ Complete(n) \/ DropGuard(n) \/ Send(n) \/ RunDeferred(n)
    <3>1. era' = era /\ session' = session /\ outcome' = outcome
          /\ \A k \in Line : pc'[k] \in {"pinned", "working"} => pc[k] \in {"pinned", "working"}
      BY <2>3 DEF Start, BeginCall, Complete, DropGuard, Send, RunDeferred, TypeOK
    <3> QED BY <2>0, <3>1 DEF EraInv, OneEra, Served
  <2> QED BY <1>4, <2>1, <2>2, <2>3 DEF Advances
<1> QED BY <1>1, <1>2, <1>3, <1>4, Steps
-----------------------------------------------------------------------------
(* Cancellations. *)

(* A cancellation once of the pinned era stays one. *)
LEMMA CancelsStays ==
  ASSUME TypeOK, TypeOK', EraInv, [Next]_vars, NEW n \in 1 .. Current, NEW k \in 1 .. Current,
         line'[n] = line[n], line'[k] = line[k]
  PROVE  /\ Cancels(k, n) => Cancels(k, n)'
         /\ Cancels(k, n)' => Cancels(k, n) \/ (k = Current /\ main = "notifying")
<1>1. Classify(line[k]) \in {"legacy", "modern", "rejected"}
  BY LineFacts, ClassifyRange
<1>2. Cancels(k, n) => era' = era
  BY <1>1, EraStays DEF Cancels
<1>3. Cancels(k, n)' /\ era' # era => k = Current /\ main = "notifying"
  <2>1. era' \in {"legacy", "modern"} \/ era' = era
    BY EraStays DEF TypeOK
  <2> QED BY <2>1, EraStays DEF Cancels, EraInv
<1> QED BY <1>2, <1>3 DEF Cancels

LEMMA CancelStepKeeps ==
  ASSUME TypeOK, TypeOK', LoopInv, RegistryInv, EraInv, EraInv', CancelInv, ServingInv,
         [Next]_vars
  PROVE  CancelInv'
<1>0. /\ \A n \in Line : pc[n] # "none" => n \in 1 .. Current /\ line[n].kind = "request"
      /\ \A n \in Line : Marked(n) => n \in 1 .. Current
      /\ Current \in Nat /\ 1 .. Current \subseteq Line
      /\ \A n \in Registered : n \in 1 .. Current /\ line[n].kind = "request"
  BY LineFacts DEF LoopInv, Line, Registered, Marked
<1> DEFINE Aimed == main = "flagging" =>
              target \in Line /\ target < Current /\ Message.method = "cancelled"
                /\ line[target].id = Message.id
<1>1. ASSUME line' = line, \A n \in Line : Marked(n)' => Marked(n),
             \A n \in Line : flag[n] => flag'[n],
             Registered' \subseteq Registered \cup {Current},
             \A n \in Registered : Carrying(Current, n) /\ Cancels(Current, n)'
                                     => Carrying(Current, n)',
             Aimed'
      PROVE  CancelInv'
  <2>1. Current' = Current
    BY <1>1 DEF Current
  <2>2. \A n \in Line : Marked(n)' => \E k \in n + 1 .. Current : Cancels(k, n)'
    <3> SUFFICES ASSUME NEW n \in Line, Marked(n)
                 PROVE  \E k \in n + 1 .. Current : Cancels(k, n)'
      BY <1>1
    <3>1. PICK k \in n + 1 .. Current : Cancels(k, n)
      BY DEF CancelInv
    <3>2. k \in 1 .. Current /\ n \in 1 .. Current
      BY <1>0, <3>1 DEF Line
    <3> QED BY <1>1, <3>1, <3>2, CancelsStays
  <2>3. \A n \in Registered' : \A k \in n + 1 .. Current :
          Cancels(k, n)' => flag'[n] \/ Carrying(k, n)'
    <3> SUFFICES ASSUME NEW n \in Registered', NEW k \in n + 1 .. Current, Cancels(k, n)'
                 PROVE  flag[n] \/ Carrying(k, n)'
      BY <1>0, <1>1, <2>1 DEF Registered
    <3>1. n \in Registered
      BY <1>0, <1>1
    <3>2. k \in 1 .. Current /\ n \in 1 .. Current
      BY <1>0, <3>1
    <3>3. Cancels(k, n) \/ (k = Current /\ main = "notifying")
      BY <1>1, <3>2, CancelsStays
    <3>4. Cancels(k, n) => flag[n] \/ Carrying(k, n)
      BY <3>1 DEF CancelInv
    <3>5. flag[n] \/ (k = Current /\ Carrying(Current, n))
      <4>1. Carrying(k, n) => k = Current /\ Carrying(Current, n)
        BY DEF Carrying
      <4>2. k = Current /\ main = "notifying" => Carrying(Current, n)
        BY DEF Carrying
      <4> QED BY <3>3, <3>4, <4>1, <4>2
    <3>6. CASE k = Current /\ Carrying(Current, n)
      <4>1. Cancels(Current, n)'
        BY <2>1, <3>6 DEF Cancels
      <4>2. Carrying(Current, n)'
        BY <1>1, <3>1, <3>6, <4>1
      <4> QED BY <2>1, <3>6, <4>2 DEF Carrying
    <3> QED BY <3>5, <3>6
  <2> QED BY <1>1, <2>1, <2>2, <2>3 DEF CancelInv
<1>2. CASE Quiet
  <2>1. line' = line /\ flag' = flag /\ outcome' = outcome /\ Registered' = Registered
        /\ main' # "flagging"
    BY <1>2 DEF Quiet, CheckWriter, ReadEof, FinishInitialize, DropNotification, JoinTasks, Exit,
       registry, Registered
  <2>2. ASSUME NEW n \in Registered, Carrying(Current, n), Cancels(Current, n)'
        PROVE  FALSE
    <3>1. DropNotification
      BY <1>2, <2>2 DEF Quiet, CheckWriter, ReadEof, FinishInitialize, DropNotification, JoinTasks,
         Exit, Carrying
    <3>2. Classify(Message) = era
      BY <2>1, <2>2, <3>1 DEF Cancels, DropNotification, Message, Current
    <3> QED BY <3>1, <3>2 DEF DropNotification, Admits, TypeOK
  <2> QED BY <1>1, <2>1, <2>2 DEF Marked
<1>3. CASE ReadLine
  <2>1. /\ Current' = Current + 1 /\ era' = era /\ flag' = flag /\ pc' = pc
        /\ main = "reading" /\ main' # "flagging"
        /\ \A n \in 1 .. Current : line'[n] = line[n]
    BY <1>3, Reading, MessageAssumption DEF Current, ReadLine, Kinds
  <2>2. line'[Current + 1].kind = "notification" => main' = "notifying"
    <3>1. PICK m \in Messages :
          /\ line' = Append(line, m)
          /\ main' = CASE m.kind = "junk" -> "refusing"
                       [] m.kind = "request" -> "registering"
                       [] m.kind = "notification" -> "notifying"
      BY <1>3 DEF ReadLine
    <3>2. m.kind \in Kinds /\ line'[Current + 1] = m
      BY <3>1, MessageAssumption DEF TypeOK, Current
    <3> QED BY <3>1, <3>2
  <2>3. Registered' = Registered
    BY <2>1 DEF Registered
  <2>4. \A n, k \in 1 .. Current : Cancels(k, n)' <=> Cancels(k, n)
    BY <2>1 DEF Cancels
  <2>5. \A n \in Line : Marked(n)' => \E k \in n + 1 .. Current' : Cancels(k, n)'
    <3>0. ASSUME NEW n \in Line, Marked(n)'
          PROVE  Marked(n)
      <4>1. outcome' = outcome
            \/ (outcome' = [outcome EXCEPT ![Current + 1] = "invalid"] /\ Current + 1 \in Line)
        BY <1>3, Reading DEF ReadLine
      <4>2. ~flag[Current + 1] \/ Current + 1 \notin Line
        BY <1>0 DEF LoopInv
      <4> QED BY <2>1, <3>0, <4>1, <4>2 DEF Marked, TypeOK
    <3> SUFFICES ASSUME NEW n \in Line, Marked(n)
                 PROVE  \E k \in n + 1 .. Current' : Cancels(k, n)'
      BY <3>0
    <3>1. PICK k \in n + 1 .. Current : Cancels(k, n)
      BY DEF CancelInv
    <3> QED BY <1>0, <2>1, <2>4, <3>1
  <2>6. ASSUME NEW n \in Registered, NEW k \in n + 1 .. Current + 1, Cancels(k, n)'
        PROVE  flag[n] \/ Carrying(k, n)'
    <3>1. CASE k = Current + 1
      <4>1. line'[k].kind = "notification"
        BY <2>6 DEF Cancels
      <4>2. main' = "notifying" /\ Current' = k
        BY <2>1, <2>2, <3>1, <4>1
      <4> QED BY <4>2 DEF Carrying
    <3>2. CASE k # Current + 1
      <4>1. k \in n + 1 .. Current /\ n \in 1 .. Current /\ k \in 1 .. Current
        BY <1>0, <3>2
      <4>2. Cancels(k, n) => flag[n] \/ Carrying(k, n)
        BY <4>1 DEF CancelInv
      <4> QED BY <2>1, <2>4, <2>6, <4>1, <4>2 DEF Carrying
    <3> QED BY <3>1, <3>2
  <2> QED BY <2>1, <2>3, <2>5, <2>6 DEF CancelInv
<1>4. CASE LoopMoves
  <2>1. CASE Refuses \/ SendRefusal
    <3>1. line' = line /\ flag' = flag /\ main' # "flagging"
          /\ main \notin {"notifying", "applying", "flagging"}
          /\ Registered' \subseteq Registered \cup {Current}
      BY <2>1 DEF Refuses, RefuseCapacity, RefuseDuplicate, Refuse, SendRefusal, Registered
    <3>2. ASSUME NEW n \in Line, Marked(n)'
          PROVE  Marked(n)
      BY <2>1, <3>1, <3>2 DEF Refuses, RefuseCapacity, RefuseDuplicate, Refuse, SendRefusal, LoopInv,
         TypeOK, Marked
    <3> QED BY <1>1, <3>1, <3>2 DEF Carrying
  <2>2. CASE Register
    <3>1. line' = line /\ flag' = flag /\ outcome' = outcome /\ main' # "flagging"
          /\ main \notin {"notifying", "applying", "flagging"}
          /\ Registered' \subseteq Registered \cup {Current}
      BY <2>2 DEF Register, Registered, TypeOK
    <3> QED BY <1>1, <3>1 DEF Carrying, Marked
  <2>3. CASE PinNotification
    <3>1. line' = line /\ flag' = flag /\ outcome' = outcome /\ Registered' = Registered
          /\ main' = "applying"
      BY <2>3 DEF PinNotification, Registered
    <3>2. Current' = Current
      BY <3>1 DEF Current
    <3> QED BY <1>1, <3>1, <3>2 DEF Carrying, Marked
  <2>4. CASE ApplyInitialized
    <3>1. line' = line /\ flag' = flag /\ outcome' = outcome /\ Registered' = Registered
          /\ main' = "checking"
      BY <2>4 DEF ApplyInitialized, Registered
    <3>2. \A n : ~Cancels(Current, n)'
      BY <2>4, <3>1 DEF ApplyInitialized, Cancels, Message, Current
    <3> QED BY <1>1, <3>1, <3>2 DEF Marked
  <2>5. CASE LookUpCancelled
    <3>1. line' = line /\ flag' = flag /\ outcome' = outcome
          /\ Registered' = Registered /\ Current' = Current
          /\ target' = active[Message.id]
          /\ main' = IF active[Message.id] = NoLine THEN "checking" ELSE "flagging"
      BY <2>5 DEF LookUpCancelled, Registered, Current
    <3>2. Current \in 1 .. Current /\ Message.kind = "notification" /\ Message.id \in Ids
      BY <2>5, LineFacts DEF LookUpCancelled, LoopInv, Line, Message
    <3>3. ASSUME NEW n \in Registered, Carrying(Current, n), Cancels(Current, n)'
          PROVE  Carrying(Current, n)'
      <4>1. line[n].id = Message.id
        BY <3>1, <3>3 DEF Cancels, Message
      <4>2. active[Message.id] = n /\ n # NoLine
        BY <1>0, <4>1 DEF RegistryInv, RegistryIsExact, NoLine
      <4> QED BY <3>1, <4>2 DEF Carrying
    <3>4. Aimed'
      <4> SUFFICES ASSUME active[Message.id] # NoLine
                   PROVE  Aimed'
        BY <3>1
      <4>1. target' \in Registered /\ line[target'].id = Message.id
        BY <3>1, <3>2 DEF RegistryInv, RegistryIsExact
      <4>2. target' \in 1 .. Current /\ target' # Current
        BY <1>0, <3>2, <4>1 DEF Message
      <4>3. Message' = Message /\ Message.method = "cancelled"
        BY <2>5, <3>1 DEF LookUpCancelled, Message
      <4> QED BY <1>0, <3>1, <4>1, <4>2, <4>3
    <3> QED BY <1>1, <3>1, <3>3, <3>4 DEF Marked
  <2>6. CASE SetCancelFlag
    <3>1. /\ line' = line /\ era' = era /\ Registered' = Registered /\ Current' = Current
          /\ main = "flagging" /\ main' = "checking" /\ outcome' = outcome
      BY <2>6 DEF SetCancelFlag, Registered, Current
    <3>2. /\ flag'[target] = TRUE
          /\ \A n \in Line \ {target} : flag'[n] <=> flag[n]
          /\ target \in Line /\ target < Current
      BY <2>6, <3>1, ZenonT(20) DEF SetCancelFlag, TypeOK, CancelInv
    <3>3. \A k, n \in Line : Cancels(k, n)' <=> Cancels(k, n)
      BY <3>1 DEF Cancels
    <3>4. Cancels(Current, target) /\ Current \in target + 1 .. Current /\ Current \in Line
      BY <3>1, <3>2, LineFacts DEF Cancels, CancelInv, LoopInv, EraInv, Message, Line
    <3>5. ASSUME NEW n \in Line, Marked(n)'
          PROVE  \E k \in n + 1 .. Current : Cancels(k, n)'
      <4>1. CASE n = target
        BY <3>2, <3>3, <3>4, <4>1
      <4>2. CASE n # target
        <5>1. PICK k \in n + 1 .. Current : Cancels(k, n)
          BY <3>1, <3>2, <3>5, <4>2 DEF CancelInv, Marked
        <5>2. k \in Line
          BY <1>0, <5>1 DEF Line
        <5> QED BY <3>3, <5>1, <5>2
      <4> QED BY <4>1, <4>2
    <3>6. ASSUME NEW n \in Registered, NEW k \in n + 1 .. Current, Cancels(k, n)'
          PROVE  flag'[n]
      <4>1. k \in Line /\ n \in Line
        BY <1>0
      <4>2. flag[n] \/ Carrying(k, n)
        BY <3>3, <3>6, <4>1 DEF CancelInv
      <4>3. n = target \/ flag[n]
        BY <3>1, <4>2 DEF Carrying
      <4> QED BY <3>2, <4>1, <4>3
    <3> QED BY <3>1, <3>5, <3>6 DEF CancelInv
  <2> QED BY <1>4, <2>1, <2>2, <2>3, <2>4, <2>5, <2>6 DEF LoopMoves
<1>5. CASE WriterMoves \/ UNCHANGED vars
  <2>1. line' = line /\ flag' = flag /\ outcome' = outcome
        /\ Registered' = Registered /\ main' = main
        /\ target' = target /\ Current' = Current /\ Message' = Message
    BY <1>5 DEF WriterMoves, Write, WriteFails, WriterEnds, vars, Registered, Current, Message
  <2> QED BY <1>1, <2>1 DEF Carrying, CancelInv, Marked
<1>6. ASSUME NEW n \in Line, Advances(n)
      PROVE  CancelInv'
  <2>1. line' = line /\ main' = main /\ target' = target
        /\ Current' = Current /\ Message' = Message
    BY <1>6, RequestFrame DEF Current, Message
  <2>3. ASSUME NEW k \in Line, Marked(k)'
        PROVE  Marked(k)
    <3>1. CASE k # n
      BY <1>6, <2>3, <3>1, RequestFrame DEF Marked
    <3>2. CASE k = n /\ Answers(n)
      <4>1. PICK o \in Outcomes \ {"none", "duplicate", "too_many"} : Answer(n, o)
        BY <3>2, Answering
      <4>2. outcome[n] = "none" /\ outcome'[n] # "none"
        BY <3>2, <4>1, Answering DEF ServingInv, Answer, TypeOK
      <4>3. outcome'[n] = "cancelled" => flag[n]
        BY <3>2 DEF Answers, RejectClaim, RejectEra, Initialize, RejectUnready, AnswerAtOnce,
           EndCall, TimeOutCall, Panic, Answer, TypeOK
      <4>4. flag' = flag \/ outcome'[n] = "timeout"
        BY <3>2, Answering DEF Answer, TypeOK
      <4> QED BY <2>3, <3>2, <4>2, <4>3, <4>4 DEF Marked
    <3>3. CASE ~Answers(n)
      BY <1>6, <2>3, <3>3 DEF Advances, Start, PinRequest, BeginCall, Complete, DropGuard, Send,
         RunDeferred, Marked
    <3> QED BY <3>1, <3>2, <3>3
  <2>4. \A k \in Line : flag[k] => flag'[k]
    BY <1>6, RequestFrame
  <2>2. Registered' \subseteq Registered
    BY <1>6, Answering DEF Advances, Answer, Start, PinRequest, BeginCall, Complete, DropGuard,
       Send, RunDeferred, Registered, TypeOK
  <2> QED BY <1>1, <2>1, <2>2, <2>3, <2>4 DEF Carrying, CancelInv
<1> QED BY <1>2, <1>3, <1>4, <1>5, <1>6, Steps
-----------------------------------------------------------------------------
(* The handshake. *)

(* A session is opened on a line still current: the loop waits for it. *)
LEMMA Opening ==
  ASSUME TypeOK, LoopInv, NEW n \in Line, Answers(n), Opened(n)'
  PROVE  session' = "awaiting" /\ n = Current
<1>1. line' = line /\ pc[n] \in {"started", "pinned", "working"}
  BY Answering DEF Answer
<1>2. line[n].method = "initialize" /\ Legacy(n) /\ outcome'[n] = "result"
  BY <1>1 DEF Opened, Legacy
<1>3. n = Current
  BY <1>1, <1>2 DEF LoopInv, HandledInline
<1>4. ~EndCall(n) /\ ~TimeOutCall(n)
  BY <1>2 DEF EndCall, TimeOutCall, LoopInv
<1>5. Initialize(n)
  BY <1>2, <1>4 DEF Answers, RejectClaim, RejectEra, RejectUnready, AnswerAtOnce, Panic, Answer,
     IsServed, NeedsReady, TypeOK
<1> QED BY <1>2, <1>3, <1>5 DEF Initialize, Answer, TypeOK

(* Only a session that is not Ready turns a request away. *)
LEMMA TurningAway ==
  ASSUME TypeOK, NEW n \in Line, Answers(n), outcome'[n] = "not_initialized"
  PROVE  session # "ready"
BY DEF Answers, RejectClaim, RejectEra, Initialize, RejectUnready, AnswerAtOnce, EndCall, TimeOutCall, Panic,
   Answer, IsServed, NeedsReady, TypeOK

(* A session never goes back, and only an initialize begins one. *)
LEMMA SessionStays ==
  ASSUME TypeOK, [Next]_vars
  PROVE  /\ session # "uninitialized" => session' # "uninitialized"
         /\ session = "ready" => session' = "ready"
<1>1. ASSUME NEW n \in Line, Advances(n)
      PROVE  /\ session # "uninitialized" => session' # "uninitialized"
             /\ session = "ready" => session' = "ready"
  BY <1>1 DEF Advances, Answers, RejectClaim, RejectEra, Initialize, RejectUnready,
     AnswerAtOnce, EndCall, TimeOutCall, Panic, Start, PinRequest, BeginCall, Complete, DropGuard, Send,
     RunDeferred
<1> QED
  BY <1>1, Steps DEF Quiet, CheckWriter, ReadEof, FinishInitialize, DropNotification, JoinTasks,
     Exit, ReadLine, WriterMoves, Write, WriteFails, WriterEnds, vars, LoopMoves, Refuses,
     RefuseCapacity, RefuseDuplicate, Refuse, SendRefusal, Register, PinNotification,
     ApplyInitialized, LookUpCancelled, SetCancelFlag

LEMMA HandshakeStepKeeps ==
  ASSUME TypeOK, TypeOK', LoopInv, EraInv, HandshakeInv, [Next]_vars
  PROVE  HandshakeInv'
<1>0. /\ Current \in Nat /\ 1 .. Current \subseteq Line
      /\ \A n \in Line : pc[n] # "none" \/ outcome[n] # "none" => n \in 1 .. Current
  BY LineFacts DEF LoopInv, Line
<1>1. /\ session # "uninitialized" => session' # "uninitialized"
      /\ session = "ready" => session' = "ready"
  BY SessionStays
<1>3. Current' \in Nat /\ Current' = Len(line') /\ Current' <= MaxLines
  BY BoundAssumption DEF TypeOK, Current
(* What has to be shown of a step. *)
<1>2. ASSUME \A n \in Line : Opened(n)' => Opened(n) \/ session' # "uninitialized",
             \A j, k \in Line : Handshake(j, k)' =>
               Handshake(j, k) \/ (session' = "ready" /\ k = Current'),
             \A n \in Line : outcome'[n] = "not_initialized" =>
               (n <= Current /\ outcome[n] = "not_initialized") \/ session # "ready"
      PROVE  HandshakeInv'
  <2>1. \A n \in Line : Opened(n)' => session' # "uninitialized"
    BY <1>1, <1>2 DEF HandshakeInv
  <2>2. ASSUME NEW j \in Line, NEW k \in Line, Handshake(j, k)'
        PROVE  session' = "ready"
               /\ \A n \in k + 1 .. Len(line') : outcome'[n] # "not_initialized"
    <3>1. CASE Handshake(j, k)
      <4>1. session = "ready" /\ k \in 1 .. Current
            /\ \A n \in k + 1 .. Len(line) : outcome[n] # "not_initialized"
        BY <3>1 DEF HandshakeInv, PipelinedHandshake, Handshake, Current, Line
      <4>2. \A n \in k + 1 .. Len(line') : n \in Line
        BY <1>0, <1>3, <4>1, BoundAssumption DEF Line
      <4>3. ASSUME NEW n \in k + 1 .. Len(line'), outcome'[n] = "not_initialized"
            PROVE  FALSE
        BY <1>2, <4>1, <4>2, <4>3 DEF Current
      <4> QED BY <1>1, <4>1, <4>3
    <3>2. CASE session' = "ready" /\ k = Current'
      BY <1>3, <3>2 DEF Current
    <3> QED BY <1>2, <2>2, <3>1, <3>2
  <2> QED BY <2>1, <2>2 DEF HandshakeInv, PipelinedHandshake
<1>4. ASSUME line' = line, outcome' = outcome,
             main \in {"notifying", "applying"} => main' \in {"notifying", "applying"}
      PROVE  HandshakeInv'
  <2>1. \A n \in Line : Opened(n)' => Opened(n)
    BY <1>4 DEF Opened, Legacy
  <2>2. \A j, k \in Line : Handshake(j, k)' => Handshake(j, k)
    BY <1>4 DEF Handshake, Legacy
  <2>3. \A n \in Line : outcome'[n] = "not_initialized" =>
          n <= Current /\ outcome[n] = "not_initialized"
    BY <1>0, <1>4
  <2> QED BY <1>2, <2>1, <2>2, <2>3
(* The loop is past the current line: was that a session's beginning, it is  *)
(* Ready.                                                                    *)
<1>5. ASSUME line' = line, outcome' = outcome,
             \A j \in Line : Handshake(j, Current)' =>
               Handshake(j, Current) \/ session' = "ready"
      PROVE  HandshakeInv'
  <2>1. \A n \in Line : Opened(n)' => Opened(n)
    BY <1>5 DEF Opened, Legacy
  <2>2. \A j, k \in Line : Handshake(j, k)' =>
          Handshake(j, k) \/ (session' = "ready" /\ k = Current')
    <3> SUFFICES ASSUME NEW j \in Line, NEW k \in Line, Handshake(j, k)'
                 PROVE  Handshake(j, k) \/ (session' = "ready" /\ k = Current')
      OBVIOUS
    <3>1. CASE k = Len(line)
      BY <1>5, <3>1 DEF Current, Handshake, Legacy
    <3>2. CASE k # Len(line)
      BY <1>5, <3>2 DEF Handshake, Legacy
    <3> QED BY <3>1, <3>2
  <2>3. \A n \in Line : outcome'[n] = "not_initialized" =>
          n <= Current /\ outcome[n] = "not_initialized"
    BY <1>0, <1>5
  <2> QED BY <1>2, <2>1, <2>2, <2>3
<1>6. CASE DropNotification
  <2>1. line' = line /\ outcome' = outcome /\ Current' = Current /\ main = "notifying"
    BY <1>6 DEF DropNotification, Current
  <2>2. ASSUME NEW j \in Line, Handshake(j, Current)'
        PROVE  FALSE
    <3>1. Opened(j) /\ Classify(Message) = "legacy"
      BY <2>1, <2>2 DEF Handshake, Opened, Legacy, Message
    <3>2. era = "legacy"
      BY <3>1 DEF HandshakeInv, EraInv, OneEra
    <3> QED BY <1>6, <3>1, <3>2 DEF DropNotification, Admits
  <2> QED BY <1>5, <2>1, <2>2
<1>7. CASE ApplyInitialized
  <2>1. line' = line /\ outcome' = outcome /\ Current' = Current
    BY <1>7 DEF ApplyInitialized, Current
  <2>2. ASSUME NEW j \in Line, Handshake(j, Current)'
        PROVE  session' = "ready"
    <3>1. /\ Opened(j) /\ Classify(Message) = "legacy" /\ Message.method = "initialized"
      BY <2>1, <2>2 DEF Handshake, Opened, Legacy, Message
    <3>2. session \in {"awaiting", "ready"}
      BY <3>1 DEF HandshakeInv, TypeOK
    <3> QED BY <1>7, <3>1, <3>2 DEF ApplyInitialized
  <2> QED BY <1>5, <2>1, <2>2
<1>8. CASE LookUpCancelled
  <2>1. line' = line /\ outcome' = outcome /\ Current' = Current
    BY <1>8 DEF LookUpCancelled, Current
  <2>2. \A j \in Line : ~Handshake(j, Current)'
    BY <1>8, <2>1 DEF LookUpCancelled, Handshake, Message
  <2> QED BY <1>5, <2>1, <2>2
<1>9. CASE Refuses
  <2>1. PICK o \in {"too_many", "duplicate"} : main = "registering" /\ Refuse(o)
    BY <1>9 DEF Refuses, RefuseCapacity, RefuseDuplicate
  <2>2. line' = line /\ Current \in Line /\ outcome'[Current] = o
        /\ \A n \in Line \ {Current} : outcome'[n] = outcome[n]
    BY <2>1 DEF Refuse, LoopInv, TypeOK
  <2>3. \A n \in Line : outcome'[n] \in {outcome[n], "too_many", "duplicate"}
    BY <2>2
  <2>4. \A n \in Line : Opened(n)' => Opened(n)
    BY <2>2, <2>3 DEF Opened, Legacy
  <2>5. \A j, k \in Line : Handshake(j, k)' => Handshake(j, k)
    BY <2>1, <2>2, <2>3 DEF Handshake, Legacy
  <2>6. \A n \in Line : outcome'[n] = "not_initialized" =>
          n <= Current /\ outcome[n] = "not_initialized"
    BY <1>0, <2>3
  <2> QED BY <1>2, <2>4, <2>5, <2>6
<1>10. CASE ReadLine
  <2>1. /\ Current' = Current + 1 /\ main = "reading"
        /\ \A n \in 1 .. Current : line'[n] = line[n]
    BY <1>10, Reading DEF Current, ReadLine
  <2>2. \A n \in Line : outcome'[n] \in {outcome[n], "invalid"}
    BY <1>10 DEF ReadLine, TypeOK
  <2>3. line'[Current + 1].kind = "notification" => main' = "notifying"
    <3>1. PICK m \in Messages :
          /\ line' = Append(line, m)
          /\ main' = CASE m.kind = "junk" -> "refusing"
                       [] m.kind = "request" -> "registering"
                       [] m.kind = "notification" -> "notifying"
      BY <1>10 DEF ReadLine
    <3>2. m.kind \in Kinds /\ line'[Current + 1] = m
      BY <3>1, MessageAssumption DEF TypeOK, Current
    <3> QED BY <3>1, <3>2
  <2>4. ASSUME NEW n \in Line, Opened(n)'
        PROVE  Opened(n)
    <3>1. n \in 1 .. Current /\ outcome[n] = "result"
      BY <1>0, <2>2, <2>4 DEF Opened
    <3> QED BY <2>1, <2>4, <3>1 DEF Opened, Legacy
  <2>5. ASSUME NEW j \in Line, NEW k \in Line, Handshake(j, k)'
        PROVE  Handshake(j, k)
    <3>1. k # Current + 1
      BY <2>1, <2>3, <2>5 DEF Handshake, Current
    <3>2. k \in 1 .. Current /\ j \in 1 .. Current /\ outcome[j] = "result" /\ j < k
      BY <1>0, <2>1, <2>2, <2>5, <3>1 DEF Handshake, Current, Line
    <3>3. line'[j] = line[j] /\ line'[k] = line[k]
      BY <2>1, <3>2
    <3> QED BY <2>1, <2>5, <3>2, <3>3 DEF Handshake, Legacy, Current
  <2>6. \A n \in Line : outcome'[n] = "not_initialized" =>
          n <= Current /\ outcome[n] = "not_initialized"
    BY <1>0, <2>2
  <2> QED BY <1>2, <2>4, <2>5, <2>6
<1>11. ASSUME NEW n \in Line, Answers(n)
       PROVE  HandshakeInv'
  <2>1. /\ line' = line /\ main' = main /\ Current' = Current
        /\ \A m \in Line \ {n} : outcome'[m] = outcome[m]
    BY <1>11, RequestFrame DEF Advances, Current
  <2>2. ASSUME NEW m \in Line, Opened(m)'
        PROVE  Opened(m) \/ session' # "uninitialized"
    <3>1. CASE m = n
      BY <1>11, <2>2, <3>1, Opening
    <3>2. CASE m # n
      BY <2>1, <2>2, <3>2 DEF Opened, Legacy
    <3> QED BY <3>1, <3>2
  <2>3. ASSUME NEW j \in Line, NEW k \in Line, Handshake(j, k)'
        PROVE  Handshake(j, k)
    <3>1. CASE j = n
      <4>1. Opened(n)'
        BY <2>3, <3>1 DEF Handshake, Opened, Legacy
      <4>2. n = Current
        BY <1>11, <4>1, Opening
      <4> QED BY <1>0, <2>1, <2>3, <3>1, <4>2 DEF Handshake, Current, Line
    <3>2. CASE j # n
      BY <2>1, <2>3, <3>2 DEF Handshake, Legacy
    <3> QED BY <3>1, <3>2
  <2>4. ASSUME NEW m \in Line, outcome'[m] = "not_initialized"
        PROVE  (m <= Current /\ outcome[m] = "not_initialized") \/ session # "ready"
    BY <1>0, <1>11, <2>1, <2>4, TurningAway
  <2> QED BY <1>2, <2>2, <2>3, <2>4
<1>12. ASSUME NEW n \in Line, Advances(n), ~Answers(n)
       PROVE  HandshakeInv'
  BY <1>4, <1>12 DEF Advances, Start, PinRequest, BeginCall, Complete, DropGuard, Send, RunDeferred
<1>13. CASE WriterMoves \/ UNCHANGED vars \/ (Quiet /\ ~DropNotification)
  BY <1>4, <1>13 DEF WriterMoves, Write, WriteFails, WriterEnds, vars, Quiet, CheckWriter, ReadEof,
     FinishInitialize, JoinTasks, Exit
<1>14. CASE SendRefusal \/ Register \/ PinNotification \/ SetCancelFlag
  BY <1>4, <1>14 DEF SendRefusal, Register, PinNotification, SetCancelFlag
<1> QED
  BY <1>6, <1>7, <1>8, <1>9, <1>10, <1>11, <1>12, <1>13, <1>14, Steps DEF LoopMoves
-----------------------------------------------------------------------------
(* Decisions. *)

LEMMA ServingStepKeeps ==
  ASSUME TypeOK, TypeOK', LoopInv, EraInv, ServingInv, [Next]_vars
  PROVE  ServingInv'
<1>0. /\ Current \in Nat /\ 1 .. Current \subseteq Line
      /\ \A n \in Line : pc[n] # "none" \/ outcome[n] # "none" => n \in 1 .. Current
  BY LineFacts DEF LoopInv, Line
<1>1. ASSUME line' = line, session' = session \/ session' = "ready",
             main \in {"notifying", "applying"} =>
               \/ main' \in {"notifying", "applying"} \/ session' # "awaiting"
               \/ ~Completes(Current),
             \A n \in Line :
               \/ pc'[n] = pc[n] /\ outcome'[n] = outcome[n]
               \/ pc'[n] \in {"started", "spawned", "pinned"} /\ outcome'[n] = "none"
               \/ pc'[n] = "working" /\ outcome'[n] = "none" /\ IsServed(n)
               \/ /\ pc'[n] \in {"answered", "completed", "sending", "ended"}
                  /\ outcome'[n] # "none"
               \/ pc'[n] = "none"
      PROVE  ServingInv'
  <2>1. \A n \in Line : IsServed(n) => IsServed(n)'
    BY <1>1 DEF IsServed, NeedsReady, Legacy, TypeOK
  <2>2. Current' = Current /\ (Current \in Line /\ Completes(Current))' =
                                 (Current \in Line /\ Completes(Current))
    BY <1>1 DEF Current, Completes, Legacy
  <2>3. session' = "awaiting" => session = "awaiting"
    BY <1>1
  <2> QED BY <1>1, <2>1, <2>2, <2>3 DEF ServingInv
<1>2. CASE ReadLine
  <2>1. /\ Current' = Current + 1 /\ pc' = pc /\ session' = session /\ Current + 1 \in Line
        /\ \A n \in 1 .. Current : line'[n] = line[n]
    BY <1>2, Reading DEF Current, ReadLine
  <2>2. \A n \in Line : n # Current + 1 => outcome'[n] = outcome[n]
    BY <1>2 DEF ReadLine, TypeOK
  <2>3. line'[Current + 1].kind = "notification" => main' = "notifying"
    <3>1. PICK m \in Messages :
          /\ line' = Append(line, m)
          /\ main' = CASE m.kind = "junk" -> "refusing"
                       [] m.kind = "request" -> "registering"
                       [] m.kind = "notification" -> "notifying"
      BY <1>2 DEF ReadLine
    <3>2. m.kind \in Kinds /\ line'[Current + 1] = m
      BY <3>1, MessageAssumption DEF TypeOK, Current
    <3> QED BY <3>1, <3>2
  <2>4. \A n \in Line : pc[n] # "none" => outcome'[n] = outcome[n] /\ line'[n] = line[n]
    BY <1>0, <2>1, <2>2
  <2>5. \A n \in Line : pc[n] = "working" => IsServed(n)'
    BY <2>1, <2>4 DEF ServingInv, IsServed, NeedsReady, Legacy
  <2> QED BY <2>1, <2>3, <2>4, <2>5 DEF ServingInv, Completes
<1>3. CASE Quiet /\ ~DropNotification
  BY <1>1, <1>3 DEF Quiet, CheckWriter, ReadEof, FinishInitialize, JoinTasks, Exit
<1>4. CASE DropNotification
  <2>1. Completes(Current) /\ session = "awaiting" => FALSE
    BY <1>4 DEF DropNotification, Completes, Legacy, Message, Admits, EraInv, OneEra
  <2> QED BY <1>1, <1>4, <2>1 DEF DropNotification
<1>5. CASE LoopMoves
  <2>1. CASE Refuses
    <3>1. /\ line' = line /\ session' = session /\ pc' = pc /\ main = "registering"
          /\ pc[Current] = "none" /\ \A n \in Line : n # Current => outcome'[n] = outcome[n]
      BY <2>1 DEF Refuses, RefuseCapacity, RefuseDuplicate, Refuse, LoopInv, TypeOK
    <3> QED BY <1>1, <3>1
  <2>2. CASE Register
    <3>1. /\ line' = line /\ session' = session /\ outcome' = outcome /\ main = "registering"
          /\ outcome[Current] = "none"
          /\ \A n \in Line : n # Current => pc'[n] = pc[n]
          /\ Current \in Line => pc'[Current] \in {"started", "spawned"}
      BY <2>2 DEF Register, LoopInv, TypeOK
    <3> QED BY <1>1, <3>1
  <2>3. CASE ApplyInitialized
    <3>1. Completes(Current) => session' # "awaiting"
      BY <2>3 DEF ApplyInitialized, Completes, Legacy, Message
    <3> QED BY <1>1, <2>3, <3>1 DEF ApplyInitialized
  <2>4. CASE LookUpCancelled
    BY <1>1, <2>4 DEF LookUpCancelled, Completes, Message
  <2>5. CASE SendRefusal \/ PinNotification \/ SetCancelFlag
    BY <1>1, <2>5 DEF SendRefusal, PinNotification, SetCancelFlag
  <2> QED BY <1>5, <2>1, <2>2, <2>3, <2>4, <2>5 DEF LoopMoves
<1>6. CASE WriterMoves \/ UNCHANGED vars
  BY <1>1, <1>6 DEF WriterMoves, Write, WriteFails, WriterEnds, vars
<1>7. ASSUME NEW n \in Line, Answers(n)
      PROVE  ServingInv'
  <2>1. PICK o \in Outcomes \ {"none", "duplicate", "too_many"} : Answer(n, o)
    BY <1>7, Answering
  <2>2. /\ line' = line /\ main' = main /\ pc'[n] = "answered" /\ outcome'[n] # "none"
        /\ \A k \in Line : k # n => pc'[k] = pc[k] /\ outcome'[k] = outcome[k]
    BY <2>1 DEF Answer, TypeOK
  <2>3. CASE session' = session
    BY <1>1, <2>2, <2>3
  <2>4. CASE session' # session
    <3>1. Initialize(n) /\ session = "uninitialized"
      BY <1>7, <2>4 DEF Answers, RejectClaim, RejectEra, Initialize, RejectUnready, AnswerAtOnce,
         EndCall, TimeOutCall, Panic
    <3>2. n = Current /\ line[n].kind = "request"
      BY <3>1 DEF Initialize, LoopInv, HandledInline
    <3>3. Current' = Current /\ ~Completes(Current)'
      BY <2>2, <3>2 DEF Current, Completes
    <3>4. \A k \in Line : IsServed(k) => IsServed(k)'
      BY <2>2, <3>1 DEF IsServed, NeedsReady, Legacy
    <3> QED BY <2>2, <3>3, <3>4 DEF ServingInv
  <2> QED BY <2>3, <2>4
<1>8. ASSUME NEW n \in Line, Advances(n), ~Answers(n)
      PROVE  ServingInv'
  <2>1. line' = line /\ session' = session /\ main' = main /\ outcome' = outcome
    BY <1>8 DEF Advances, Start, PinRequest, BeginCall, Complete, DropGuard, Send, RunDeferred
  <2>2. \A k \in Line : k # n => pc'[k] = pc[k]
    BY <1>8, RequestFrame
  <2>3. CASE Start(n) \/ PinRequest(n)
    BY <1>1, <2>1, <2>2, <2>3 DEF Start, PinRequest, ServingInv, TypeOK
  <2>4. CASE BeginCall(n)
    BY <1>1, <2>1, <2>2, <2>4 DEF BeginCall, ServingInv, TypeOK
  <2>5. CASE Complete(n) \/ DropGuard(n) \/ Send(n) \/ RunDeferred(n)
    BY <1>1, <2>1, <2>2, <2>5 DEF Complete, DropGuard, Send, RunDeferred, ServingInv, TypeOK
  <2> QED BY <1>8, <2>3, <2>4, <2>5 DEF Advances
<1> QED BY <1>2, <1>3, <1>4, <1>5, <1>6, <1>7, <1>8, Steps
-----------------------------------------------------------------------------
LEMMA InitInv == Init => IInv
<1> SUFFICES ASSUME Init PROVE IInv
  OBVIOUS
<1>1. /\ line = <<>> /\ Current = 0 /\ out = <<>> /\ Len(out) = 0 /\ DOMAIN out = {}
      /\ line \in Seq(Messages) /\ out \in Seq(Line)
  BY EmptySeq DEF Init, Current
<1>2. TypeOK
  BY <1>1, BoundAssumption DEF Init, TypeOK, MainStates, TaskStates, Outcomes, Current
<1>3. LoopInv
  BY <1>1 DEF Init, LoopInv
<1>4. RegistryInv
  <2>1. Registered = {}
    BY DEF Init, Registered
  <2> QED BY <2>1, FS_EmptySet, BoundAssumption DEF Init, RegistryInv, RegistryIsExact
<1>5. GaugeInv
  <2>1. Counted = {}
    BY DEF Init, Counted, HasTask
  <2> QED BY <2>1, FS_EmptySet DEF Init, GaugeInv
<1>6. AnswerInv
  BY <1>1 DEF Init, AnswerInv
<1>10. ShutdownInv /\ WantedInv /\ DeliveredInv
  BY <1>1 DEF Init, ShutdownInv, WantedInv, DeliveredInv, Wants, Emitted, Line, Current
<1>7. EraInv
  BY <1>1 DEF Init, EraInv, OneEra, Served
<1>8. CancelInv
  <2>1. Registered = {}
    BY DEF Init, Registered
  <2> QED BY <2>1 DEF Init, CancelInv, Marked
<1>9. HandshakeInv
  BY <1>1 DEF Init, HandshakeInv, PipelinedHandshake, Opened, Handshake
<1>11. ServingInv
  BY <1>1 DEF Init, ServingInv, Line
<1> QED BY <1>2, <1>3, <1>4, <1>5, <1>6, <1>7, <1>8, <1>9, <1>10, <1>11 DEF IInv

LEMMA StepInv == IInv /\ [Next]_vars => IInv'
BY TypeStep, LoopStepKeeps, RegistryStepKeeps, GaugeStepKeeps, AnswerStepKeeps,
   ShutdownStepKeeps, WantedStepKeeps, DeliveredStepKeeps, EraStepKeeps, CancelStepKeeps,
   HandshakeStepKeeps, ServingStepKeeps DEF IInv

(* The inductive invariant: what the loop, the tasks, the registry and the  *)
(* writer know of each other at every step.                                 *)
THEOREM Inductive == Spec => []IInv
BY InitInv, StepInv, PTL DEF Spec

(* Every variable stays within its type; the metric never goes negative and *)
(* the channel never holds more than its capacity.                          *)
THEOREM TypeCorrect == Spec => []TypeOK
<1>1. IInv => TypeOK
  BY DEF IInv
<1> QED BY <1>1, Inductive, PTL

(* ActiveRequests holds exactly the requests between registration and       *)
(* completion, each under its id, never more than the limit.                *)
THEOREM RegistryStaysExact == Spec => []RegistryIsExact
<1>1. IInv => RegistryIsExact
  BY DEF IInv, RegistryInv
<1> QED BY <1>1, Inductive, PTL

(* Everything past the edge of handle_request_async is of the pinned era.   *)
THEOREM OneEraWins == Spec => []OneEra
<1>1. IInv => OneEra
  BY DEF IInv, EraInv
<1> QED BY <1>1, Inductive, PTL

(* A handshake sent without waiting for answers takes effect in order.      *)
THEOREM HandshakesMayBePipelined == Spec => []PipelinedHandshake
<1>1. IInv => PipelinedHandshake
  BY DEF IInv, HandshakeInv
<1> QED BY <1>1, Inductive, PTL

(* A cancellation reaches the request it names and no other: but for the    *)
(* timeout that a call is answered with, nothing else sets its flag, and    *)
(* nobody who has not cancelled is told "cancelled".                        *)
THEOREM CancellationsHitTheirTarget == Spec => []CancellationIsExact
<1>1. ASSUME IInv PROVE CancellationIsExact
  <2>1. ASSUME NEW n \in Line, Marked(n)
        PROVE  \E k \in n + 1 .. Len(line) : Cancels(k, n)
    BY <1>1, <2>1 DEF IInv, CancelInv, Current
  <2>2. ASSUME NEW n \in Registered, main \notin {"notifying", "applying", "flagging"},
               NEW k \in n + 1 .. Len(line), Cancels(k, n)
        PROVE  flag[n]
    <3>1. flag[n] \/ Carrying(k, n)
      BY <1>1, <2>2 DEF IInv, CancelInv, Current
    <3> QED BY <2>2, <3>1 DEF Carrying
  <2> QED BY <2>1, <2>2 DEF CancellationIsExact, Marked
<1> QED BY <1>1, Inductive, PTL

(* No line is answered twice, and when the process exits every request and  *)
(* junk line it read has its answer on stdout, unless stdout failed.        *)
THEOREM EveryLineAnsweredOnce == Spec => []AnsweredOnce
<1>1. ASSUME IInv PROVE AnsweredOnce
  <2>0. DOMAIN out = 1 .. Len(out)
    BY <1>1 DEF IInv, TypeOK
  <2>1. ASSUME NEW n \in Line
        PROVE  stdout[n] + Cardinality({a \in 1 .. Len(out) : out[a] = n}) <= 1
    <3> DEFINE Held == {a \in 1 .. Len(out) : out[a] = n}
    <3>1. stdout[n] \in {0, 1}
      BY <1>1 DEF IInv, AnswerInv
    <3>2. Held = {} \/ (stdout[n] = 0 /\ \E a : Held = {a})
      <4> SUFFICES ASSUME NEW a \in Held
                   PROVE  Held = {a} /\ stdout[n] = 0
        OBVIOUS
      <4> QED BY <1>1, <2>0 DEF IInv, AnswerInv
    <3> SUFFICES stdout[n] + Cardinality(Held) <= 1
      OBVIOUS
    <3> HIDE DEF Held
    <3>3. CASE Held = {}
      BY <3>1, <3>3, FS_EmptySet
    <3>4. CASE Held # {}
      <4>1. Cardinality(Held) = 1
        BY <3>2, <3>4, FS_Singleton
      <4> QED BY <3>2, <3>4, <4>1
    <3> QED BY <3>3, <3>4
  <2>2. ASSUME main = "exited"
        PROVE  /\ Pending = {} /\ out = <<>>
               /\ writer # "failed" => \A n \in Line : Wants(n) <=> stdout[n] = 1
    <3>1. Pending = {} /\ out = <<>> /\ DOMAIN out = {}
      <4>1. Pending = {} /\ out = <<>>
        BY <1>1, <2>2 DEF IInv, TypeOK, ShutdownInv, Pending
      <4> QED BY <4>1
    <3>2. ASSUME NEW n \in Line, Wants(n), writer # "failed"
          PROVE  stdout[n] = 1
      <4>1. Emitted(n)
        BY <1>1, <2>2, <3>1, <3>2 DEF IInv, WantedInv, Emitted, Pending
      <4> QED BY <1>1, <3>1, <3>2, <4>1 DEF IInv, DeliveredInv
    <3>3. ASSUME NEW n \in Line, stdout[n] = 1
          PROVE  Wants(n)
      <4>1. pc[n] # "none" \/ outcome[n] # "none"
        BY <1>1, <3>3 DEF IInv, AnswerInv, Emitted
      <4>2. pc[n] # "none" => Wants(n)
        BY <1>1, StartedIsWanted DEF IInv
      <4> QED BY <1>1, <4>1, <4>2 DEF IInv, WantedInv
    <3> QED BY <3>1, <3>2, <3>3
  <2> QED BY <2>1, <2>2 DEF AnsweredOnce
<1> QED BY <1>1, Inductive, PTL

-----------------------------------------------------------------------------
(* The conversation a client sees. *)

Seen == <<line, era, session, outcome, Owed, stdout, writer = "failed", main = "exited">>

LEMMA EraOfLine ==
  ASSUME TypeOK, NEW n \in 1 .. Current
  PROVE  EraOf[line[n]] = Classify(line[n]) /\ Classify(line[n]) \in {"legacy", "modern", "rejected"}
<1>1. line[n] \in Messages
  BY DEF TypeOK, Current
<1>2. EraOf[line[n]] = Classify(line[n])
  BY <1>1 DEF EraOf
<1>3. line[n] \in [kind : Kinds, method : Methods, claim : Claims, id : Ids]
  BY LineFacts
<1> QED BY <1>2, <1>3, ClassifyRange

(* A request of the pinned era. *)
LEMMA PinnedIsOf ==
  ASSUME TypeOK, LoopInv, EraInv, NEW n \in Line, pc[n] \in {"pinned", "working"}
  PROVE  /\ n \in 1 .. Current /\ EraOf[line[n]] = era /\ era \in {"legacy", "modern"}
         /\ Legacy(n) <=> era = "legacy"
<1>1. n \in 1 .. Current
  BY LineFacts DEF LoopInv, Line
<1> QED BY <1>1, EraOfLine DEF EraInv, OneEra, TypeOK, Legacy

(* The answer to a line still owed one is decided in one of the ways the    *)
(* conversation allows.                                                     *)
LEMMA AnsweringDecides ==
  ASSUME IInv, NEW n \in Line, Answers(n)
  PROVE  Promise!Next
<1>1. PICK o \in Outcomes \ {"none", "duplicate", "too_many"} : Answer(n, o)
  BY Answering
<1>2. /\ pc[n] \in {"started", "pinned", "working"} /\ era' = era
      /\ n \in 1 .. Current /\ line' = line /\ main' = main
  <2>1. pc[n] \in {"started", "pinned", "working"} /\ era' = era
    BY Answering
  <2> QED BY <1>1, <2>1, LineFacts DEF IInv, LoopInv, Line, Answer
<1>3. n \in Promise!Undecided /\ n \in Owed
  BY <1>2 DEF Promise!Undecided, Owed, IInv, ServingInv
<1>4. Owed' = Owed
  <2>1. \A k \in Line : pc'[k] \in {"none", "ended"} <=> pc[k] \in {"none", "ended"}
    BY <1>1, <1>2 DEF Answer, IInv, TypeOK
  <2> QED BY <1>2, <2>1 DEF Owed, Current
<1>5. ASSUME NEW a, Answer(n, a)
      PROVE  Promise!Decide(n, a)
  BY <1>2, <1>4, <1>5 DEF Answer, Promise!Decide, channel
<1>6. EraOf[line[n]] = Classify(line[n])
  BY <1>2, EraOfLine DEF IInv
<1>7. CASE RejectClaim(n)
  <2>1. Promise!Reject(n)
    BY <1>5, <1>6, <1>7 DEF RejectClaim, Promise!Reject
  <2> QED BY <1>3, <2>1 DEF Promise!Next
<1>8. CASE RejectEra(n)
  <2>1. Promise!Reject(n)
    BY <1>5, <1>6, <1>8 DEF RejectEra, Promise!Reject, Admits
  <2> QED BY <1>3, <2>1 DEF Promise!Next
<1>9. CASE Initialize(n)
  <2>1. Promise!Of(n, "legacy") /\ line[n].method = "initialize"
    BY <1>9, PinnedIsOf DEF IInv, Initialize, Promise!Of
  <2>2. Promise!Open(n)
    BY <1>5, <1>9, <2>1 DEF Initialize, Promise!Open
  <2> QED BY <1>3, <2>2 DEF Promise!Next
<1>10. CASE RejectUnready(n)
  <2>1. Promise!Of(n, "legacy") /\ session # "ready" /\ NeedsReady(n)
    BY <1>10, PinnedIsOf DEF IInv, RejectUnready, IsServed, Promise!Of
  <2>2. Promise!Serve(n)
    BY <1>5, <1>10, <2>1 DEF RejectUnready, Promise!Serve, NeedsReady
  <2> QED BY <1>3, <2>2 DEF Promise!Next
<1>11. CASE AnswerAtOnce(n)
  <2>1. /\ Legacy(n) => Promise!Of(n, "legacy")
        /\ ~Legacy(n) => Promise!Of(n, "modern")
        /\ IsServed(n) => Promise!IsOpen(n)
    BY <1>11, PinnedIsOf DEF IInv, AnswerAtOnce, IsServed, Promise!Of, Promise!IsOpen
  <2>2. Promise!Serve(n)
    <3>1. session' = session
      BY <1>11 DEF AnswerAtOnce
    <3>2. CASE IsServed(n) /\ Answer(n, "result")
      BY <1>5, <2>1, <3>1, <3>2 DEF Promise!Serve, IsServed, NeedsReady
    <3>3. CASE Legacy(n) /\ line[n].method = "ping" /\ Answer(n, "result")
      BY <1>5, <2>1, <3>1, <3>3 DEF Promise!Serve
    <3>4. CASE Legacy(n) /\ line[n].method = "initialized" /\ Answer(n, "method_error")
      BY <1>5, <2>1, <3>1, <3>4 DEF Promise!Serve
    <3>5. CASE ~Legacy(n) /\ ~NeedsReady(n) /\ Answer(n, "method_error")
      BY <1>5, <2>1, <3>1, <3>5 DEF Promise!Serve, NeedsReady
    <3> QED BY <1>11, <3>2, <3>3, <3>4, <3>5 DEF AnswerAtOnce
  <2> QED BY <1>3, <2>2 DEF Promise!Next
<1>12. CASE EndCall(n)
  <2>1. /\ line[n].method = "call" /\ Promise!IsOpen(n)
        /\ flag[n] => Promise!Cancelled(n)
    <3>1. line[n].method = "call" /\ IsServed(n)
      BY <1>12 DEF EndCall, IInv, LoopInv, ServingInv
    <3>0. flag[n] => Marked(n)
      BY <1>12 DEF EndCall, IInv, ServingInv, Marked
    <3>2. Promise!IsOpen(n)
      BY <1>12, <3>1, PinnedIsOf DEF IInv, EndCall, IsServed, Promise!Of, Promise!IsOpen
    <3>3. ASSUME flag[n]
          PROVE  Promise!Cancelled(n)
      <4>1. PICK k \in n + 1 .. Current : Cancels(k, n)
        BY <3>0, <3>3 DEF IInv, CancelInv
      <4>2. k \in 1 .. Current
        BY <1>2, LineFacts DEF IInv
      <4>3. EraOf[line[k]] = Classify(line[k])
        BY <4>2, EraOfLine DEF IInv
      <4> QED BY <4>1, <4>3 DEF Promise!Cancelled, Promise!Last, Cancels, Current
    <3> QED BY <3>1, <3>2, <3>3
  <2>2. Promise!Serve(n)
    BY <1>5, <1>12, <2>1 DEF EndCall, Promise!Serve
  <2> QED BY <1>3, <2>2 DEF Promise!Next
<1>13. CASE Panic(n)
  <2>1. Promise!Fail(n)
    BY <1>5, <1>13 DEF Panic, Promise!Fail, HandledInline
  <2> QED BY <1>3, <2>1 DEF Promise!Next
<1>14. CASE TimeOutCall(n)
  <2>1. line[n].method = "call" /\ IsServed(n)
    BY <1>14 DEF TimeOutCall, IInv, LoopInv, ServingInv
  <2>2. Promise!IsOpen(n)
    BY <1>14, <2>1, PinnedIsOf DEF IInv, TimeOutCall, IsServed, Promise!Of, Promise!IsOpen
  <2>3. Promise!Serve(n)
    BY <1>5, <1>14, <2>1, <2>2 DEF TimeOutCall, Promise!Serve
  <2> QED BY <1>3, <2>3 DEF Promise!Next
<1> QED BY <1>7, <1>8, <1>9, <1>10, <1>11, <1>12, <1>13, <1>14 DEF Answers

(* Nothing is read before an initialize has been answered and what          *)
(* completes the handshake has taken effect.                                *)
LEMMA ReadingHears ==
  ASSUME IInv, ReadLine
  PROVE  Promise!Hear
<1>1. PICK m \in Messages :
        /\ line' = Append(line, m)
        /\ main' = CASE m.kind = "junk" -> "refusing"
                     [] m.kind = "request" -> "registering"
                     [] m.kind = "notification" -> "notifying"
        /\ outcome' = IF m.kind = "junk" THEN [outcome EXCEPT ![Current + 1] = "invalid"]
                                         ELSE outcome
  BY DEF ReadLine
<1>2. /\ main = "reading" /\ pc' = pc /\ era' = era /\ session' = session /\ stdout' = stdout
      /\ writer' = writer /\ Current < MaxLines
  BY DEF ReadLine, channel
<1>3. m.kind \in Kinds /\ main' \in {"refusing", "registering", "notifying"}
  BY <1>1, MessageAssumption DEF Kinds
<1>4. Current' = Current + 1 /\ Current + 1 \in Line /\ pc[Current + 1] = "none"
      /\ Current \in Nat
  BY Reading, LineFacts DEF IInv, LoopInv, Current
<1>5. Promise!Settled
  <2>1. \A n \in Owed : line[n].method # "initialize"
    BY <1>2 DEF Owed, IInv, LoopInv, HandledInline
  <2>2. ASSUME Current > 0, Promise!Announces(line[Current])
        PROVE  session # "awaiting"
    <3>1. Current \in Line /\ Current \in 1 .. Current
      BY <1>4, <2>2, LineFacts DEF IInv, Line
    <3>2. Completes(Current)
      BY <2>2, <3>1, EraOfLine DEF IInv, Promise!Announces, Completes, Legacy
    <3> QED BY <1>2, <3>1, <3>2 DEF IInv, ServingInv
  <2> QED BY <2>1, <2>2 DEF Promise!Settled, Promise!Last, Current
<1>6. Owed' = IF m.kind = "notification" THEN Owed ELSE Owed \cup {Current + 1}
  <2>1. main' \in {"registering", "refusing"} <=> m.kind # "notification"
    BY <1>1, <1>3 DEF Kinds
  <2> QED BY <1>2, <1>4, <2>1 DEF Owed
<1> QED BY <1>1, <1>2, <1>3, <1>5, <1>6 DEF Promise!Hear, Promise!Last, Current

(* A request is turned away at the door only while the answers that would   *)
(* make room for it have not been handed over.                              *)
LEMMA RefusingIsDue ==
  ASSUME IInv, Refuses
  PROVE  Promise!Refuse
<1>1. /\ main = "registering" /\ main' = "refusing" /\ line' = line /\ pc' = pc
      /\ era' = era /\ session' = session /\ stdout' = stdout /\ writer' = writer
      /\ Current \in Line /\ outcome[Current] = "none" /\ pc[Current] = "none"
  BY DEF Refuses, RefuseCapacity, RefuseDuplicate, Refuse, channel, IInv, LoopInv
<1>2. Owed' = Owed /\ Current \in Owed
  BY <1>1 DEF Owed, Current
<1>3. Current \in Promise!Undecided
  BY <1>1, <1>2 DEF Promise!Undecided
<1>4. ASSUME NEW o, Refuse(o)
      PROVE  Promise!Decide(Current, o)
  BY <1>1, <1>2, <1>4 DEF Refuse, Promise!Decide
<1>5. Registered \subseteq Owed \ {Current}
  BY <1>1 DEF Registered, Owed, IInv, TypeOK
<1>6. CASE RefuseCapacity
  <2>1. IsFiniteSet(Line)
    BY FS_Interval, BoundAssumption DEF Line
  <2>2. IsFiniteSet(Owed \ {Current})
    BY <2>1, FS_Subset DEF Owed
  <2>3. /\ Cardinality(Registered) <= Cardinality(Owed \ {Current})
        /\ Cardinality(Owed \ {Current}) \in Nat
    BY <1>5, <2>2, FS_Subset, FS_CardinalityType
  <2>4. Cardinality(Registered) >= MaxInFlight /\ Cardinality(Registered) \in Nat
    BY <1>6, InFlightIsRegistered DEF IInv, RegistryInv, RefuseCapacity
  <2>5. Cardinality(Owed \ {Current}) >= MaxInFlight
    BY <2>3, <2>4, BoundAssumption
  <2>6. Promise!Decide(Current, "too_many")
    BY <1>4, <1>6 DEF RefuseCapacity
  <2>7. Promise!Cardinality(Owed \ {Current}) = Cardinality(Owed \ {Current})
    BY DEF Promise!Cardinality, Cardinality
  <2> QED BY <1>1, <1>3, <2>5, <2>6, <2>7 DEF Promise!Refuse, Promise!Last, Current
<1>7. CASE RefuseDuplicate
  <2>1. Message.id \in Ids
    BY <1>1, LineFacts DEF IInv, LoopInv, Message, Line
  <2>2. active[Message.id] \in Registered /\ line[active[Message.id]].id = Message.id
    BY <1>7, <2>1 DEF RefuseDuplicate, IInv, RegistryInv, RegistryIsExact
  <2>3. \E k \in Owed \ {Current} : line[k].id = line[Current].id
    BY <1>5, <2>2 DEF Message
  <2> QED BY <1>1, <1>3, <1>4, <1>7, <2>3 DEF RefuseDuplicate, Promise!Refuse, Promise!Last, Current
<1> QED BY <1>6, <1>7 DEF Refuses

(* The first line past the edge settles the era; a later one finds it so.   *)
LEMMA PinningSettles ==
  ASSUME IInv, NEW n \in 1 .. Current, outcome[n] = "none", Classify(line[n]) # "rejected",
         line[n].kind = "notification" => n = Current,
         Admits(Classify(line[n])), era' = Classify(line[n]),
         UNCHANGED <<line, session, outcome, Owed, stdout, writer = "failed", main = "exited">>
  PROVE  Promise!Pin \/ UNCHANGED Seen
<1>1. EraOf[line[n]] = Classify(line[n])
  BY EraOfLine DEF IInv
<1>2. CASE era = "undecided"
  BY <1>1, <1>2 DEF Promise!Pin, Promise!Last, Current
<1>3. CASE era # "undecided"
  BY <1>3 DEF Admits, Seen
<1> QED BY <1>2, <1>3

LEMMA InitSeen ==
  ASSUME Init
  PROVE  Promise!Init
<1>1. Owed = {}
  BY DEF Init, Owed
<1> QED BY <1>1 DEF Init, Promise!Init, Line

(* The loop. *)
LEMMA LoopSeen ==
  ASSUME IInv, Quiet \/ LoopMoves
  PROVE  Promise!Next \/ UNCHANGED Seen
<1>1. CASE Quiet /\ ~Exit
  <2>1. /\ line' = line /\ era' = era /\ session' = session /\ outcome' = outcome /\ pc' = pc
        /\ stdout' = stdout /\ writer' = writer
        /\ main \notin {"registering", "refusing", "exited"}
        /\ main' \notin {"registering", "refusing", "exited"}
    BY <1>1 DEF Quiet, CheckWriter, ReadEof, FinishInitialize, DropNotification, JoinTasks, channel
  <2>2. Owed' = Owed
    BY <2>1 DEF Owed, Current
  <2> QED BY <2>1, <2>2 DEF Seen
<1>2. CASE Exit
  <2>1. /\ main = "draining" /\ writer # "running" /\ main' = "exited" /\ line' = line
        /\ era' = era /\ session' = session /\ outcome' = outcome /\ pc' = pc
        /\ stdout' = stdout /\ writer' = writer
    BY <1>2 DEF Exit, channel
  <2>2. Owed = {} /\ Owed' = Owed
    BY <2>1 DEF IInv, ShutdownInv, Owed, Current
  <2>3. ASSUME writer # "failed", NEW n \in 1 .. Current, line[n].kind # "notification"
        PROVE  stdout[n] = 1
    <3>1. n \in Line /\ Wants(n)
      BY <2>3, LineFacts DEF IInv, Wants, Current
    <3>2. Emitted(n)
      BY <2>1, <3>1 DEF IInv, WantedInv, ShutdownInv, Emitted
    <3>3. out = <<>> /\ DOMAIN out = {}
      <4>1. out = <<>>
        BY <2>1, <2>3 DEF IInv, TypeOK, ShutdownInv
      <4> QED BY <4>1
    <3> QED BY <2>3, <3>1, <3>2, <3>3 DEF IInv, DeliveredInv
  <2>4. Promise!HangUp
    BY <2>1, <2>2, <2>3 DEF Promise!HangUp, Promise!Last, Current
  <2> QED BY <2>4 DEF Promise!Next
<1>3. CASE Refuses
  BY <1>3, RefusingIsDue DEF Promise!Next
<1>4. CASE SendRefusal
  <2>1. /\ main = "refusing" /\ main' = "checking" /\ line' = line /\ era' = era
        /\ session' = session /\ outcome' = outcome /\ pc' = pc /\ stdout' = stdout
        /\ writer' = writer /\ Current \in Line /\ pc[Current] = "none"
        /\ outcome[Current] # "none"
    BY <1>4 DEF SendRefusal, Emit, IInv, LoopInv
  <2>2. Current \in Owed /\ Owed' = Owed \ {Current}
    BY <2>1 DEF Owed, Current
  <2>3. Promise!HandOver(Current)
    BY <2>1, <2>2 DEF Promise!HandOver
  <2> QED BY <2>2, <2>3 DEF Promise!Next
<1>5. CASE Register
  <2>1. /\ main = "registering" /\ main' \in {"initializing", "checking"} /\ line' = line
        /\ era' = era /\ session' = session /\ outcome' = outcome /\ stdout' = stdout
        /\ writer' = writer /\ Current \in Line /\ pc'[Current] \in {"started", "spawned"}
        /\ \A n \in Line : n # Current => pc'[n] = pc[n]
    BY <1>5 DEF Register, channel, IInv, LoopInv, TypeOK
  <2>2. Owed' = Owed
    BY <2>1 DEF Owed, Current
  <2> QED BY <2>1, <2>2 DEF Seen
<1>6. CASE PinNotification
  <2>1. /\ main = "notifying" /\ main' = "applying" /\ line' = line /\ session' = session
        /\ outcome' = outcome /\ pc' = pc /\ stdout' = stdout /\ writer' = writer
        /\ Classify(line[Current]) # "rejected" /\ Admits(Classify(line[Current]))
        /\ era' = Classify(line[Current])
    BY <1>6 DEF PinNotification, channel, Message
  <2>2. Current \in 1 .. Current /\ Current \in Line /\ line[Current].kind = "notification"
    BY <2>1, LineFacts DEF IInv, LoopInv, Message, Line
  <2>3. outcome[Current] = "none"
    BY <2>2 DEF IInv, WantedInv, Wants
  <2>4. Owed' = Owed
    BY <2>1 DEF Owed, Current
  <2> QED BY <2>1, <2>2, <2>3, <2>4, PinningSettles DEF Promise!Next
<1>7. CASE ApplyInitialized
  <2>1. /\ main = "applying" /\ main' = "checking" /\ line' = line /\ era' = era
        /\ outcome' = outcome /\ pc' = pc /\ stdout' = stdout /\ writer' = writer
    BY <1>7 DEF ApplyInitialized, channel
  <2>2. Owed' = Owed
    BY <2>1 DEF Owed, Current
  <2>3. CASE session' = session
    BY <2>1, <2>2, <2>3 DEF Seen
  <2>4. CASE session' # session
    <3>1. /\ session = "awaiting" /\ session' = "ready" /\ Message.method = "initialized"
          /\ Classify(Message) = "legacy"
      BY <1>7, <2>4 DEF ApplyInitialized
    <3>2. Current \in 1 .. Current /\ line[Current].kind = "notification"
      BY <2>1, LineFacts DEF IInv, LoopInv, Message, Line
    <3>3. Promise!Announces(line[Current]) /\ Current > 0
      BY <3>1, <3>2, EraOfLine, LineFacts DEF IInv, Message, Promise!Announces
    <3>4. Promise!Complete
      BY <2>1, <2>2, <3>1, <3>3 DEF Promise!Complete, Promise!Last, Current
    <3> QED BY <3>4 DEF Promise!Next
  <2> QED BY <2>3, <2>4
<1>8. CASE LookUpCancelled \/ SetCancelFlag
  <2>1. /\ line' = line /\ era' = era /\ session' = session /\ outcome' = outcome /\ pc' = pc
        /\ stdout' = stdout /\ writer' = writer
        /\ main \notin {"registering", "refusing", "exited"}
        /\ main' \notin {"registering", "refusing", "exited"}
    BY <1>8 DEF LookUpCancelled, SetCancelFlag, channel
  <2>2. Owed' = Owed
    BY <2>1 DEF Owed, Current
  <2> QED BY <2>1, <2>2 DEF Seen
<1> QED BY <1>1, <1>2, <1>3, <1>4, <1>5, <1>6, <1>7, <1>8 DEF Quiet, LoopMoves

(* The tasks. *)
LEMMA TaskSeen ==
  ASSUME IInv, NEW n \in Line, Advances(n)
  PROVE  Promise!Next \/ UNCHANGED Seen
<1>1. CASE Answers(n)
  BY <1>1, AnsweringDecides
<1>2. CASE ~Answers(n) /\ ~Send(n)
  <2>1. /\ line' = line /\ session' = session /\ outcome' = outcome /\ main' = main
        /\ stdout' = stdout /\ writer' = writer
        /\ \A k \in Line : pc'[k] \in {"none", "ended"} <=> pc[k] \in {"none", "ended"}
    BY <1>2 DEF Advances, Start, PinRequest, BeginCall, Complete, DropGuard, RunDeferred, channel,
       IInv, TypeOK
  <2>2. Owed' = Owed
    BY <2>1 DEF Owed, Current
  <2>3. CASE PinRequest(n)
    <3>1. /\ n \in 1 .. Current /\ line[n].kind = "request" /\ outcome[n] = "none"
      BY <2>3, LineFacts DEF PinRequest, IInv, LoopInv, ServingInv, Line
    <3> QED BY <2>1, <2>2, <2>3, <3>1, PinningSettles DEF PinRequest, Promise!Next
  <2>4. CASE ~PinRequest(n)
    BY <1>2, <2>1, <2>2, <2>4 DEF Advances, Start, BeginCall, Complete, DropGuard, RunDeferred, Seen
  <2> QED BY <2>3, <2>4
<1>3. CASE Send(n)
  <2>1. /\ pc[n] = "sending" /\ line' = line /\ era' = era /\ session' = session
        /\ outcome' = outcome /\ main' = main /\ stdout' = stdout /\ writer' = writer
        /\ pc' = [pc EXCEPT ![n] = "ended"] /\ outcome[n] # "none"
    BY <1>3 DEF Send, Emit, IInv, ServingInv
  <2>2. ~(n = Current /\ main \in {"registering", "refusing"})
    BY <2>1 DEF IInv, LoopInv
  <2>3. n \in Owed /\ Owed' = Owed \ {n}
    BY <2>1, <2>2 DEF Owed, Current, IInv, TypeOK
  <2>4. Promise!HandOver(n)
    BY <2>1, <2>3 DEF Promise!HandOver
  <2> QED BY <2>3, <2>4 DEF Promise!Next
<1> QED BY <1>1, <1>2, <1>3

(* The writer. *)
LEMMA WriterSeen ==
  ASSUME IInv, WriterMoves
  PROVE  Promise!Next \/ UNCHANGED Seen
<1>1. /\ line' = line /\ era' = era /\ session' = session /\ outcome' = outcome /\ pc' = pc
      /\ main' = main /\ Owed' = Owed
  BY DEF WriterMoves, Write, WriteFails, WriterEnds, Owed, Current
<1>2. CASE Write
  <2>1. out # <<>> /\ out \in Seq(Line) /\ writer = "running" /\ writer' = writer
        /\ stdout' = [stdout EXCEPT ![Head(out)] = @ + 1]
    BY <1>2 DEF Write, IInv, TypeOK
  <2>2. Head(out) = out[1] /\ 1 \in DOMAIN out /\ out[1] \in Line
    BY <2>1, HeadTailProperties, LenProperties
  <2>3. PICK n \in Line : n = out[1]
    BY <2>2
  <2>4. stdout[n] = 0 /\ Emitted(n)
    BY <2>2, <2>3 DEF IInv, AnswerInv
  <2>5. outcome[n] # "none" /\ n \in 1 .. Current /\ n \notin Owed
    <3>1. outcome[n] # "none"
      BY <2>4 DEF Emitted, IInv, ServingInv
    <3>2. n \in 1 .. Current
      BY <3>1, LineFacts DEF IInv, LoopInv, Line
    <3>3. n \notin Owed
      BY <2>4 DEF Emitted, Owed, IInv, LoopInv
    <3> QED BY <3>1, <3>2, <3>3
  <2>6. stdout' = [stdout EXCEPT ![n] = 1]
    <3>1. Head(out) = n /\ stdout[n] + 1 = 1
      BY <2>2, <2>3, <2>4
    <3> QED BY <2>1, <3>1
  <2>7. Promise!Tell(n)
    BY <1>1, <2>1, <2>4, <2>5, <2>6 DEF Promise!Tell
  <2> QED BY <2>5, <2>7 DEF Promise!Next, Promise!Last, Current
<1>3. CASE WriteFails
  <2>1. Promise!CutOff
    BY <1>1, <1>3 DEF WriteFails, Promise!CutOff
  <2> QED BY <2>1 DEF Promise!Next
<1>4. CASE WriterEnds
  BY <1>1, <1>4 DEF WriterEnds, Seen
<1> QED BY <1>2, <1>3, <1>4 DEF WriterMoves

LEMMA StepSeen ==
  ASSUME IInv, [Next]_vars
  PROVE  [Promise!Next]_(Promise!vars)
<1> SUFFICES Promise!Next \/ UNCHANGED Seen
  BY DEF Promise!vars, Seen
<1>1. CASE ReadLine
  BY <1>1, ReadingHears DEF Promise!Next
<1>2. CASE UNCHANGED vars
  BY <1>2 DEF vars, channel, Seen, Owed, Current
<1> QED BY <1>1, <1>2, LoopSeen, TaskSeen, WriterSeen, Steps

(* The server implements the conversation: what the loop, the tasks, the    *)
(* registry, the flags and the writer do in any order comes to one client   *)
(* and one sequential session, every answer accounted for by what was said. *)
THEOREM ServerConverses == Spec => KeepsConversation
<1>1. Init => Promise!Init
  BY InitSeen
<1>2. IInv /\ [Next]_vars => [Promise!Next]_(Promise!vars)
  BY StepSeen
<1> QED BY <1>1, <1>2, Inductive, PTL DEF Spec, KeepsConversation, Promise!Spec
-----------------------------------------------------------------------------
(* Termination.  A behaviour is stuck only where the server waits for the   *)
(* client or has exited; and there is an end to what is left to do.  Under  *)
(* a scheduler that runs whoever is ready, every request is therefore       *)
(* answered and every shutdown completes.                                   *)

(* The guards of the loop, of a request and of the writer. *)
HasRoom == writer = "failed" \/ Len(out) < WriterCapacity
LoopReady ==
  \/ main \in {"checking", "registering", "notifying", "applying", "flagging"}
  \/ main = "refusing" /\ HasRoom
  \/ main = "initializing" /\ pc[Current] = "ended"
  \/ main = "joining" /\ \A n \in Line : pc[n] \in {"none", "ended"}
  \/ main = "draining" /\ writer # "running"
RequestReady(n) ==
  \/ pc[n] \in {"spawned", "started", "pinned", "working", "answered", "completed"}
  \/ pc[n] = "sending" /\ HasRoom
WriterReady == writer = "running" /\ (out # <<>> \/ SendersGone)

NobodyIsWedged ==
  /\ \A n \in Pending : RequestReady(n) \/ WriterReady
  /\ main \notin {"reading", "exited"} =>
       LoopReady \/ WriterReady \/ \E n \in Line : RequestReady(n)

(* How many steps the loop, the request of a line, its answer and its       *)
(* cleanup, and the writer still have before them.                          *)
LoopSteps == [notifying |-> 5, registering |-> 4, applying |-> 4, refusing |-> 3,
              initializing |-> 3, flagging |-> 3, checking |-> 2, reading |-> 1]
ExitSteps == [joining |-> 2, draining |-> 1, exited |-> 0]
TaskSteps == [none |-> 8, spawned |-> 7, started |-> 6, pinned |-> 5, working |-> 4,
              answered |-> 3, completed |-> 2, sending |-> 1, ended |-> 0]
LoopLeft == IF main \in {"joining", "draining", "exited"} THEN ExitSteps[main]
            ELSE 2 + LoopSteps[main] + 5 * (MaxLines - Current)
CleanedUp(n) == pc[n] \in {"sending", "ended"} /\ n \notin deferred
LineLeft(n) == TaskSteps[pc[n]] + (IF stdout[n] = 0 THEN 1 ELSE 0)
                                + (IF CleanedUp(n) THEN 0 ELSE 1)
WriterLeft == IF writer = "running" THEN 1 ELSE 0

Fewer == \/ LoopLeft' < LoopLeft
         \/ WriterLeft' < WriterLeft
         \/ \E n \in Line : LineLeft(n)' < LineLeft(n)
NoMore == /\ LoopLeft' <= LoopLeft
          /\ WriterLeft' <= WriterLeft
          /\ \A n \in Line : LineLeft(n)' <= LineLeft(n)
Counters == LoopLeft \in Nat /\ WriterLeft \in Nat /\ \A n \in Line : LineLeft(n) \in Nat
EveryStepCounts == [][NoMore /\ Fewer]_vars

LEMMA NotWedged ==
  ASSUME IInv
  PROVE  NobodyIsWedged
<1>1. HasRoom \/ WriterReady
  <2>1. Len(<<>>) = 0 /\ WriterCapacity > 0
    BY BoundAssumption
  <2> QED BY <2>1 DEF IInv, TypeOK, ShutdownInv, HasRoom, WriterReady
<1>2. ASSUME NEW n \in Pending
      PROVE  RequestReady(n) \/ WriterReady
  BY <1>1, <1>2 DEF Pending, RequestReady, IInv, TypeOK, TaskStates
<1>3. main = "initializing" => Current \in Line /\ (pc[Current] = "ended" \/ Current \in Pending)
  BY DEF IInv, LoopInv, Pending
<1>4. main = "joining" => LoopReady \/ \E n \in Line : n \in Pending
  BY DEF LoopReady, Pending
<1>5. main = "draining" => LoopReady \/ WriterReady
  BY DEF IInv, TypeOK, LoopReady, WriterReady, SendersGone
<1>6. Pending \subseteq Line
  BY DEF Pending
<1>7. main \notin {"reading", "exited"} =>
        LoopReady \/ WriterReady \/ \E n \in Line : RequestReady(n)
  BY <1>1, <1>2, <1>3, <1>4, <1>5, <1>6 DEF IInv, TypeOK, MainStates, LoopReady
<1> QED BY <1>2, <1>7 DEF NobodyIsWedged

LEMMA LeftTypes ==
  ASSUME TypeOK
  PROVE  Counters
<1>1. LoopLeft \in Nat
  <2>1. Current \in Nat /\ MaxLines \in Nat /\ Current <= MaxLines
    BY LineFacts, BoundAssumption
  <2>2. main \in {"joining", "draining", "exited"} => ExitSteps[main] \in Nat
    BY DEF ExitSteps
  <2>3. main \notin {"joining", "draining", "exited"} => LoopSteps[main] \in Nat
    BY DEF LoopSteps, TypeOK, MainStates
  <2> QED BY <2>1, <2>2, <2>3 DEF LoopLeft
<1>2. \A n \in Line : TaskSteps[pc[n]] \in Nat
  BY DEF TaskSteps, TypeOK, TaskStates
<1> QED BY <1>1, <1>2 DEF Counters, WriterLeft, LineLeft

LEMMA LeftTypesNext == TypeOK' => Counters'
<1>1. TypeOK => Counters
  BY LeftTypes
<1> QED BY <1>1, PTL

LEMMA StepCounts ==
  ASSUME TypeOK, LoopInv, RegistryInv, AnswerInv, TypeOK', [Next]_vars, vars' # vars
  PROVE  NoMore /\ Fewer
<1>0. Counters /\ Counters' /\ Current \in Nat /\ MaxLines \in Nat
  BY LeftTypes, LeftTypesNext, LineFacts, BoundAssumption
<1>1. ASSUME LoopLeft' < LoopLeft, WriterLeft' = WriterLeft,
             \A n \in Line : LineLeft(n)' <= LineLeft(n)
      PROVE  NoMore /\ Fewer
  BY <1>0, <1>1 DEF NoMore, Fewer, Counters
<1>2. CASE Quiet
  <2>1. LoopLeft' < LoopLeft
    <3>1. Current' = Current
      BY <1>2 DEF Quiet, CheckWriter, ReadEof, FinishInitialize, DropNotification, JoinTasks,
         Exit, Current
    <3>2. <<main, main'>> \in {<<"checking", "joining">>, <<"checking", "reading">>,
                              <<"reading", "joining">>, <<"initializing", "checking">>,
                              <<"notifying", "checking">>, <<"joining", "draining">>,
                              <<"draining", "exited">>}
      BY <1>2 DEF Quiet, CheckWriter, ReadEof, FinishInitialize, DropNotification, JoinTasks, Exit
    <3>3. Current <= MaxLines
      BY LineFacts
    <3> QED BY <1>0, <3>1, <3>2, <3>3 DEF LoopLeft, LoopSteps, ExitSteps
  <2>2. /\ pc' = pc /\ stdout' = stdout /\ deferred' = deferred /\ writer' = writer
    BY <1>2 DEF Quiet, CheckWriter, ReadEof, FinishInitialize, DropNotification, JoinTasks, Exit,
       channel, registry
  <2>3. WriterLeft' = WriterLeft /\ \A n \in Line : LineLeft(n)' = LineLeft(n)
    BY <2>2 DEF WriterLeft, LineLeft, CleanedUp
  <2> QED BY <1>0, <1>1, <2>1, <2>3 DEF Counters
<1>3. CASE ReadLine
  <2>1. main = "reading" /\ main' \in {"refusing", "registering", "notifying"}
    BY <1>3, MessageAssumption DEF ReadLine, Kinds
  <2>2. Current' = Current + 1 /\ Current + 1 \in Line
    BY <1>3, Reading DEF Current
  <2>3. LoopLeft' < LoopLeft
    BY <1>0, <2>1, <2>2 DEF LoopLeft, LoopSteps, Line
  <2>4. /\ pc' = pc /\ stdout' = stdout /\ deferred' = deferred /\ writer' = writer
    BY <1>3 DEF ReadLine, channel, registry
  <2>5. WriterLeft' = WriterLeft /\ \A n \in Line : LineLeft(n)' = LineLeft(n)
    BY <2>4 DEF WriterLeft, LineLeft, CleanedUp
  <2> QED BY <1>0, <1>1, <2>3, <2>5 DEF Counters
<1>4. CASE LoopMoves /\ ~Register
  <2>1. Current' = Current
    BY <1>4 DEF LoopMoves, Refuses, RefuseCapacity, RefuseDuplicate, Refuse, SendRefusal,
       PinNotification, ApplyInitialized, LookUpCancelled, SetCancelFlag, Current
  <2>2. LoopLeft' < LoopLeft
    BY <1>0, <1>4, <2>1 DEF LoopMoves, Refuses, RefuseCapacity, RefuseDuplicate, Refuse,
       SendRefusal, PinNotification, ApplyInitialized, LookUpCancelled, SetCancelFlag,
       LoopLeft, LoopSteps
  <2>3. /\ pc' = pc /\ stdout' = stdout /\ deferred' = deferred /\ writer' = writer
    BY <1>4 DEF LoopMoves, Refuses, RefuseCapacity, RefuseDuplicate, Refuse, SendRefusal, Emit,
       PinNotification, ApplyInitialized, LookUpCancelled, SetCancelFlag, channel, registry
  <2>4. WriterLeft' = WriterLeft /\ \A n \in Line : LineLeft(n)' = LineLeft(n)
    BY <2>3 DEF WriterLeft, LineLeft, CleanedUp
  <2> QED BY <1>0, <1>1, <2>2, <2>4 DEF Counters
<1>5. CASE Register
  <2>1. /\ Current' = Current /\ main = "registering" /\ main' \in {"initializing", "checking"}
        /\ stdout' = stdout /\ deferred' = deferred /\ writer' = writer
        /\ Current \in Line /\ pc[Current] = "none" /\ pc'[Current] \in {"started", "spawned"}
        /\ \A n \in Line \ {Current} : pc'[n] = pc[n]
    BY <1>5 DEF Register, LoopInv, TypeOK, Current, channel
  <2>2. LoopLeft' < LoopLeft
    BY <1>0, <2>1 DEF LoopLeft, LoopSteps
  <2>3. ASSUME NEW n \in Line
        PROVE  LineLeft(n)' <= LineLeft(n)
    <3>1. CASE n = Current
      BY <2>1, <3>1 DEF LineLeft, CleanedUp, TaskSteps
    <3>2. CASE n # Current
      <4>1. LineLeft(n)' = LineLeft(n)
        BY <2>1, <3>2 DEF LineLeft, CleanedUp
      <4> QED BY <1>0, <4>1 DEF Counters
    <3> QED BY <3>1, <3>2
  <2>4. WriterLeft' = WriterLeft
    BY <2>1 DEF WriterLeft
  <2> QED BY <1>1, <2>2, <2>3, <2>4
<1>6. CASE WriteFails \/ WriterEnds
  <2>1. /\ main' = main /\ line' = line /\ pc' = pc /\ stdout' = stdout /\ deferred' = deferred
        /\ writer = "running" /\ writer' \in {"failed", "done"}
    BY <1>6 DEF WriteFails, WriterEnds, registry
  <2>2. LoopLeft' = LoopLeft /\ \A n \in Line : LineLeft(n)' = LineLeft(n)
    BY <2>1 DEF LoopLeft, LineLeft, CleanedUp, Current
  <2>3. WriterLeft = 1 /\ WriterLeft' = 0
    BY <2>1 DEF WriterLeft
  <2> QED BY <1>0, <2>2, <2>3 DEF NoMore, Fewer, Counters
<1>7. ASSUME LoopLeft' = LoopLeft, WriterLeft' = WriterLeft, NEW n \in Line,
             LineLeft(n)' < LineLeft(n),
             \A k \in Line \ {n} : LineLeft(k)' = LineLeft(k)
      PROVE  NoMore /\ Fewer
  <2>1. ASSUME NEW k \in Line PROVE LineLeft(k)' <= LineLeft(k)
    BY <1>0, <1>7 DEF Counters
  <2> QED BY <1>0, <1>7, <2>1 DEF NoMore, Fewer, Counters
<1>8. CASE Write
  <2>1. /\ main' = main /\ line' = line /\ pc' = pc /\ deferred' = deferred /\ writer' = writer
        /\ stdout' = [stdout EXCEPT ![Head(out)] = @ + 1] /\ out # <<>> /\ out \in Seq(Line)
    BY <1>8 DEF Write, registry, TypeOK
  <2>2. PICK h \in Line : h = Head(out) /\ h = out[1] /\ 1 \in DOMAIN out
    BY <2>1, HeadTailProperties, LenProperties
  <2>3. stdout[h] = 0 /\ stdout'[h] = 1 /\ \A k \in Line \ {h} : stdout'[k] = stdout[k]
    BY <2>1, <2>2 DEF AnswerInv, TypeOK
  <2>4. LoopLeft' = LoopLeft /\ WriterLeft' = WriterLeft
    BY <2>1 DEF LoopLeft, WriterLeft, Current
  <2>5. \A k \in Line \ {h} : LineLeft(k)' = LineLeft(k)
    BY <2>1, <2>3 DEF LineLeft, CleanedUp
  <2>6. LineLeft(h)' < LineLeft(h)
    <3>1. TaskSteps[pc[h]] \in Nat
      BY DEF TaskSteps, TypeOK, TaskStates
    <3> QED BY <2>1, <2>3, <3>1 DEF LineLeft, CleanedUp
  <2> QED BY <1>7, <2>4, <2>5, <2>6
<1>9. ASSUME NEW n \in Line, Advances(n)
      PROVE  NoMore /\ Fewer
  <2>1. /\ main' = main /\ line' = line /\ writer' = writer /\ stdout' = stdout
        /\ \A k \in Line \ {n} : pc'[k] = pc[k] /\ (k \in deferred' <=> k \in deferred)
    <3>1. writer' = writer /\ stdout' = stdout
      BY <1>9, Answering DEF Advances, Answer, Start, PinRequest, BeginCall, Complete, DropGuard,
         Send, Emit, RunDeferred, channel
    <3>2. \A k \in Line \ {n} : k \in deferred' <=> k \in deferred
      BY <1>9, Answering DEF Advances, Answer, Start, PinRequest, BeginCall, Complete, DropGuard,
         Send, RunDeferred, registry
    <3> QED BY <1>9, <3>1, <3>2, RequestFrame
  <2>2. LoopLeft' = LoopLeft /\ WriterLeft' = WriterLeft
        /\ \A k \in Line \ {n} : LineLeft(k)' = LineLeft(k)
    BY <2>1 DEF LoopLeft, WriterLeft, LineLeft, CleanedUp, Current
  <2>3. ASSUME TaskSteps[pc'[n]] <= TaskSteps[pc[n]], CleanedUp(n) => CleanedUp(n)',
               \/ TaskSteps[pc'[n]] < TaskSteps[pc[n]]
               \/ ~CleanedUp(n) /\ CleanedUp(n)'
        PROVE  LineLeft(n)' < LineLeft(n)
    <3>1. TaskSteps[pc[n]] \in Nat /\ TaskSteps[pc'[n]] \in Nat
      BY DEF TaskSteps, TypeOK, TaskStates
    <3> QED BY <2>1, <2>3, <3>1 DEF LineLeft
  <2>4. CASE RunDeferred(n)
    <3>1. ~CleanedUp(n) /\ CleanedUp(n)' /\ pc' = pc
      BY <2>4 DEF RunDeferred, RegistryInv, CleanedUp
    <3>2. TaskSteps[pc[n]] \in Nat
      BY DEF TaskSteps, TypeOK, TaskStates
    <3> QED BY <1>7, <2>2, <2>3, <3>1, <3>2
  <2>5. CASE ~RunDeferred(n)
    <3>1. TaskSteps[pc'[n]] < TaskSteps[pc[n]]
      <4>1. Answers(n) => pc[n] \in {"started", "pinned", "working"} /\ pc'[n] = "answered"
        BY Answering DEF Answer, TypeOK
      <4>2. ~Answers(n) =>
              <<pc[n], pc'[n]>> \in {<<"spawned", "started">>, <<"started", "pinned">>,
                                    <<"pinned", "working">>, <<"answered", "completed">>,
                                    <<"completed", "sending">>, <<"sending", "ended">>}
        BY <1>9, <2>5 DEF Advances, Start, PinRequest, BeginCall, Complete, DropGuard, Send, TypeOK
      <4> QED BY <4>1, <4>2 DEF TaskSteps
    <3>2. CleanedUp(n) => CleanedUp(n)'
      BY <1>9, <2>5, Answering DEF Advances, Answer, Start, PinRequest, BeginCall, Complete,
         DropGuard, Send, TypeOK, CleanedUp, registry
    <3>3. TaskSteps[pc'[n]] \in Nat /\ TaskSteps[pc[n]] \in Nat
      BY DEF TaskSteps, TypeOK, TaskStates
    <3> QED BY <1>7, <2>2, <2>3, <3>1, <3>2, <3>3
  <2> QED BY <2>4, <2>5
<1> QED BY <1>2, <1>3, <1>4, <1>5, <1>6, <1>8, <1>9, Steps DEF WriterMoves

(* No request waits for ever on the channel, and the loop waits for nothing *)
(* but the client: whenever they are not done, somebody can move.           *)
THEOREM ServerIsNeverStuck == Spec => []NobodyIsWedged
BY NotWedged, Inductive, PTL

(* Every step uses up something and nothing is given back, the retries and  *)
(* the cleanups left to deferred tasks included: no behaviour is endless,   *)
(* and none can keep a request from its answer by going round in circles.   *)
THEOREM ServerRunsOutOfSteps ==
  Spec => /\ EveryStepCounts
          /\ []Counters
<1>1. IInv /\ [Next]_vars => [NoMore /\ Fewer]_vars
  <2> SUFFICES ASSUME IInv, [Next]_vars, vars' # vars
               PROVE  NoMore /\ Fewer
    OBVIOUS
  <2>1. TypeOK'
    BY StepInv DEF IInv
  <2> QED BY <2>1, StepCounts DEF IInv
<1>2. IInv => Counters
  BY LeftTypes DEF IInv
<1>3. Spec => EveryStepCounts
  BY <1>1, Inductive, PTL DEF Spec, EveryStepCounts
<1>4. Spec => []Counters
  BY <1>2, Inductive, PTL
<1> QED BY <1>3, <1>4
=============================================================================
