--------------------------- MODULE SyncPoolProofs ---------------------------
(***************************************************************************)
(* For every number of calls and workers, every queue capacity and every   *)
(* sharing of cancellation flags: the pool of SyncPool keeps one owner for *)
(* every job, never blocks a worker on a reply, and implements the         *)
(* contract of BoundedCalls.  A cancellation has a cause and the gauge is  *)
(* never low.  No worker is stuck, and every step uses something up.       *)
(***************************************************************************)
EXTENDS SyncPool, FiniteSetTheorems, TLAPS

(* A call that has not been made is nowhere in the pool. *)
ReadyInv ==
  \A c \in Calls : pc[c] = "ready" =>
    /\ handler[c] = "held" /\ reply[c] = "none"
    /\ \A i \in 1 .. Len(queue) : queue[i] # c
    /\ \A w \in Workers : wjob[w] # c

(* Nothing has been decided about a job that is still queued. *)
QueueInv ==
  \A i \in 1 .. Len(queue) :
    /\ handler[queue[i]] = "held"
    /\ reply[queue[i]] = "none"
    /\ result[queue[i]] \in {"none", "timed_out"}

(* Where a worker stands tells what became of its job's handler, and no    *)
(* answer exists before the worker has sent one.                           *)
WorkerInv ==
  \A w \in Workers :
    /\ wpc[w] = "recv" <=> wjob[w] = NoCall
    /\ wpc[w] = "deadline" => handler[wjob[w]] = "held"
    /\ wpc[w] \in {"flag", "run"} => handler[wjob[w]] = "claimed"
    /\ wpc[w] \in {"send", "reap", "release"} => handler[wjob[w]] \in {"ran", "dropped"}
    /\ wpc[w] = "send" => wresp[w] # "none"
    /\ wpc[w] \in {"deadline", "flag", "run", "send"} =>
         /\ reply[wjob[w]] = "none"
         /\ result[wjob[w]] \in {"none", "timed_out"}

(* An answer in the channel is one whose handler is over; a caller that    *)
(* gave up did so after the deadline; a result is what a return leaves.    *)
CallerInv ==
  \A c \in Calls :
    /\ reply[c] # "none" => handler[c] \in {"ran", "dropped"}
    /\ pc[c] \in {"abandoning", "counting", "flagging"} => expired[c]
    /\ result[c] = "timed_out" => expired[c]
    /\ result[c] # "none" <=> pc[c] = "returned"

IInv == TypeOK /\ OneOwner /\ ReadyInv /\ QueueInv /\ WorkerInv /\ CallerInv
-----------------------------------------------------------------------------
(* What the tail of a queue holds: its elements, one place earlier. *)
LEMMA TailElements ==
  ASSUME NEW q \in Seq(Calls), q # <<>>
  PROVE  /\ Head(q) \in Calls /\ Head(q) = q[1] /\ 1 \in 1 .. Len(q)
         /\ Tail(q) \in Seq(Calls) /\ Len(Tail(q)) = Len(q) - 1
         /\ \A i \in 1 .. Len(Tail(q)) : i + 1 \in 1 .. Len(q) /\ Tail(q)[i] = q[i + 1]
  OBVIOUS

(* What appending a call to a queue leaves in place. *)
LEMMA AppendElements ==
  ASSUME NEW q \in Seq(Calls), NEW c \in Calls
  PROVE  /\ Append(q, c) \in Seq(Calls) /\ Len(Append(q, c)) = Len(q) + 1
         /\ Append(q, c)[Len(q) + 1] = c
         /\ \A i \in 1 .. Len(q) : Append(q, c)[i] = q[i]
  OBVIOUS

(* The stuck gauge counts modulo a positive number. *)
LEMMA GaugeIsPositive == GaugeModulus \in Nat /\ GaugeModulus > 0
<1>1. Cardinality(Calls) \in Nat
  BY CallsAssumption, FS_CardinalityType
<1> QED BY <1>1, GaugeAssumption

(* The pool starts empty, with any of its workers alive. *)
LEMMA InitIInv == Init => IInv
<1> SUFFICES ASSUME Init PROVE IInv
  OBVIOUS
<1> USE CallsAssumption, QueueAssumption DEF Init
<1>1. TypeOK
  BY GaugeIsPositive DEF TypeOK, SubmitterStates, HandlerStates, WorkerStates
<1>2. OneOwner /\ ReadyInv /\ QueueInv
  BY DEF OneOwner, ReadyInv, QueueInv
<1>3. WorkerInv /\ CallerInv
  BY DEF WorkerInv, CallerInv
<1> QED BY <1>1, <1>2, <1>3 DEF IInv

(* A submission adds its job at the end of the queue, or is refused and adds none. *)
LEMMA SubmitCancellablePreserves ==
  ASSUME IInv, NEW c \in Calls, SubmitCancellable(c)
  PROVE  IInv'
<1> USE CallsAssumption DEF IInv, SubmitCancellable, Return, workerVars
<1>1. CASE /\ Len(queue) < QueueCapacity
           /\ queue' = Append(queue, c)
           /\ pc' = [pc EXCEPT ![c] = "waiting"]
           /\ UNCHANGED result
  <2> USE <1>1
  <2>1. /\ queue' \in Seq(Calls) /\ Len(queue') = Len(queue) + 1
        /\ queue'[Len(queue) + 1] = c
        /\ \A i \in 1 .. Len(queue) : queue'[i] = queue[i]
        /\ Len(queue) \in Nat
    BY AppendElements DEF TypeOK
  <2>2. \A i \in 1 .. Len(queue') : i \in 1 .. Len(queue) \/ i = Len(queue) + 1
    BY <2>1
  <2>3. /\ \A i \in 1 .. Len(queue) : queue[i] # c
        /\ \A w \in Workers : wjob[w] # c
    BY DEF ReadyInv
  <2>4. TypeOK'
    BY <2>1, QueueAssumption DEF TypeOK, SubmitterStates
  <2>5. OneOwner'
    <3>1. \A i, j \in 1 .. Len(queue') : i # j => queue'[i] # queue'[j]
      BY <2>1, <2>2, <2>3 DEF OneOwner
    <3>2. \A i \in 1 .. Len(queue'), w \in Workers : wjob[w] # queue'[i]
      BY <2>1, <2>2, <2>3 DEF OneOwner
    <3> QED BY <3>1, <3>2 DEF OneOwner
  <2>6. ReadyInv'
    BY <2>1, <2>2 DEF TypeOK, ReadyInv
  <2>7. QueueInv'
    BY <2>1, <2>2 DEF TypeOK, QueueInv, ReadyInv, CallerInv
  <2>8. WorkerInv'
    BY DEF TypeOK, WorkerInv
  <2>9. CallerInv'
    BY DEF TypeOK, CallerInv
  <2> QED BY <2>4, <2>5, <2>6, <2>7, <2>8, <2>9
<1>2. CASE /\ UNCHANGED queue
           /\ \E r \in {"queue_full", "shutdown"} : Return(c, r)
  <2> USE <1>2
  <2>1. TypeOK'
    BY DEF TypeOK, SubmitterStates, PoolErrors
  <2>2. OneOwner' /\ ReadyInv'
    BY DEF TypeOK, OneOwner, ReadyInv
  <2>3. QueueInv'
    BY DEF TypeOK, QueueInv, ReadyInv
  <2>4. WorkerInv' /\ CallerInv'
    BY DEF TypeOK, WorkerInv, CallerInv, ReadyInv
  <2> QED BY <2>1, <2>2, <2>3, <2>4
<1> QED BY <1>1, <1>2

(* The clock touches nothing but the deadline's own mark. *)
LEMMA DeadlinePassesPreserves ==
  ASSUME IInv, NEW c \in Calls, DeadlinePasses(c)
  PROVE  IInv'
<1> USE CallsAssumption DEF IInv, DeadlinePasses, workerVars
<1>1. TypeOK'
  BY DEF TypeOK, SubmitterStates, HandlerStates, WorkerStates, Responses, PoolErrors
<1>2. OneOwner'
  BY DEF TypeOK, OneOwner, WorkerInv, ReadyInv
<1>3. ReadyInv'
  BY DEF TypeOK, ReadyInv, WorkerInv, OneOwner
<1>4. QueueInv'
  BY DEF TypeOK, QueueInv, OneOwner, ReadyInv
<1>5. WorkerInv'
  BY DEF TypeOK, WorkerInv, OneOwner, QueueInv, ReadyInv, CallerInv
<1>6. CallerInv'
  BY DEF TypeOK, CallerInv, WorkerInv, ReadyInv
<1> QED BY <1>1, <1>2, <1>3, <1>4, <1>5, <1>6

(* Taking the reply empties the channel and ends the call. *)
LEMMA ReceiveReplyPreserves ==
  ASSUME IInv, NEW c \in Calls, ReceiveReply(c)
  PROVE  IInv'
<1> USE CallsAssumption DEF IInv, ReceiveReply, Return, workerVars
<1>1. TypeOK'
  BY DEF TypeOK, SubmitterStates, HandlerStates, WorkerStates, Responses, PoolErrors
<1>2. OneOwner'
  BY DEF TypeOK, OneOwner, WorkerInv, ReadyInv
<1>3. ReadyInv'
  BY DEF TypeOK, ReadyInv, WorkerInv, OneOwner
<1>4. QueueInv'
  BY DEF TypeOK, QueueInv, OneOwner, ReadyInv
<1>5. WorkerInv'
  BY DEF TypeOK, WorkerInv, OneOwner, QueueInv, ReadyInv, CallerInv
<1>6. CallerInv'
  BY DEF TypeOK, CallerInv, WorkerInv, ReadyInv, Responses
<1> QED BY <1>1, <1>2, <1>3, <1>4, <1>5, <1>6

(* A wait only times out after the deadline. *)
LEMMA WaitTimesOutPreserves ==
  ASSUME IInv, NEW c \in Calls, WaitTimesOut(c)
  PROVE  IInv'
<1> USE CallsAssumption DEF IInv, WaitTimesOut, workerVars
<1>1. TypeOK'
  BY DEF TypeOK, SubmitterStates, HandlerStates, WorkerStates, Responses, PoolErrors
<1>2. OneOwner'
  BY DEF TypeOK, OneOwner, WorkerInv, ReadyInv
<1>3. ReadyInv'
  BY DEF TypeOK, ReadyInv, WorkerInv, OneOwner
<1>4. QueueInv'
  BY DEF TypeOK, QueueInv, OneOwner, ReadyInv
<1>5. WorkerInv'
  BY DEF TypeOK, WorkerInv, OneOwner, QueueInv, ReadyInv, CallerInv
<1>6. CallerInv'
  BY DEF TypeOK, CallerInv, WorkerInv, ReadyInv
<1> QED BY <1>1, <1>2, <1>3, <1>4, <1>5, <1>6

(* The abandoned mark is invisible to the invariant. *)
LEMMA StoreAbandonedPreserves ==
  ASSUME IInv, NEW c \in Calls, StoreAbandoned(c)
  PROVE  IInv'
<1> USE CallsAssumption DEF IInv, StoreAbandoned, workerVars
<1>1. TypeOK'
  BY DEF TypeOK, SubmitterStates, HandlerStates, WorkerStates, Responses, PoolErrors
<1>2. OneOwner'
  BY DEF TypeOK, OneOwner, WorkerInv, ReadyInv
<1>3. ReadyInv'
  BY DEF TypeOK, ReadyInv, WorkerInv, OneOwner
<1>4. QueueInv'
  BY DEF TypeOK, QueueInv, OneOwner, ReadyInv
<1>5. WorkerInv'
  BY DEF TypeOK, WorkerInv, OneOwner, QueueInv, ReadyInv, CallerInv
<1>6. CallerInv'
  BY DEF TypeOK, CallerInv, WorkerInv, ReadyInv
<1> QED BY <1>1, <1>2, <1>3, <1>4, <1>5, <1>6

(* The gauge wraps and stays in range. *)
LEMMA CountStuckPreserves ==
  ASSUME IInv, NEW c \in Calls, CountStuck(c)
  PROVE  IInv'
<1> USE CallsAssumption DEF IInv, CountStuck, workerVars
<1>1. TypeOK'
  BY GaugeIsPositive DEF TypeOK, SubmitterStates, HandlerStates, WorkerStates, Responses, PoolErrors
<1>2. OneOwner'
  BY DEF TypeOK, OneOwner, WorkerInv, ReadyInv
<1>3. ReadyInv'
  BY DEF TypeOK, ReadyInv, WorkerInv, OneOwner
<1>4. QueueInv'
  BY DEF TypeOK, QueueInv, OneOwner, ReadyInv
<1>5. WorkerInv'
  BY DEF TypeOK, WorkerInv, OneOwner, QueueInv, ReadyInv, CallerInv
<1>6. CallerInv'
  BY DEF TypeOK, CallerInv, WorkerInv, ReadyInv
<1> QED BY <1>1, <1>2, <1>3, <1>4, <1>5, <1>6

(* The caller returns with a timeout and leaves its job where it is. *)
LEMMA FlagAndReturnPreserves ==
  ASSUME IInv, NEW c \in Calls, FlagAndReturn(c)
  PROVE  IInv'
<1> USE CallsAssumption DEF IInv, FlagAndReturn, Return, workerVars
<1>1. TypeOK'
  BY FlagAssumption DEF TypeOK, SubmitterStates, HandlerStates, WorkerStates, Responses, PoolErrors
<1>2. OneOwner'
  BY DEF TypeOK, OneOwner, WorkerInv, ReadyInv
<1>3. ReadyInv'
  BY DEF TypeOK, ReadyInv, WorkerInv, OneOwner
<1>4. QueueInv'
  BY DEF TypeOK, QueueInv, OneOwner, ReadyInv
<1>5. WorkerInv'
  BY DEF TypeOK, WorkerInv, OneOwner, QueueInv, ReadyInv, CallerInv
<1>6. CallerInv'
  BY DEF TypeOK, CallerInv, WorkerInv, ReadyInv
<1> QED BY <1>1, <1>2, <1>3, <1>4, <1>5, <1>6

(* The oldest job moves from the queue to one worker. *)
LEMMA RecvJobPreserves ==
  ASSUME IInv, NEW w \in Workers, RecvJob(w)
  PROVE  IInv'
<1> USE CallsAssumption DEF IInv, RecvJob, WorkerAt, submitterVars
<1>1. /\ wjob'[w] = queue[1] /\ queue[1] \in Calls /\ 1 \in 1 .. Len(queue)
      /\ \A v \in Workers \ {w} : wjob'[v] = wjob[v]
      /\ queue' \in Seq(Calls) /\ Len(queue') = Len(queue) - 1
      /\ \A i \in 1 .. Len(queue') : i + 1 \in 1 .. Len(queue) /\ queue'[i] = queue[i + 1]
  BY TailElements DEF TypeOK
<1>2. TypeOK'
  <2>1. Len(queue) \in Nat /\ Len(queue') <= QueueCapacity
    BY <1>1, QueueAssumption DEF TypeOK
  <2>2. wpc' \in [Workers -> WorkerStates] /\ wjob' \in [Workers -> Calls \cup {NoCall}]
    BY <1>1 DEF TypeOK, WorkerStates
  <2> QED BY <1>1, <2>1, <2>2 DEF TypeOK
<1>3. OneOwner'
  <2>1. \A i, j \in 1 .. Len(queue') : i # j => queue'[i] # queue'[j]
    BY <1>1 DEF OneOwner
  <2>2. \A i \in 1 .. Len(queue'), v \in Workers : wjob'[v] # queue'[i]
    BY <1>1 DEF OneOwner
  <2>3. \A u, v \in Workers : u # v /\ wjob'[u] # NoCall => wjob'[u] # wjob'[v]
    BY <1>1 DEF OneOwner
  <2> QED BY <2>1, <2>2, <2>3 DEF OneOwner
<1>4. ReadyInv'
  BY <1>1 DEF TypeOK, ReadyInv
<1>5. QueueInv'
  BY <1>1 DEF QueueInv
<1>6. WorkerInv'
  BY <1>1 DEF TypeOK, WorkerInv, QueueInv
<1>7. CallerInv'
  BY DEF CallerInv
<1> QED BY <1>2, <1>3, <1>4, <1>5, <1>6, <1>7

(* The first preflight check decides about a job nothing was decided about. *)
LEMMA CheckDeadlinePreserves ==
  ASSUME IInv, NEW w \in Workers, CheckDeadline(w)
  PROVE  IInv'
<1> USE CallsAssumption DEF IInv, CheckDeadline, WorkerAt, submitterVars
<1>1. TypeOK'
  <2>1. wjob[w] \in Calls /\ FlagOf[wjob[w]] \in Flags
    BY FlagAssumption DEF TypeOK, WorkerInv
  <2>2. flag' \in [Flags -> BOOLEAN] /\ handler' \in [Calls -> HandlerStates]
    BY <2>1 DEF TypeOK, HandlerStates
  <2>3. wpc' \in [Workers -> WorkerStates] /\ wresp' \in [Workers -> {"none"} \cup Responses]
    BY <2>1 DEF TypeOK, WorkerStates, Responses
  <2> QED BY <2>2, <2>3 DEF TypeOK
<1>2. OneOwner'
  BY DEF TypeOK, OneOwner, WorkerInv, ReadyInv
<1>3. ReadyInv'
  BY DEF TypeOK, ReadyInv, WorkerInv, OneOwner
<1>4. QueueInv'
  BY DEF TypeOK, QueueInv, OneOwner, ReadyInv
<1>5. WorkerInv'
  BY DEF TypeOK, WorkerInv, OneOwner, QueueInv, ReadyInv, CallerInv
<1>6. CallerInv'
  BY DEF TypeOK, CallerInv, WorkerInv, ReadyInv
<1> QED BY <1>1, <1>2, <1>3, <1>4, <1>5, <1>6

(* The second preflight check lets the handler start or drops it. *)
LEMMA CheckCancelFlagPreserves ==
  ASSUME IInv, NEW w \in Workers, CheckCancelFlag(w)
  PROVE  IInv'
<1> USE CallsAssumption DEF IInv, CheckCancelFlag, WorkerAt, submitterVars
<1>1. TypeOK'
  BY DEF TypeOK, SubmitterStates, HandlerStates, WorkerStates, Responses, PoolErrors, WorkerInv
<1>2. OneOwner'
  BY DEF TypeOK, OneOwner, WorkerInv, ReadyInv
<1>3. ReadyInv'
  BY DEF TypeOK, ReadyInv, WorkerInv, OneOwner
<1>4. QueueInv'
  BY DEF TypeOK, QueueInv, OneOwner, ReadyInv
<1>5. WorkerInv'
  BY DEF TypeOK, WorkerInv, OneOwner, QueueInv, ReadyInv, CallerInv
<1>6. CallerInv'
  BY DEF TypeOK, CallerInv, WorkerInv, ReadyInv, OneOwner
<1> QED BY <1>1, <1>2, <1>3, <1>4, <1>5, <1>6

(* The handler's end leaves one response to send. *)
LEMMA HandlerEndsPreserves ==
  ASSUME IInv, NEW w \in Workers, HandlerEnds(w)
  PROVE  IInv'
<1> USE CallsAssumption DEF IInv, HandlerEnds, WorkerAt, submitterVars
<1>1. TypeOK'
  BY OutcomeAssumption DEF TypeOK, SubmitterStates, HandlerStates, WorkerStates, Responses, PoolErrors, WorkerInv
<1>2. OneOwner'
  BY DEF TypeOK, OneOwner, WorkerInv, ReadyInv
<1>3. ReadyInv'
  BY DEF TypeOK, ReadyInv, WorkerInv, OneOwner
<1>4. QueueInv'
  BY DEF TypeOK, QueueInv, OneOwner, ReadyInv
<1>5. WorkerInv'
  BY OutcomeAssumption DEF TypeOK, WorkerInv, OneOwner, QueueInv, ReadyInv, CallerInv
<1>6. CallerInv'
  BY DEF TypeOK, CallerInv, WorkerInv, ReadyInv
<1> QED BY <1>1, <1>2, <1>3, <1>4, <1>5, <1>6

(* The one reply is written to an empty channel. *)
LEMMA SendReplyPreserves ==
  ASSUME IInv, NEW w \in Workers, SendReply(w)
  PROVE  IInv'
<1> USE CallsAssumption DEF IInv, SendReply, WorkerAt, submitterVars
<1>1. TypeOK'
  BY DEF TypeOK, SubmitterStates, HandlerStates, WorkerStates, Responses, PoolErrors
<1>2. OneOwner'
  BY DEF TypeOK, OneOwner, WorkerInv, ReadyInv
<1>3. ReadyInv'
  BY DEF TypeOK, ReadyInv, WorkerInv, OneOwner
<1>4. QueueInv'
  BY DEF TypeOK, QueueInv, OneOwner, ReadyInv
<1>5. WorkerInv'
  BY DEF TypeOK, WorkerInv, OneOwner, QueueInv, ReadyInv, CallerInv
<1>6. CallerInv'
  BY DEF TypeOK, CallerInv, WorkerInv, ReadyInv
<1> QED BY <1>1, <1>2, <1>3, <1>4, <1>5, <1>6

(* A worker leaves a job only after its reply. *)
LEMMA ReapIfAbandonedPreserves ==
  ASSUME IInv, NEW w \in Workers, ReapIfAbandoned(w)
  PROVE  IInv'
<1> USE CallsAssumption DEF IInv, ReapIfAbandoned, WorkerAt, submitterVars
<1>1. TypeOK'
  BY DEF TypeOK, SubmitterStates, HandlerStates, WorkerStates, Responses, PoolErrors
<1>2. OneOwner'
  BY DEF TypeOK, OneOwner, WorkerInv, ReadyInv
<1>3. ReadyInv'
  BY DEF TypeOK, ReadyInv, WorkerInv, OneOwner
<1>4. QueueInv'
  BY DEF TypeOK, QueueInv, OneOwner, ReadyInv
<1>5. WorkerInv'
  BY DEF TypeOK, WorkerInv, OneOwner, QueueInv, ReadyInv, CallerInv
<1>6. CallerInv'
  BY DEF TypeOK, CallerInv, WorkerInv, ReadyInv
<1> QED BY <1>1, <1>2, <1>3, <1>4, <1>5, <1>6

(* The gauge wraps and stays in range. *)
LEMMA ReleaseStuckPreserves ==
  ASSUME IInv, NEW w \in Workers, ReleaseStuck(w)
  PROVE  IInv'
<1> USE CallsAssumption DEF IInv, ReleaseStuck, WorkerAt, submitterVars
<1>1. TypeOK'
  BY GaugeIsPositive DEF TypeOK, SubmitterStates, HandlerStates, WorkerStates, Responses, PoolErrors
<1>2. OneOwner'
  BY DEF TypeOK, OneOwner, WorkerInv, ReadyInv
<1>3. ReadyInv'
  BY DEF TypeOK, ReadyInv, WorkerInv, OneOwner
<1>4. QueueInv'
  BY DEF TypeOK, QueueInv, OneOwner, ReadyInv
<1>5. WorkerInv'
  BY DEF TypeOK, WorkerInv, OneOwner, QueueInv, ReadyInv, CallerInv
<1>6. CallerInv'
  BY DEF TypeOK, CallerInv, WorkerInv, ReadyInv
<1> QED BY <1>1, <1>2, <1>3, <1>4, <1>5, <1>6

(* An outside cancellation changes flags only. *)
LEMMA RequestCancelPreserves ==
  ASSUME IInv, NEW f \in Flags, RequestCancel(f)
  PROVE  IInv'
<1> USE CallsAssumption DEF IInv, RequestCancel, submitterVars, workerVars
<1>1. TypeOK'
  BY DEF TypeOK, SubmitterStates, HandlerStates, WorkerStates, Responses, PoolErrors
<1>2. OneOwner'
  BY DEF TypeOK, OneOwner, WorkerInv, ReadyInv
<1>3. ReadyInv'
  BY DEF TypeOK, ReadyInv, WorkerInv, OneOwner
<1>4. QueueInv'
  BY DEF TypeOK, QueueInv, OneOwner, ReadyInv
<1>5. WorkerInv'
  BY DEF TypeOK, WorkerInv, OneOwner, QueueInv, ReadyInv, CallerInv
<1>6. CallerInv'
  BY DEF TypeOK, CallerInv, WorkerInv, ReadyInv
<1> QED BY <1>1, <1>2, <1>3, <1>4, <1>5, <1>6
-----------------------------------------------------------------------------
(* The strengthened invariant holds of every reachable state: one case per *)
(* action of the pool.                                                     *)
THEOREM Inductive == Spec => []IInv
<1>1. ASSUME IInv, [Next]_vars PROVE IInv'
  <2> USE <1>1
  <2>1. ASSUME NEW c \in Calls, SubmitCancellable(c) \/ DeadlinePasses(c) \/ SubmitterStep(c)
        PROVE  IInv'
    BY <2>1, SubmitCancellablePreserves, DeadlinePassesPreserves, ReceiveReplyPreserves,
       WaitTimesOutPreserves, StoreAbandonedPreserves, CountStuckPreserves,
       FlagAndReturnPreserves DEF SubmitterStep
  <2>2. ASSUME NEW w \in Workers, RecvJob(w) \/ WorkerStep(w) \/ HandlerEnds(w)
        PROVE  IInv'
    BY <2>2, RecvJobPreserves, CheckDeadlinePreserves, CheckCancelFlagPreserves,
       HandlerEndsPreserves, SendReplyPreserves, ReapIfAbandonedPreserves,
       ReleaseStuckPreserves DEF WorkerStep
  <2>3. ASSUME NEW f \in Flags, RequestCancel(f)
        PROVE  IInv'
    BY <2>3, RequestCancelPreserves
  <2>4. CASE UNCHANGED vars
    BY <2>4 DEF vars, submitterVars, workerVars, IInv, TypeOK, OneOwner, ReadyInv,
                QueueInv, WorkerInv, CallerInv
  <2> QED BY <2>1, <2>2, <2>3, <2>4 DEF Next, Idle
<1> QED BY InitIInv, <1>1, PTL DEF Spec

(* Every reachable state of the pool is well typed: in particular the job  *)
(* channel never holds more than QueueCapacity jobs.                       *)
THEOREM TypeCorrect == Spec => []TypeOK
<1>1. IInv => TypeOK
  BY DEF IInv
<1> QED BY <1>1, Inductive, PTL

(* A job is never in two places: workers sharing the receiver never get    *)
(* the same job, and a dequeued job is not queued any more.                *)
THEOREM JobsHaveOneOwner == Spec => []OneOwner
<1>1. IInv => OneOwner
  BY DEF IInv
<1> QED BY <1>1, Inductive, PTL

(* reply.send never blocks a worker, on any path of worker_loop. *)
THEOREM RepliesNeverBlock == Spec => []SendNeverBlocks
<1>1. IInv => SendNeverBlocks
  BY DEF IInv, WorkerInv, SendNeverBlocks
<1> QED BY <1>1, Inductive, PTL
-----------------------------------------------------------------------------
(* The states of the contract that the pool's initial states map to. *)
LEMMA InitImplements == Init => Contract!Init
BY DEF Init, Contract!Init, CallerOf, SlotOf

(* A step of one caller shows in the contract as a change of that caller   *)
(* alone, when it leaves the workers and the other callers as they are.    *)
LEMMA CallerStep ==
  ASSUME NEW c \in Calls, NEW state,
         UNCHANGED <<wpc, wjob>>, CallerOf(c)' = state,
         \A d \in Calls \ {c} : UNCHANGED <<pc[d], result[d]>>
  PROVE  /\ [d \in Calls |-> CallerOf(d)]' = [[d \in Calls |-> CallerOf(d)] EXCEPT ![c] = state]
         /\ UNCHANGED [w \in Workers |-> SlotOf(w)]
<1>1. \A d \in Calls \ {c} : CallerOf(d)' = CallerOf(d)
  BY DEF CallerOf
<1>2. \A w \in Workers : SlotOf(w)' = SlotOf(w)
  BY DEF SlotOf
<1> QED BY <1>1, <1>2

(* What leaves every caller where it is leaves the contract's callers. *)
LEMMA CallersUnchanged ==
  ASSUME UNCHANGED <<pc, result>>
  PROVE  UNCHANGED [c \in Calls |-> CallerOf(c)]
<1>1. \A c \in Calls : CallerOf(c)' = CallerOf(c)
  BY DEF CallerOf
<1> QED BY <1>1

(* A submission is accepted or refused. *)
LEMMA SubmitImplements ==
  ASSUME IInv, NEW c \in Calls, SubmitCancellable(c)
  PROVE  Contract!Admit(c) \/ Contract!Refuse(c)
<1> USE DEF IInv, SubmitCancellable, Return, workerVars
<1>1. CallerOf(c) = "new" /\ \A d \in Calls \ {c} : UNCHANGED <<pc[d], result[d]>>
  BY DEF TypeOK, CallerOf
<1>2. CASE pc' = [pc EXCEPT ![c] = "waiting"]
  <2>1. CallerOf(c)' = "pending"
    BY <1>2 DEF TypeOK, CallerOf
  <2> QED BY <1>1, <2>1, CallerStep DEF Contract!Admit
<1>3. CASE \E r \in {"queue_full", "shutdown"} : Return(c, r)
  <2>1. CallerOf(c)' = "refused"
    BY <1>3 DEF TypeOK, CallerOf, Responses
  <2> QED BY <1>1, <2>1, CallerStep DEF Contract!Refuse
<1> QED BY <1>2, <1>3

(* A reply taken from the channel answers the call. *)
LEMMA ReceiveImplements ==
  ASSUME IInv, NEW c \in Calls, ReceiveReply(c)
  PROVE  Contract!Answer(c)
<1> USE DEF IInv, ReceiveReply, Return, workerVars
<1>1. CallerOf(c) = "pending" /\ handler[c] \in {"ran", "dropped"}
  BY DEF TypeOK, CallerInv, CallerOf
<1>2. CallerOf(c)' = "answered"
  BY DEF TypeOK, CallerOf
<1>3. \A d \in Calls \ {c} : UNCHANGED <<pc[d], result[d]>>
  BY DEF TypeOK
<1> QED BY <1>1, <1>2, <1>3, CallerStep DEF Contract!Answer

(* A wait that times out gives the call up. *)
LEMMA TimeoutImplements ==
  ASSUME IInv, NEW c \in Calls, WaitTimesOut(c)
  PROVE  Contract!GiveUp(c)
<1> USE DEF IInv, WaitTimesOut, workerVars
<1>1. CallerOf(c) = "pending" /\ CallerOf(c)' = "gaveup"
  BY DEF TypeOK, CallerOf
<1>2. \A d \in Calls \ {c} : UNCHANGED <<pc[d], result[d]>>
  BY DEF TypeOK
<1> QED BY <1>1, <1>2, CallerStep DEF Contract!GiveUp

(* The first preflight check drops the job or claims it, and claims it     *)
(* only while its caller waits: a caller that gave up did so after the     *)
(* deadline the check has just found not to have passed.                   *)
LEMMA CheckDeadlineImplements ==
  ASSUME IInv, NEW w \in Workers, CheckDeadline(w)
  PROVE  Contract!Drop(wjob[w]) \/ Contract!Claim(w, wjob[w])
<1> USE DEF IInv, CheckDeadline, WorkerAt, submitterVars
<1>1. /\ wjob[w] \in Calls /\ handler[wjob[w]] = "held" /\ wpc[w] = "deadline"
      /\ result[wjob[w]] \in {"none", "timed_out"} /\ pc[wjob[w]] # "ready"
  BY DEF TypeOK, WorkerInv, ReadyInv
<1>2. CASE expired[wjob[w]]
  <2>1. CallerOf(wjob[w]) \in {"pending", "gaveup"}
    BY <1>1 DEF TypeOK, SubmitterStates, CallerInv, CallerOf, Responses
  <2>2. UNCHANGED [v \in Workers |-> SlotOf(v)]
    BY <1>1, <1>2 DEF TypeOK, SlotOf
  <2>3. UNCHANGED [c \in Calls |-> CallerOf(c)]
    BY <1>2, CallersUnchanged
  <2> QED BY <1>1, <1>2, <2>1, <2>2, <2>3 DEF Contract!Drop
<1>3. CASE ~expired[wjob[w]]
  <2>1. CallerOf(wjob[w]) = "pending"
    BY <1>1, <1>3 DEF TypeOK, SubmitterStates, CallerInv, CallerOf
  <2>2. /\ SlotOf(w) = NoCall
        /\ [v \in Workers |-> SlotOf(v)]' = [[v \in Workers |-> SlotOf(v)] EXCEPT ![w] = wjob[w]]
    BY <1>1, <1>3 DEF TypeOK, SlotOf
  <2>3. UNCHANGED [c \in Calls |-> CallerOf(c)]
    BY <1>3, CallersUnchanged
  <2> QED BY <1>1, <1>3, <2>1, <2>2, <2>3 DEF Contract!Claim
<1> QED BY <1>2, <1>3 DEF CheckDeadline

(* A claimed job leaves its slot when its handler ends or when the second  *)
(* preflight check finds its flag set.                                     *)
LEMMA SlotReleaseImplements ==
  ASSUME IInv, NEW w \in Workers, CheckCancelFlag(w) \/ HandlerEnds(w)
  PROVE  Contract!Release(w) \/ UNCHANGED Contract!vars
<1> USE CallsAssumption DEF IInv, CheckCancelFlag, HandlerEnds, WorkerAt, submitterVars
<1>1. wjob[w] \in Calls /\ SlotOf(w) = wjob[w] /\ wjob[w] # NoCall
  BY DEF TypeOK, WorkerInv, SlotOf
<1>2. UNCHANGED [c \in Calls |-> CallerOf(c)]
  BY CallersUnchanged
<1>3. CASE wpc' = [wpc EXCEPT ![w] = "run"] /\ UNCHANGED <<handler, wjob>> /\ wpc[w] = "flag"
  <2>1. UNCHANGED [v \in Workers |-> SlotOf(v)]
    BY <1>3 DEF TypeOK, SlotOf
  <2> QED BY <1>2, <1>3, <2>1 DEF Contract!vars
<1>4. CASE /\ wpc' = [wpc EXCEPT ![w] = "send"]
           /\ \E fate \in {"ran", "dropped"} : handler' = [handler EXCEPT ![wjob[w]] = fate]
           /\ UNCHANGED wjob
  <2>1. [v \in Workers |-> SlotOf(v)]' = [[v \in Workers |-> SlotOf(v)] EXCEPT ![w] = NoCall]
    BY <1>4 DEF TypeOK, SlotOf
  <2> QED BY <1>1, <1>2, <1>4, <2>1 DEF Contract!Release
<1> QED BY <1>3, <1>4

(* Every other step of the pool is invisible to the contract. *)
LEMMA StutterImplements ==
  ASSUME IInv,
         \/ \E c \in Calls : DeadlinePasses(c) \/ StoreAbandoned(c) \/ CountStuck(c) \/ FlagAndReturn(c)
         \/ \E w \in Workers : RecvJob(w) \/ SendReply(w) \/ ReapIfAbandoned(w) \/ ReleaseStuck(w)
         \/ \E f \in Flags : RequestCancel(f)
         \/ UNCHANGED vars
  PROVE  UNCHANGED Contract!vars
<1> USE DEF IInv, Contract!vars
<1>1. ASSUME NEW c \in Calls,
             DeadlinePasses(c) \/ StoreAbandoned(c) \/ CountStuck(c) \/ FlagAndReturn(c)
      PROVE  UNCHANGED Contract!vars
  <2>1. CASE DeadlinePasses(c)
    BY <2>1, CallersUnchanged DEF DeadlinePasses, workerVars, SlotOf
  <2>2. CASE StoreAbandoned(c) \/ CountStuck(c) \/ FlagAndReturn(c)
    <3> USE <2>2 DEF StoreAbandoned, CountStuck, FlagAndReturn, Return, workerVars
    <3>1. CallerOf(c) = "gaveup"
      BY DEF TypeOK, CallerOf
    <3>2. CallerOf(c)' = "gaveup"
      BY DEF TypeOK, CallerOf, Responses
    <3>3. \A d \in Calls \ {c} : UNCHANGED <<pc[d], result[d]>>
      BY DEF TypeOK
    <3>4. UNCHANGED <<handler, wpc, wjob>>
      OBVIOUS
    <3>5. \A d \in Calls : CallerOf(d)' = CallerOf(d)
      BY <3>1, <3>2, <3>3 DEF CallerOf
    <3> QED BY <3>4, <3>5 DEF SlotOf
  <2> QED BY <1>1, <2>1, <2>2
<1>2. ASSUME NEW w \in Workers,
             RecvJob(w) \/ SendReply(w) \/ ReapIfAbandoned(w) \/ ReleaseStuck(w)
      PROVE  UNCHANGED Contract!vars
  <2>1. UNCHANGED <<handler, pc, result>>
    BY <1>2 DEF RecvJob, SendReply, ReapIfAbandoned, ReleaseStuck, submitterVars
  <2>2. UNCHANGED [v \in Workers |-> SlotOf(v)]
    BY <1>2 DEF TypeOK, SlotOf, RecvJob, SendReply, ReapIfAbandoned, ReleaseStuck, WorkerAt
  <2> QED BY <2>1, <2>2, CallersUnchanged
<1>3. ASSUME NEW f \in Flags, RequestCancel(f)
      PROVE  UNCHANGED Contract!vars
  BY <1>3 DEF RequestCancel, submitterVars, workerVars, CallerOf, SlotOf
<1>4. CASE UNCHANGED vars
  BY <1>4 DEF vars, submitterVars, workerVars, CallerOf, SlotOf
<1> QED BY <1>1, <1>2, <1>3, <1>4

(* The pool implements BoundedCalls: every call is refused, answered or    *)
(* given up once, its handler is claimed at most once and by one worker,   *)
(* and a job whose caller gave up while it was queued is never started.    *)
(* The contract allows a handler to start after its caller gave up when a  *)
(* worker had claimed it before.                                           *)
THEOREM PoolKeepsContract == Spec => KeepsContract
<1>1. ASSUME IInv, [Next]_vars PROVE [Contract!Next]_(Contract!vars)
  <2> USE <1>1
  <2>1. ASSUME NEW c \in Calls, SubmitCancellable(c) \/ ReceiveReply(c) \/ WaitTimesOut(c)
        PROVE  Contract!Next
    BY <2>1, SubmitImplements, ReceiveImplements, TimeoutImplements DEF Contract!Next
  <2>2. ASSUME NEW w \in Workers, CheckDeadline(w)
        PROVE  Contract!Next
    <3>1. wjob[w] \in Calls
      BY <2>2 DEF IInv, TypeOK, WorkerInv, CheckDeadline, WorkerAt
    <3> QED BY <2>2, <3>1, CheckDeadlineImplements DEF Contract!Next
  <2>3. ASSUME NEW w \in Workers, CheckCancelFlag(w) \/ HandlerEnds(w)
        PROVE  Contract!Next \/ UNCHANGED Contract!vars
    BY <2>3, SlotReleaseImplements DEF Contract!Next
  <2>4. CASE \/ \E c \in Calls : DeadlinePasses(c) \/ StoreAbandoned(c) \/ CountStuck(c) \/ FlagAndReturn(c)
             \/ \E w \in Workers : RecvJob(w) \/ SendReply(w) \/ ReapIfAbandoned(w) \/ ReleaseStuck(w)
             \/ \E f \in Flags : RequestCancel(f)
             \/ UNCHANGED vars
    BY <2>4, StutterImplements
  <2> QED BY <2>1, <2>2, <2>3, <2>4 DEF Next, SubmitterStep, WorkerStep, Idle
<1> QED BY InitImplements, Inductive, <1>1, PTL DEF Spec, KeepsContract, Contract!Spec
-----------------------------------------------------------------------------
(* Why a call is cancelled. *)

Cause(c) == \/ FlagOf[c] \in requested
            \/ \E d \in Calls \ {c} : FlagOf[d] = FlagOf[c] /\ expired[d]

(* A flag is set by its owner or by a call under it that ran out of time;  *)
(* of that call either the caller has returned or the handler is dropped,  *)
(* so it is never itself the call that is then cancelled.                  *)
FlagInv ==
  \A f \in Flags : flag[f] =>
    \/ f \in requested
    \/ \E d \in Calls : /\ FlagOf[d] = f /\ expired[d]
                        /\ result[d] = "timed_out" \/ handler[d] = "dropped"

CauseInv ==
  /\ FlagInv
  /\ \A w \in Workers : wpc[w] = "send" /\ wresp[w] = "cancelled" =>
       Cause(wjob[w]) \/ result[wjob[w]] = "timed_out"
  /\ \A c \in Calls : reply[c] = "cancelled" => Cause(c)
  /\ \A c \in Calls : result[c] = "cancelled" => Cause(c)

(* Nothing a step does takes a cause away. *)
LEMMA CausesStay ==
  ASSUME IInv, [Next]_vars
  PROVE  /\ requested \subseteq requested'
         /\ \A d \in Calls : expired[d] => expired'[d]
         /\ \A d \in Calls : result[d] = "timed_out" => result'[d] = "timed_out"
         /\ \A d \in Calls : handler[d] = "dropped" => handler'[d] = "dropped"
<1>1. ASSUME NEW c \in Calls, SubmitCancellable(c) \/ DeadlinePasses(c) \/ SubmitterStep(c)
      PROVE  /\ requested' = requested /\ handler' = handler
             /\ \A d \in Calls : expired[d] => expired'[d]
             /\ \A d \in Calls : result[d] = "timed_out" => result'[d] = "timed_out"
  BY <1>1 DEF SubmitCancellable, DeadlinePasses, SubmitterStep, ReceiveReply, WaitTimesOut,
     StoreAbandoned, CountStuck, FlagAndReturn, Return, IInv, TypeOK, CallerInv
<1>2. ASSUME NEW w \in Workers, RecvJob(w) \/ WorkerStep(w) \/ HandlerEnds(w)
      PROVE  /\ requested' = requested /\ expired' = expired /\ result' = result
             /\ \A d \in Calls : handler[d] = "dropped" => handler'[d] = "dropped"
  BY <1>2 DEF RecvJob, WorkerStep, CheckDeadline, CheckCancelFlag, SendReply, ReapIfAbandoned,
     ReleaseStuck, HandlerEnds, submitterVars, WorkerAt, IInv, TypeOK, WorkerInv
<1>3. ASSUME NEW f \in Flags, RequestCancel(f)
      PROVE  /\ requested \subseteq requested' /\ expired' = expired /\ result' = result
             /\ handler' = handler
  BY <1>3 DEF RequestCancel, submitterVars
<1>4. CASE UNCHANGED vars
  BY <1>4 DEF vars, submitterVars
<1> QED BY <1>1, <1>2, <1>3, <1>4 DEF Next, Idle

LEMMA CauseStepKeeps ==
  ASSUME IInv, CauseInv, [Next]_vars
  PROVE  CauseInv'
<1>1. \A c \in Calls : Cause(c) => Cause(c)'
  BY CausesStay DEF Cause
<1>2. \A c \in Calls : FlagOf[c] \in Flags
  BY FlagAssumption
(* Where no new flag, response or result appears. *)
<1>3. ASSUME \A f \in Flags : flag'[f] => flag[f] \/ f \in requested'
                 \/ \E d \in Calls : /\ FlagOf[d] = f /\ expired'[d]
                                     /\ result'[d] = "timed_out" \/ handler'[d] = "dropped",
             \A w \in Workers : wpc'[w] = "send" /\ wresp'[w] = "cancelled" =>
                \/ wpc[w] = "send" /\ wresp[w] = "cancelled" /\ wjob'[w] = wjob[w]
                \/ wjob'[w] \in Calls /\ (Cause(wjob'[w]) \/ result[wjob'[w]] = "timed_out"),
             \A c \in Calls : reply'[c] = "cancelled" => Cause(c),
             \A c \in Calls : result'[c] = "cancelled" => Cause(c)
      PROVE  CauseInv'
  <2>1. FlagInv'
    BY <1>3, CausesStay DEF CauseInv, FlagInv
  <2>2. \A w \in Workers : wpc'[w] = "send" /\ wresp'[w] = "cancelled" =>
          Cause(wjob[w])' \/ result'[wjob'[w]] = "timed_out"
    <3> SUFFICES ASSUME NEW w \in Workers, wpc'[w] = "send", wresp'[w] = "cancelled"
                 PROVE  \E c \in Calls : c = wjob'[w] /\ (Cause(c)' \/ result'[c] = "timed_out")
      BY DEF Cause
    <3>1. \E c \in Calls : c = wjob'[w] /\ (Cause(c) \/ result[c] = "timed_out")
      BY <1>3, CallsAssumption DEF CauseInv, IInv, TypeOK, WorkerInv
    <3> QED BY <1>1, <3>1, CausesStay
  <2> QED BY <1>1, <1>3, <2>1, <2>2 DEF CauseInv
<1>4. ASSUME NEW c \in Calls, SubmitCancellable(c) \/ DeadlinePasses(c) \/ SubmitterStep(c)
      PROVE  CauseInv'
  <2>1. /\ wpc' = wpc /\ wresp' = wresp /\ wjob' = wjob
        /\ \A d \in Calls : reply'[d] \in {reply[d], "none"}
        /\ \A d \in Calls : result'[d] # "cancelled" \/ result'[d] = result[d]
                              \/ result'[d] = reply[d]
    BY <1>4 DEF SubmitCancellable, DeadlinePasses, SubmitterStep, ReceiveReply, WaitTimesOut,
       StoreAbandoned, CountStuck, FlagAndReturn, Return, IInv, TypeOK, workerVars
  <2>2. \A f \in Flags : flag'[f] => flag[f] \/
          \E d \in Calls : /\ FlagOf[d] = f /\ expired'[d] /\ result'[d] = "timed_out"
    <3>1. CASE FlagAndReturn(c)
      <4>1. expired'[c] /\ result'[c] = "timed_out"
        BY <3>1 DEF FlagAndReturn, Return, IInv, TypeOK, CallerInv
      <4>2. \A f \in Flags : f # FlagOf[c] => flag'[f] = flag[f]
        BY <3>1 DEF FlagAndReturn, IInv, TypeOK
      <4> QED BY <4>1, <4>2
    <3>2. CASE ~FlagAndReturn(c)
      BY <1>4, <3>2 DEF SubmitCancellable, DeadlinePasses, SubmitterStep, ReceiveReply,
         WaitTimesOut, StoreAbandoned, CountStuck
    <3> QED BY <3>1, <3>2
  <2> QED BY <1>3, <2>1, <2>2 DEF CauseInv
<1>5. ASSUME NEW w \in Workers, RecvJob(w) \/ WorkerStep(w) \/ HandlerEnds(w)
      PROVE  CauseInv'
  <2> USE DEF WorkerAt, submitterVars
  <2>0. result' = result /\ expired' = expired
    BY <1>5 DEF RecvJob, WorkerStep, CheckDeadline, CheckCancelFlag, SendReply, ReapIfAbandoned,
       ReleaseStuck, HandlerEnds
  <2>1. CASE CheckDeadline(w)
    <3>1. wjob[w] \in Calls /\ wjob' = wjob /\ reply' = reply
      BY <2>1, CallsAssumption DEF CheckDeadline, IInv, TypeOK, WorkerInv
    <3>2. \A f \in Flags : flag'[f] => flag[f] \/
            \E d \in Calls : /\ FlagOf[d] = f /\ expired'[d] /\ handler'[d] = "dropped"
      BY <2>0, <2>1, <3>1 DEF CheckDeadline, IInv, TypeOK
    <3>3. \A v \in Workers : wpc'[v] = "send" /\ wresp'[v] = "cancelled" =>
            wpc[v] = "send" /\ wresp[v] = "cancelled"
      BY <2>1 DEF CheckDeadline, IInv, TypeOK
    <3> QED BY <1>3, <2>0, <3>1, <3>2, <3>3 DEF CauseInv
  <2>2. CASE CheckCancelFlag(w)
    <3>1. wjob[w] \in Calls /\ wjob' = wjob /\ reply' = reply /\ flag' = flag
          /\ handler[wjob[w]] = "claimed"
      BY <2>2, CallsAssumption DEF CheckCancelFlag, IInv, TypeOK, WorkerInv
    <3>2. flag[FlagOf[wjob[w]]] => Cause(wjob[w]) \/ result[wjob[w]] = "timed_out"
      BY <1>2, <3>1 DEF CauseInv, FlagInv, Cause
    <3>3. \A v \in Workers : wpc'[v] = "send" /\ wresp'[v] = "cancelled" =>
            \/ wpc[v] = "send" /\ wresp[v] = "cancelled"
            \/ v = w /\ flag[FlagOf[wjob[w]]]
      BY <2>2 DEF CheckCancelFlag, IInv, TypeOK
    <3> QED BY <1>3, <2>0, <3>1, <3>2, <3>3 DEF CauseInv
  <2>3. CASE HandlerEnds(w)
    <3>1. wjob' = wjob /\ reply' = reply /\ flag' = flag
      BY <2>3 DEF HandlerEnds
    <3>2. \A v \in Workers : wpc'[v] = "send" /\ wresp'[v] = "cancelled" =>
            wpc[v] = "send" /\ wresp[v] = "cancelled"
      BY <2>3, OutcomeAssumption DEF HandlerEnds, IInv, TypeOK
    <3> QED BY <1>3, <2>0, <3>1, <3>2 DEF CauseInv
  <2>4. CASE SendReply(w)
    <3>1. wjob' = wjob /\ flag' = flag /\ wjob[w] \in Calls
      BY <2>4, CallsAssumption DEF SendReply, IInv, TypeOK, WorkerInv
    <3>2. \A v \in Workers : wpc'[v] = "send" /\ wresp'[v] = "cancelled" =>
            wpc[v] = "send" /\ wresp[v] = "cancelled"
      BY <2>4 DEF SendReply, IInv, TypeOK
    <3>3. \A c \in Calls : reply'[c] = "cancelled" => Cause(c)
      <4>1. \A c \in Calls \ {wjob[w]} : reply'[c] = reply[c]
        BY <2>4 DEF SendReply, IInv, TypeOK
      <4>2. reply'[wjob[w]] = "cancelled" => wpc[w] = "send" /\ wresp[w] = "cancelled"
                                              /\ pc[wjob[w]] # "returned"
        BY <2>4, <3>1 DEF SendReply, IInv, TypeOK
      <4>3. reply'[wjob[w]] = "cancelled" => Cause(wjob[w])
        BY <3>1, <4>2 DEF CauseInv, IInv, CallerInv
      <4> QED BY <4>1, <4>3 DEF CauseInv
    <3> QED BY <1>3, <2>0, <3>1, <3>2, <3>3 DEF CauseInv
  <2>5. CASE RecvJob(w) \/ ReapIfAbandoned(w) \/ ReleaseStuck(w)
    <3>1. flag' = flag /\ reply' = reply /\ wresp' = wresp
      BY <2>5 DEF RecvJob, ReapIfAbandoned, ReleaseStuck
    <3>2. \A v \in Workers : wpc'[v] = "send" => wpc[v] = "send" /\ wjob'[v] = wjob[v]
      BY <2>5 DEF RecvJob, ReapIfAbandoned, ReleaseStuck, IInv, TypeOK
    <3> QED BY <1>3, <2>0, <3>1, <3>2 DEF CauseInv
  <2> QED BY <1>5, <2>1, <2>2, <2>3, <2>4, <2>5 DEF WorkerStep
<1>6. ASSUME NEW f \in Flags, RequestCancel(f)
      PROVE  CauseInv'
  <2>1. /\ wpc' = wpc /\ wresp' = wresp /\ wjob' = wjob /\ reply' = reply /\ result' = result
        /\ \A g \in Flags : flag'[g] => flag[g] \/ g \in requested'
    BY <1>6 DEF RequestCancel, submitterVars, workerVars, IInv, TypeOK
  <2> QED BY <1>3, <2>1 DEF CauseInv
<1>7. CASE UNCHANGED vars
  BY <1>7, <1>3 DEF vars, submitterVars, workerVars, CauseInv
<1> QED BY <1>4, <1>5, <1>6, <1>7 DEF Next, Idle

(* A caller is told CANCELLED only if its flag's owner cancelled, or if     *)
(* another call under the same flag ran out of time.                       *)
THEOREM CancellationsHaveACause == Spec => []CancelledHasCause
<1>1. Init => CauseInv
  BY DEF Init, CauseInv, FlagInv
<1>2. CauseInv => CancelledHasCause
  BY DEF CauseInv, CancelledHasCause, Cause
<1> QED BY <1>1, <1>2, Inductive, CauseStepKeeps, PTL DEF Spec
-----------------------------------------------------------------------------
(* The stuck gauge. *)

InPool(c) == Queued(c) \/ Held(c)
Owed   == {c \in Calls : Counted(c) /\ InPool(c)}
Gone   == {c \in Calls : Counted(c) /\ ~InPool(c)}
Racing == {c \in Calls : pc[c] = "counting" /\ ~InPool(c)}

(* The gauge is what it owes to jobs still in the pool, plus those that     *)
(* left it unseen before they were counted (leaked), minus those that were  *)
(* released before they were counted (early), on an atomic that wraps.      *)
GaugeInv ==
  /\ \A w \in Workers : wpc[w] = "release" => abandoned[wjob[w]]
  /\ \A c \in Calls : abandoned[c] <=> Counted(c) \/ pc[c] = "counting"
  /\ \E leaked \in SUBSET Gone, early \in SUBSET Racing :
       stuck + Cardinality(early) \in
         {Cardinality(Owed) + Cardinality(leaked),
          Cardinality(Owed) + Cardinality(leaked) + GaugeModulus}

LEMMA CallSets ==
  ASSUME NEW S \in SUBSET Calls
  PROVE  IsFiniteSet(S) /\ Cardinality(S) \in Nat /\ Cardinality(S) <= Cardinality(Calls)
BY CallsAssumption, FS_Subset, FS_CardinalityType

LEMMA TwoCallSets ==
  ASSUME NEW S \in SUBSET Calls, NEW T \in SUBSET Calls, S \cap T = {}
  PROVE  Cardinality(S) + Cardinality(T) <= Cardinality(Calls)
<1>1. Cardinality(S \cup T) = Cardinality(S) + Cardinality(T) - Cardinality(S \cap T)
  BY CallSets, FS_Union
<1>2. Cardinality(S \cap T) = 0
  BY FS_EmptySet
<1> QED BY <1>1, <1>2, CallSets

(* A worker lets go of a job: it is out of the pool, and it alone. *)
LEMMA Leaving ==
  ASSUME IInv, NEW w \in Workers, NEW c \in Calls, wjob[w] = c, queue' = queue,
         wjob' = [wjob EXCEPT ![w] = NoCall]
  PROVE  /\ InPool(c) /\ ~InPool(c)'
         /\ \A d \in Calls \ {c} : InPool(d)' <=> InPool(d)
<1>1. ~Queued(c)'
  BY DEF IInv, OneOwner, Queued
<1>2. \A v \in Workers : wjob'[v] # c
  BY CallsAssumption DEF IInv, OneOwner, TypeOK
<1>3. InPool(c) /\ ~InPool(c)'
  BY <1>1, <1>2 DEF InPool, Held
<1>4. \A d \in Calls \ {c} : Held(d)' <=> Held(d)
  BY CallsAssumption DEF IInv, TypeOK, Held
<1> QED BY <1>3, <1>4 DEF InPool, Queued

LEMMA GaugeStays ==
  ASSUME GaugeInv, stuck' = stuck, Owed' = Owed, Gone \subseteq Gone', Racing \subseteq Racing',
         \A w \in Workers : wpc'[w] = "release" => abandoned'[wjob'[w]],
         \A c \in Calls : abandoned'[c] <=> Counted(c)' \/ pc'[c] = "counting"
  PROVE  GaugeInv'
<1>1. PICK leaked \in SUBSET Gone, early \in SUBSET Racing :
        stuck + Cardinality(early) \in
         {Cardinality(Owed) + Cardinality(leaked),
          Cardinality(Owed) + Cardinality(leaked) + GaugeModulus}
  BY DEF GaugeInv
<1>2. leaked \in SUBSET Gone' /\ early \in SUBSET Racing'
  OBVIOUS
<1> QED BY <1>1, <1>2 DEF GaugeInv

(* stuck.fetch_add(1): the call is owed now, or has been released early, or *)
(* is leaked.                                                              *)
LEMMA CountingKeeps ==
  ASSUME IInv, GaugeInv, NEW c \in Calls, CountStuck(c)
  PROVE  GaugeInv'
<1> DEFINE n == Cardinality(Calls)
<1>0. n \in Nat /\ GaugeModulus \in Nat /\ GaugeModulus > 2 * n /\ n > 0
  BY CallSets, GaugeAssumption, CallsAssumption, FS_EmptySet
<1>1. PICK leaked \in SUBSET Gone, early \in SUBSET Racing :
        stuck + Cardinality(early) \in
         {Cardinality(Owed) + Cardinality(leaked),
          Cardinality(Owed) + Cardinality(leaked) + GaugeModulus}
  BY DEF GaugeInv
<1>2. /\ pc[c] = "counting" /\ pc'[c] = "flagging" /\ ~Counted(c) /\ Counted(c)'
      /\ \A d \in Calls \ {c} : pc'[d] = pc[d] /\ (Counted(d)' <=> Counted(d))
      /\ \A d \in Calls : InPool(d)' <=> InPool(d)
      /\ abandoned' = abandoned /\ wpc' = wpc /\ wjob' = wjob
      /\ stuck' = IF stuck = GaugeModulus - 1 THEN 0 ELSE stuck + 1
  BY DEF CountStuck, Counted, InPool, Queued, Held, IInv, TypeOK, CallerInv, workerVars
<1>3. Owed' = (IF InPool(c) THEN Owed \cup {c} ELSE Owed) /\ c \notin Owed
  BY <1>2 DEF Owed
<1>4. Gone' = (IF InPool(c) THEN Gone ELSE Gone \cup {c}) /\ c \notin Gone
  BY <1>2 DEF Gone
<1>5. Racing' = Racing \ {c} /\ (c \in Racing <=> ~InPool(c))
  BY <1>2 DEF Racing
<1>6. /\ \A w \in Workers : wpc'[w] = "release" => abandoned'[wjob'[w]]
      /\ \A d \in Calls : abandoned'[d] <=> Counted(d)' \/ pc'[d] = "counting"
  BY <1>2 DEF GaugeInv
<1>7. Owed \in SUBSET Calls /\ leaked \in SUBSET Calls /\ early \in SUBSET Calls
      /\ Owed \cap leaked = {} /\ stuck \in 0 .. GaugeModulus - 1
  BY DEF Owed, Gone, Racing, IInv, TypeOK
<1>8. /\ Cardinality(Owed) \in Nat /\ Cardinality(leaked) \in Nat /\ Cardinality(early) \in Nat
      /\ Cardinality(Owed) + Cardinality(leaked) <= n /\ Cardinality(early) <= n
      /\ IsFiniteSet(Owed) /\ IsFiniteSet(leaked) /\ IsFiniteSet(early)
  BY <1>7, CallSets, TwoCallSets
<1>9. \E l \in SUBSET Gone', e \in SUBSET Racing' :
        /\ Cardinality(Owed') \in Nat /\ Cardinality(l) \in Nat /\ Cardinality(e) \in Nat
        /\ Cardinality(Owed') + Cardinality(l) - Cardinality(e)
             = Cardinality(Owed) + Cardinality(leaked) - Cardinality(early) + 1
  <2>1. CASE InPool(c)
    <3>1. Cardinality(Owed') = Cardinality(Owed) + 1
      BY <1>3, <1>8, <2>1, FS_AddElement
    <3>2. leaked \in SUBSET Gone' /\ early \in SUBSET Racing'
      BY <1>4, <1>5, <2>1
    <3> QED BY <1>8, <3>1, <3>2
  <2>2. CASE ~InPool(c) /\ c \in early
    <3>1. Cardinality(early \ {c}) = Cardinality(early) - 1 /\ Cardinality(early \ {c}) \in Nat
      BY <1>7, <1>8, <2>2, FS_RemoveElement, CallSets
    <3>2. leaked \in SUBSET Gone' /\ early \ {c} \in SUBSET Racing' /\ Owed' = Owed
      BY <1>3, <1>4, <1>5, <2>2
    <3> QED BY <1>8, <3>1, <3>2
  <2>3. CASE ~InPool(c) /\ c \notin early
    <3>1. Cardinality(leaked \cup {c}) = Cardinality(leaked) + 1
      BY <1>4, <1>8, FS_AddElement
    <3>2. leaked \cup {c} \in SUBSET Gone' /\ early \in SUBSET Racing' /\ Owed' = Owed
      BY <1>3, <1>4, <1>5, <2>3
    <3> QED BY <1>8, <3>1, <3>2
  <2> QED BY <2>1, <2>2, <2>3
<1>10. \E l \in SUBSET Gone', e \in SUBSET Racing' :
         stuck' + Cardinality(e) \in {Cardinality(Owed') + Cardinality(l),
                                      Cardinality(Owed') + Cardinality(l) + GaugeModulus}
  <2>1. PICK l \in SUBSET Gone', e \in SUBSET Racing' :
        /\ Cardinality(Owed') \in Nat /\ Cardinality(l) \in Nat /\ Cardinality(e) \in Nat
        /\ Cardinality(Owed') + Cardinality(l) - Cardinality(e)
             = Cardinality(Owed) + Cardinality(leaked) - Cardinality(early) + 1
    BY <1>9
  <2> HIDE DEF n
  <2>2. stuck' + Cardinality(e) \in {Cardinality(Owed') + Cardinality(l),
                                     Cardinality(Owed') + Cardinality(l) + GaugeModulus}
    BY <1>0, <1>1, <1>2, <1>7, <1>8, <2>1
  <2> QED BY <2>2
<1> QED BY <1>6, <1>10 DEF GaugeInv

(* stuck.fetch_sub(1): the job was owed, or is released early. *)
LEMMA ReleasingKeeps ==
  ASSUME IInv, GaugeInv, NEW w \in Workers, ReleaseStuck(w)
  PROVE  GaugeInv'
<1> DEFINE n == Cardinality(Calls)
<1>0. PICK c \in Calls : c = wjob[w]
  BY DEF ReleaseStuck, WorkerAt, IInv, TypeOK, WorkerInv
<1>1. PICK leaked \in SUBSET Gone, early \in SUBSET Racing :
        stuck + Cardinality(early) \in
         {Cardinality(Owed) + Cardinality(leaked),
          Cardinality(Owed) + Cardinality(leaked) + GaugeModulus}
  BY DEF GaugeInv
<1>2. /\ wpc[w] = "release" /\ queue' = queue /\ pc' = pc /\ result' = result
      /\ abandoned' = abandoned /\ wjob' = [wjob EXCEPT ![w] = NoCall]
      /\ wpc' = [wpc EXCEPT ![w] = "recv"]
      /\ stuck' = IF stuck = 0 THEN GaugeModulus - 1 ELSE stuck - 1
  BY DEF ReleaseStuck, WorkerAt, submitterVars
<1>3. /\ c \in Calls /\ InPool(c) /\ ~InPool(c)' /\ abandoned[c]
      /\ \A d \in Calls \ {c} : InPool(d)' <=> InPool(d)
  BY <1>0, <1>2, Leaving DEF GaugeInv
<1>4. \A d \in Calls : Counted(d)' <=> Counted(d)
  BY <1>2 DEF Counted
<1>5. Counted(c) \/ pc[c] = "counting"
  BY <1>3 DEF GaugeInv
<1>6. /\ \A v \in Workers : wpc'[v] = "release" => abandoned'[wjob'[v]]
      /\ \A d \in Calls : abandoned'[d] <=> Counted(d)' \/ pc'[d] = "counting"
  BY <1>2, <1>4 DEF GaugeInv, IInv, TypeOK
<1>7. Owed \in SUBSET Calls /\ leaked \in SUBSET Calls /\ early \in SUBSET Calls
      /\ Owed \cap leaked = {} /\ stuck \in 0 .. GaugeModulus - 1
  BY DEF Owed, Gone, Racing, IInv, TypeOK
<1>8. /\ Cardinality(Owed) \in Nat /\ Cardinality(leaked) \in Nat /\ Cardinality(early) \in Nat
      /\ Cardinality(Owed) + Cardinality(leaked) <= n /\ Cardinality(early) <= n
      /\ IsFiniteSet(Owed) /\ IsFiniteSet(leaked) /\ IsFiniteSet(early)
  BY <1>7, CallSets, TwoCallSets
<1>9. n \in Nat /\ GaugeModulus \in Nat /\ GaugeModulus > 2 * n /\ n > 0
  BY <1>3, CallSets, GaugeAssumption, CallsAssumption, FS_EmptySet
<1>10. Gone \subseteq Gone' /\ Racing \subseteq Racing' /\ Owed' = Owed \ {c}
  BY <1>2, <1>3, <1>4 DEF Gone, Racing, Owed
<1>11. \E e \in SUBSET Racing' :
        /\ Cardinality(Owed') \in Nat /\ Cardinality(e) \in Nat
        /\ Cardinality(Owed') - Cardinality(e) = Cardinality(Owed) - Cardinality(early) - 1
  <2>1. CASE Counted(c)
    <3>1. c \in Owed
      BY <1>3, <2>1 DEF Owed
    <3>2. Cardinality(Owed') = Cardinality(Owed) - 1 /\ Cardinality(Owed') \in Nat
      BY <1>7, <1>8, <1>10, <3>1, FS_RemoveElement, CallSets
    <3> QED BY <1>8, <1>10, <3>2
  <2>2. CASE ~Counted(c)
    <3>1. Owed' = Owed /\ c \in Racing' /\ c \notin early
      BY <1>2, <1>3, <1>5, <1>10, <2>2 DEF Owed, Racing
    <3>2. Cardinality(early \cup {c}) = Cardinality(early) + 1
      BY <1>8, <3>1, FS_AddElement
    <3>3. early \cup {c} \in SUBSET Racing'
      BY <1>10, <3>1
    <3> QED BY <1>8, <3>1, <3>2, <3>3
  <2> QED BY <2>1, <2>2
<1>12. PICK e \in SUBSET Racing' :
        /\ Cardinality(Owed') \in Nat /\ Cardinality(e) \in Nat
        /\ Cardinality(Owed') - Cardinality(e) = Cardinality(Owed) - Cardinality(early) - 1
  BY <1>11
<1>13. stuck' + Cardinality(e) \in {Cardinality(Owed') + Cardinality(leaked),
                                    Cardinality(Owed') + Cardinality(leaked) + GaugeModulus}
  <2> HIDE DEF n
  <2> QED BY <1>1, <1>2, <1>7, <1>8, <1>9, <1>12
<1>14. leaked \in SUBSET Gone'
  BY <1>10
<1> QED BY <1>6, <1>13, <1>14 DEF GaugeInv
LEMMA GaugeStepKeeps ==
  ASSUME IInv, GaugeInv, [Next]_vars
  PROVE  GaugeInv'
(* Where the pool, what is counted and the window stay as they are. *)
<1>1. ASSUME queue' = queue, wjob' = wjob, stuck' = stuck, abandoned' = abandoned,
             \A c \in Calls : Counted(c)' <=> Counted(c),
             \A c \in Calls : pc'[c] = "counting" <=> pc[c] = "counting",
             \A w \in Workers : wpc'[w] = "release" => abandoned[wjob[w]]
      PROVE  GaugeInv'
  <2>1. \A c \in Calls : InPool(c)' <=> InPool(c)
    BY <1>1 DEF InPool, Queued, Held
  <2>2. Owed' = Owed /\ Gone' = Gone /\ Racing' = Racing
    BY <1>1, <2>1 DEF Owed, Gone, Racing
  <2>3. \A c \in Calls : abandoned'[c] <=> Counted(c)' \/ pc'[c] = "counting"
    BY <1>1 DEF GaugeInv
  <2> QED BY <1>1, <2>2, <2>3, GaugeStays
<1>2. ASSUME NEW c \in Calls, SubmitCancellable(c)
      PROVE  GaugeInv'
  <2>1. /\ stuck' = stuck /\ abandoned' = abandoned /\ wpc' = wpc /\ wjob' = wjob
        /\ pc[c] = "ready" /\ pc'[c] \in {"waiting", "returned"} /\ result'[c] # "timed_out"
        /\ \A d \in Calls \ {c} : pc'[d] = pc[d] /\ result'[d] = result[d]
    BY <1>2 DEF SubmitCancellable, Return, workerVars, IInv, TypeOK, CallerInv
  <2>2. \A d \in Calls : (Counted(d)' <=> Counted(d)) /\ (pc'[d] = "counting" <=> pc[d] = "counting")
    BY <2>1 DEF Counted, IInv, CallerInv
  <2>3. ~Counted(c) /\ pc[c] # "counting"
    BY <2>1 DEF Counted, IInv, CallerInv
  <2>4. \A d \in Calls \ {c} : InPool(d)' <=> InPool(d)
    <3>1. CASE queue' = queue
      BY <2>1, <3>1 DEF InPool, Queued, Held
    <3>2. CASE queue' = Append(queue, c)
      <4>1. \A d \in Calls \ {c} : Queued(d)' <=> Queued(d)
        BY <3>2, AppendElements DEF Queued, IInv, TypeOK
      <4> QED BY <2>1, <4>1 DEF InPool, Held
    <3> QED BY <1>2, <3>1, <3>2 DEF SubmitCancellable
  <2>5. Owed' = Owed /\ Gone' = Gone /\ Racing' = Racing
    BY <2>2, <2>3, <2>4 DEF Owed, Gone, Racing
  <2>6. /\ \A w \in Workers : wpc'[w] = "release" => abandoned'[wjob'[w]]
        /\ \A d \in Calls : abandoned'[d] <=> Counted(d)' \/ pc'[d] = "counting"
    BY <2>1, <2>2 DEF GaugeInv
  <2> QED BY <2>1, <2>5, <2>6, GaugeStays
<1>3. ASSUME NEW c \in Calls,
             DeadlinePasses(c) \/ ReceiveReply(c) \/ WaitTimesOut(c) \/ FlagAndReturn(c)
      PROVE  GaugeInv'
  <2>1. /\ stuck' = stuck /\ abandoned' = abandoned /\ wpc' = wpc /\ wjob' = wjob
        /\ queue' = queue
    BY <1>3 DEF DeadlinePasses, ReceiveReply, WaitTimesOut, FlagAndReturn, workerVars
  <2>2. \A d \in Calls : (Counted(d)' <=> Counted(d)) /\ (pc'[d] = "counting" <=> pc[d] = "counting")
    BY <1>3 DEF DeadlinePasses, ReceiveReply, WaitTimesOut, FlagAndReturn, Return, Counted, IInv,
       TypeOK, CallerInv, Responses
  <2> QED BY <1>1, <2>1, <2>2 DEF GaugeInv
<1>4. ASSUME NEW c \in Calls, StoreAbandoned(c)
      PROVE  GaugeInv'
  <2>1. /\ stuck' = stuck /\ abandoned' = [abandoned EXCEPT ![c] = TRUE]
        /\ wpc' = wpc /\ wjob' = wjob /\ queue' = queue /\ result' = result
        /\ pc[c] = "abandoning" /\ pc' = [pc EXCEPT ![c] = "counting"]
    BY <1>4 DEF StoreAbandoned, workerVars
  <2>2. \A d \in Calls : /\ Counted(d)' <=> Counted(d)
                         /\ InPool(d)' <=> InPool(d)
                         /\ pc'[d] = "counting" <=> (pc[d] = "counting" \/ d = c)
    BY <2>1 DEF Counted, InPool, Queued, Held, IInv, TypeOK
  <2>3. \A d \in Calls : abandoned'[d] <=> (abandoned[d] \/ d = c)
    BY <2>1, ZenonT(20) DEF IInv, TypeOK
  <2>4. Owed' = Owed /\ Gone' = Gone /\ Racing \subseteq Racing'
    BY <2>2 DEF Owed, Gone, Racing
  <2>5. \A w \in Workers : wpc'[w] = "release" => abandoned'[wjob'[w]]
    <3>1. \A w \in Workers : wpc[w] = "release" => wjob[w] \in Calls /\ abandoned[wjob[w]]
      BY CallsAssumption DEF GaugeInv, IInv, TypeOK, WorkerInv
    <3> QED BY <2>1, <2>3, <3>1
  <2>6. \A d \in Calls : abandoned'[d] <=> Counted(d)' \/ pc'[d] = "counting"
    BY <2>2, <2>3 DEF GaugeInv
  <2> QED BY <2>1, <2>4, <2>5, <2>6, GaugeStays
<1>5. ASSUME NEW w \in Workers, RecvJob(w)
      PROVE  GaugeInv'
  <2>1. /\ stuck' = stuck /\ abandoned' = abandoned /\ pc' = pc /\ result' = result
        /\ queue # <<>> /\ queue' = Tail(queue) /\ wjob' = [wjob EXCEPT ![w] = Head(queue)]
        /\ wpc[w] = "recv" /\ wpc' = [wpc EXCEPT ![w] = "deadline"]
    BY <1>5 DEF RecvJob, WorkerAt, submitterVars
  <2>2. wjob[w] = NoCall
    BY <2>1 DEF IInv, WorkerInv
  <2>3. \A d \in Calls : Queued(d) <=> (Queued(d)' \/ d = Head(queue))
    <3>1. /\ Head(queue) = queue[1] /\ 1 \in 1 .. Len(queue) /\ Len(queue) \in Nat
          /\ Len(queue') = Len(queue) - 1
          /\ \A i \in 1 .. Len(queue') : i + 1 \in 1 .. Len(queue) /\ queue'[i] = queue[i + 1]
      BY <2>1, TailElements DEF IInv, TypeOK
    <3>2. \A i \in 1 .. Len(queue) : i = 1 \/ (i - 1 \in 1 .. Len(queue') /\ queue'[i - 1] = queue[i])
      BY <3>1
    <3> QED BY <3>1, <3>2 DEF Queued
  <2>4. \A d \in Calls : Held(d)' <=> (Held(d) \/ d = Head(queue))
    BY <2>1, <2>2, CallsAssumption DEF Held, IInv, TypeOK
  <2>5. \A d \in Calls : InPool(d)' <=> InPool(d)
    BY <2>3, <2>4 DEF InPool
  <2>6. \A d \in Calls : Counted(d)' <=> Counted(d)
    BY <2>1 DEF Counted
  <2>7. Owed' = Owed /\ Gone' = Gone /\ Racing' = Racing
    BY <2>1, <2>5, <2>6 DEF Owed, Gone, Racing
  <2>8. /\ \A v \in Workers : wpc'[v] = "release" => abandoned'[wjob'[v]]
        /\ \A d \in Calls : abandoned'[d] <=> Counted(d)' \/ pc'[d] = "counting"
    BY <2>1, <2>6 DEF GaugeInv, IInv, TypeOK
  <2> QED BY <2>1, <2>7, <2>8, GaugeStays
<1>6. ASSUME NEW w \in Workers,
             CheckDeadline(w) \/ CheckCancelFlag(w) \/ HandlerEnds(w) \/ SendReply(w)
      PROVE  GaugeInv'
  <2>1. /\ queue' = queue /\ wjob' = wjob /\ stuck' = stuck /\ abandoned' = abandoned
        /\ pc' = pc /\ result' = result
        /\ \A v \in Workers : wpc'[v] = "release" => wpc[v] = "release"
    BY <1>6 DEF CheckDeadline, CheckCancelFlag, HandlerEnds, SendReply, submitterVars, IInv, TypeOK
  <2> QED BY <1>1, <2>1 DEF Counted, GaugeInv
<1>7. ASSUME NEW w \in Workers, ReapIfAbandoned(w)
      PROVE  GaugeInv'
  <2>1. /\ queue' = queue /\ stuck' = stuck /\ abandoned' = abandoned
        /\ pc' = pc /\ result' = result /\ wpc[w] = "reap"
        /\ \A v \in Workers \ {w} : wpc'[v] = wpc[v]
    BY <1>7 DEF ReapIfAbandoned, WorkerAt, submitterVars, IInv, TypeOK
  <2>2. CASE abandoned[wjob[w]] /\ wjob' = wjob
    BY <1>1, <2>1, <2>2 DEF Counted, GaugeInv
  <2>3. CASE /\ ~abandoned[wjob[w]] /\ wjob' = [wjob EXCEPT ![w] = NoCall]
             /\ wpc' = [wpc EXCEPT ![w] = "recv"]
    <3>1. PICK c \in Calls : c = wjob[w]
      BY <2>1 DEF IInv, TypeOK, WorkerInv
    <3>2. \A d \in Calls \ {c} : InPool(d)' <=> InPool(d)
      BY <2>1, <2>3, <3>1, Leaving
    <3>3. ~Counted(c) /\ pc[c] # "counting"
      BY <2>3, <3>1 DEF GaugeInv
    <3>4. \A d \in Calls : Counted(d)' <=> Counted(d)
      BY <2>1 DEF Counted
    <3>5. Owed' = Owed /\ Gone' = Gone /\ Racing' = Racing
      BY <2>1, <3>2, <3>3, <3>4 DEF Owed, Gone, Racing
    <3>6. /\ \A v \in Workers : wpc'[v] = "release" => abandoned'[wjob'[v]]
          /\ \A d \in Calls : abandoned'[d] <=> Counted(d)' \/ pc'[d] = "counting"
      BY <2>1, <2>3, <3>4 DEF GaugeInv, IInv, TypeOK
    <3> QED BY <2>1, <3>5, <3>6, GaugeStays
  <2> QED BY <1>7, <2>2, <2>3 DEF ReapIfAbandoned
<1>8. ASSUME NEW f \in Flags, RequestCancel(f)
      PROVE  GaugeInv'
  BY <1>1, <1>8 DEF RequestCancel, submitterVars, workerVars, Counted, GaugeInv
<1>9. CASE UNCHANGED vars
  BY <1>1, <1>9 DEF vars, submitterVars, workerVars, Counted, GaugeInv
<1> QED
  BY <1>2, <1>3, <1>4, <1>5, <1>6, <1>7, <1>8, <1>9, CountingKeeps, ReleasingKeeps
  DEF Next, Idle, SubmitterStep, WorkerStep

(* Outside the window between "abandoned" and the count, the gauge is never *)
(* below the number of given-up jobs that occupy the queue or a worker.     *)
THEOREM GaugeIsNeverLow == Spec => []GaugeCoversStuckWork
<1>1. Init => GaugeInv
  <2> SUFFICES ASSUME Init PROVE GaugeInv
    OBVIOUS
  <2>1. Owed = {} /\ stuck = 0
    BY DEF Init, Owed, Counted
  <2>2. stuck + Cardinality({}) = Cardinality(Owed) + Cardinality({})
    BY <2>1, FS_EmptySet
  <2> QED BY <2>2 DEF Init, GaugeInv, Counted
<1>2. ASSUME IInv, GaugeInv PROVE GaugeCoversStuckWork
  <2> SUFFICES ASSUME \A c \in Calls : pc[c] # "counting"
               PROVE  stuck >= Cardinality(Owed)
    BY DEF GaugeCoversStuckWork, Owed, InPool
  <2>1. PICK leaked \in SUBSET Gone, early \in SUBSET Racing :
          stuck + Cardinality(early) \in
           {Cardinality(Owed) + Cardinality(leaked),
            Cardinality(Owed) + Cardinality(leaked) + GaugeModulus}
    BY <1>2 DEF GaugeInv
  <2>2. Cardinality(early) = 0
    <3>1. early = {}
      BY DEF Racing
    <3> QED BY <3>1, FS_EmptySet
  <2>3. Cardinality(Owed) \in Nat /\ Cardinality(leaked) \in Nat
    BY CallSets DEF Owed, Gone
  <2> QED BY <1>2, <2>1, <2>2, <2>3, GaugeAssumption DEF IInv, TypeOK
<1> QED BY <1>1, <1>2, Inductive, GaugeStepKeeps, PTL DEF Spec
-----------------------------------------------------------------------------
(* Termination.  A caller that has not returned can always move by itself:  *)
(* the clock bounds its wait.  A worker can, but where a handler runs; and  *)
(* there is an end to what is left to do.  Under a scheduler that runs      *)
(* whoever is ready, every call therefore returns; and if handlers return,  *)
(* every job leaves the pool.                                               *)

(* The guard of a worker with a job, by where it stands. *)
WorkerReady(w) ==
  /\ w \in alive
  /\ \/ wpc[w] \in {"deadline", "flag", "reap", "release"}
     \/ wpc[w] = "send" /\ reply[wjob[w]] = "none"
Receives(w) == WorkerAt(w, "recv")
Runs(w)     == WorkerAt(w, "run")

(* The spawned threads are the only ones that work, and without any of them *)
(* no job was ever accepted.                                                *)
SpawnInv == /\ \A w \in Workers : wpc[w] # "recv" => w \in alive
            /\ queue # <<>> => alive # {}

NobodyIsWedged ==
  /\ \A w \in Workers : wjob[w] # NoCall => WorkerReady(w) \/ Runs(w)
  /\ queue # <<>> => \E w \in alive : Receives(w) \/ WorkerReady(w) \/ Runs(w)

(* How many steps a call's thread, the clock that bounds its wait, its job  *)
(* and the owner of a flag still have before them.                          *)
CallSteps == [ready |-> 5, waiting |-> 4, abandoning |-> 3, counting |-> 2, flagging |-> 1,
              returned |-> 0]
WorkSteps == [deadline |-> 6, flag |-> 5, run |-> 4, send |-> 3, reap |-> 2, release |-> 1]
Holder(c) == CHOOSE w \in Workers : wjob[w] = c
CallLeft(c) == CallSteps[pc[c]] + (IF expired[c] THEN 0 ELSE 1)
JobLeft(c)  == IF pc[c] = "ready" THEN 8
               ELSE IF Queued(c) THEN 7
               ELSE IF Held(c) THEN WorkSteps[wpc[Holder(c)]] ELSE 0
FlagLeft(f) == IF f \in OwnedFlags \ requested THEN 1 ELSE 0

Fewer == \/ \E c \in Calls : CallLeft(c)' < CallLeft(c) \/ JobLeft(c)' < JobLeft(c)
         \/ \E f \in Flags : FlagLeft(f)' < FlagLeft(f)
NoMore == /\ \A c \in Calls : CallLeft(c)' <= CallLeft(c) /\ JobLeft(c)' <= JobLeft(c)
          /\ \A f \in Flags : FlagLeft(f)' <= FlagLeft(f)
Counters == /\ \A c \in Calls : CallLeft(c) \in Nat /\ JobLeft(c) \in Nat
            /\ \A f \in Flags : FlagLeft(f) \in Nat
EveryStepCounts == [][NoMore /\ Fewer]_vars

(* With one owner for every job, its place says what is left to do on it. *)
Placed == \A c \in Calls :
  /\ Queued(c) => pc[c] # "ready" /\ JobLeft(c) = 7
  /\ \A w \in Workers : wjob[w] = c => pc[c] # "ready" /\ JobLeft(c) = WorkSteps[wpc[w]]
  /\ pc[c] # "ready" /\ ~Queued(c) /\ ~Held(c) => JobLeft(c) = 0

LEMMA JobsArePlaced == IInv => Placed
<1> SUFFICES ASSUME IInv, NEW c \in Calls
             PROVE  /\ Queued(c) => pc[c] # "ready" /\ JobLeft(c) = 7
                    /\ \A w \in Workers :
                         wjob[w] = c => pc[c] # "ready" /\ JobLeft(c) = WorkSteps[wpc[w]]
                    /\ pc[c] # "ready" /\ ~Queued(c) /\ ~Held(c) => JobLeft(c) = 0
  BY DEF Placed
<1>1. Queued(c) => pc[c] # "ready"
  BY DEF IInv, ReadyInv, Queued
<1>2. ASSUME NEW w \in Workers, wjob[w] = c
      PROVE  pc[c] # "ready" /\ JobLeft(c) = WorkSteps[wpc[w]]
  <2>1. pc[c] # "ready" /\ ~Queued(c) /\ Held(c)
    BY <1>2 DEF IInv, ReadyInv, OneOwner, Queued, Held
  <2>2. Holder(c) = w
    BY <1>2, CallsAssumption DEF IInv, OneOwner, Holder
  <2> QED BY <2>1, <2>2 DEF JobLeft
<1> QED BY <1>1, <1>2 DEF JobLeft

LEMMA JobsArePlacedNext == IInv' => Placed'
BY JobsArePlaced, PTL

(* What is left to do on a job that no step has touched. *)
LEMMA SameJob ==
  ASSUME IInv, IInv', NEW c \in Calls,
         pc[c] = "ready" <=> pc'[c] = "ready", Queued(c)' <=> Queued(c),
         \A w \in Workers : wjob[w] = c \/ wjob'[w] = c => wjob'[w] = wjob[w] /\ wpc'[w] = wpc[w]
  PROVE  JobLeft(c)' = JobLeft(c)
<1>1. Placed /\ Placed'
  BY JobsArePlaced, JobsArePlacedNext
<1>2. CASE pc[c] = "ready"
  BY <1>2 DEF JobLeft
<1>3. CASE pc[c] # "ready" /\ Queued(c)
  BY <1>1, <1>3 DEF Placed
<1>4. ASSUME pc[c] # "ready", NEW w \in Workers, wjob[w] = c
      PROVE  JobLeft(c)' = JobLeft(c)
  BY <1>1, <1>4 DEF Placed
<1>5. CASE pc[c] # "ready" /\ ~Queued(c) /\ ~Held(c)
  <2>1. ~Held(c)' /\ ~Queued(c)' /\ pc'[c] # "ready"
    BY <1>5 DEF Held
  <2> QED BY <1>1, <1>5, <2>1 DEF Placed
<1> QED BY <1>2, <1>3, <1>4, <1>5 DEF Held

LEMMA LeftTypes == IInv => Counters
<1> SUFFICES ASSUME IInv PROVE Counters
  OBVIOUS
<1>1. ASSUME NEW c \in Calls
      PROVE  CallLeft(c) \in Nat /\ JobLeft(c) \in Nat
  <2>1. CallSteps[pc[c]] \in Nat
    BY DEF CallSteps, IInv, TypeOK, SubmitterStates
  <2>2. ASSUME NEW w \in Workers, wjob[w] = c
        PROVE  WorkSteps[wpc[w]] \in Nat
    BY <2>2, CallsAssumption DEF WorkSteps, IInv, TypeOK, WorkerStates, WorkerInv
  <2>3. JobLeft(c) \in Nat
    BY <2>2, JobsArePlaced DEF Placed, Held, JobLeft
  <2> QED BY <2>1, <2>3 DEF CallLeft
<1> QED BY <1>1 DEF Counters, FlagLeft

LEMMA LeftTypesNext == IInv' => Counters'
BY LeftTypes, PTL

(* A step of a submitter, of a worker and of an owner of a flag, when its   *)
(* counter goes down and no other goes up.                                  *)
LEMMA OneCounts ==
  ASSUME Counters, Counters',
         \A c \in Calls : CallLeft(c)' = CallLeft(c) \/ CallLeft(c)' < CallLeft(c),
         \A c \in Calls : JobLeft(c)' = JobLeft(c) \/ JobLeft(c)' < JobLeft(c),
         \A f \in Flags : FlagLeft(f)' = FlagLeft(f) \/ FlagLeft(f)' < FlagLeft(f),
         Fewer
  PROVE  NoMore /\ Fewer
BY DEF NoMore, Counters

LEMMA StepCounts ==
  ASSUME IInv, IInv', Next, vars' # vars
  PROVE  NoMore /\ Fewer
<1>0. Counters /\ Counters' /\ Placed /\ Placed'
  BY LeftTypes, LeftTypesNext, JobsArePlaced, JobsArePlacedNext
<1>1. ASSUME NEW c \in Calls, SubmitCancellable(c)
      PROVE  NoMore /\ Fewer
  <2>1. /\ pc[c] = "ready" /\ pc'[c] \in {"waiting", "returned"}
        /\ \A d \in Calls \ {c} : pc'[d] = pc[d]
        /\ expired' = expired /\ requested' = requested /\ wjob' = wjob /\ wpc' = wpc
    BY <1>1 DEF SubmitCancellable, Return, workerVars, IInv, TypeOK
  <2>2. \A d \in Calls \ {c} : Queued(d)' <=> Queued(d)
    <3>1. CASE queue' = queue
      BY <3>1 DEF Queued
    <3>2. CASE queue' = Append(queue, c)
      <4>1. /\ Len(queue') = Len(queue) + 1 /\ queue'[Len(queue) + 1] = c
            /\ \A i \in 1 .. Len(queue) : queue'[i] = queue[i]
            /\ Len(queue) \in Nat
        BY <3>2, AppendElements DEF IInv, TypeOK
      <4>2. \A i \in 1 .. Len(queue') : i \in 1 .. Len(queue) \/ i = Len(queue) + 1
        BY <4>1
      <4>3. \A i \in 1 .. Len(queue) : i \in 1 .. Len(queue')
        BY <4>1
      <4> QED BY <4>1, <4>2, <4>3 DEF Queued
    <3> QED BY <1>1, <3>1, <3>2 DEF SubmitCancellable
  <2>3. CallLeft(c)' < CallLeft(c)
    BY <2>1 DEF CallLeft, CallSteps
  <2>4. JobLeft(c)' < JobLeft(c)
    <3>1. JobLeft(c) = 8
      BY <2>1 DEF JobLeft
    <3>2. ~Held(c)'
      BY <2>1, <1>0 DEF Placed, Held
    <3> QED BY <1>0, <2>1, <3>1, <3>2 DEF Placed
  <2>5. \A d \in Calls \ {c} : JobLeft(d)' = JobLeft(d) /\ CallLeft(d)' = CallLeft(d)
    BY <2>1, <2>2, SameJob DEF CallLeft
  <2>6. \A f \in Flags : FlagLeft(f)' = FlagLeft(f)
    BY <2>1 DEF FlagLeft
  <2> QED BY <1>0, <2>3, <2>4, <2>5, <2>6, OneCounts DEF Fewer
<1>2. ASSUME NEW c \in Calls, DeadlinePasses(c) \/ SubmitterStep(c)
      PROVE  NoMore /\ Fewer
  <2>1. /\ pc[c] # "ready" /\ pc'[c] # "ready"
        /\ \A d \in Calls \ {c} : pc'[d] = pc[d] /\ expired'[d] = expired[d]
        /\ queue' = queue /\ requested' = requested /\ wjob' = wjob /\ wpc' = wpc
    BY <1>2 DEF DeadlinePasses, SubmitterStep, ReceiveReply, WaitTimesOut, StoreAbandoned,
       CountStuck, FlagAndReturn, Return, workerVars, submitterVars, IInv, TypeOK
  <2>2. CallLeft(c)' < CallLeft(c)
    <3>1. CASE DeadlinePasses(c)
      BY <3>1 DEF DeadlinePasses, CallLeft, CallSteps, IInv, TypeOK
    <3>2. CASE SubmitterStep(c)
      <4>1. expired' = expired
            /\ <<pc[c], pc'[c]>> \in {<<"waiting", "returned">>, <<"waiting", "abandoning">>,
                 <<"abandoning", "counting">>, <<"counting", "flagging">>,
                 <<"flagging", "returned">>}
        BY <3>2 DEF SubmitterStep, ReceiveReply, WaitTimesOut, StoreAbandoned, CountStuck,
           FlagAndReturn, Return, IInv, TypeOK
      <4> QED BY <4>1 DEF CallLeft, CallSteps
    <3> QED BY <1>2, <3>1, <3>2
  <2>3. \A d \in Calls \ {c} : CallLeft(d)' = CallLeft(d)
    BY <2>1 DEF CallLeft
  <2>4. ASSUME NEW d \in Calls PROVE JobLeft(d)' = JobLeft(d)
    <3>1. Queued(d)' <=> Queued(d)
      BY <2>1 DEF Queued
    <3> QED BY <2>1, <3>1, SameJob
  <2>5. \A f \in Flags : FlagLeft(f)' = FlagLeft(f)
    BY <2>1 DEF FlagLeft
  <2> QED BY <1>0, <2>2, <2>3, <2>4, <2>5, OneCounts DEF Fewer
<1>3. ASSUME NEW w \in Workers, RecvJob(w) \/ WorkerStep(w) \/ HandlerEnds(w)
      PROVE  NoMore /\ Fewer
  <2>1. /\ pc' = pc /\ expired' = expired /\ requested' = requested
        /\ \A v \in Workers \ {w} : wjob'[v] = wjob[v] /\ wpc'[v] = wpc[v]
    BY <1>3 DEF RecvJob, WorkerStep, CheckDeadline, CheckCancelFlag, HandlerEnds, SendReply,
       ReapIfAbandoned, ReleaseStuck, submitterVars, IInv, TypeOK
  <2>2. \A d \in Calls : CallLeft(d)' = CallLeft(d)
    BY <2>1 DEF CallLeft
  <2>3. \A f \in Flags : FlagLeft(f)' = FlagLeft(f)
    BY <2>1 DEF FlagLeft
  <2>4. PICK c \in Calls :
          /\ JobLeft(c)' < JobLeft(c)
          /\ \A d \in Calls \ {c} : JobLeft(d)' = JobLeft(d)
    <3>1. CASE RecvJob(w)
      <4>1. /\ Head(queue) \in Calls /\ Head(queue) = queue[1] /\ 1 \in 1 .. Len(queue)
            /\ queue' = Tail(queue) /\ Len(queue') = Len(queue) - 1 /\ Len(queue) \in Nat
            /\ \A i \in 1 .. Len(queue') :
                 i + 1 \in 1 .. Len(queue) /\ queue'[i] = queue[i + 1]
        BY <3>1, TailElements DEF RecvJob, IInv, TypeOK
      <4>2. PICK c \in Calls : c = Head(queue)
        BY <4>1
      <4>3. Queued(c) /\ wjob'[w] = c /\ wpc'[w] = "deadline" /\ wjob[w] = NoCall
        BY <3>1, <4>1, <4>2 DEF RecvJob, Queued, WorkerAt, IInv, TypeOK, WorkerInv
      <4>4. JobLeft(c)' < JobLeft(c)
        BY <1>0, <4>3 DEF Placed, WorkSteps
      <4>5. ASSUME NEW d \in Calls \ {c} PROVE JobLeft(d)' = JobLeft(d)
        <5>1. Queued(d)' => Queued(d)
          BY <4>1 DEF Queued
        <5>2. Queued(d) => Queued(d)'
          <6> SUFFICES ASSUME NEW i \in 1 .. Len(queue), queue[i] = d PROVE Queued(d)'
            BY DEF Queued
          <6>1. i # 1
            BY <4>1, <4>2
          <6>2. i - 1 \in 1 .. Len(queue') /\ (i - 1) + 1 = i
            BY <4>1, <6>1
          <6>3. queue'[i - 1] = d
            BY <4>1, <6>2
          <6> QED BY <6>2, <6>3 DEF Queued
        <5>3. \A v \in Workers : wjob[v] = d \/ wjob'[v] = d => v # w
          BY <4>3, CallsAssumption
        <5> QED BY <2>1, <5>1, <5>2, <5>3, SameJob
      <4> QED BY <4>4, <4>5
    <3>2. CASE WorkerStep(w) \/ HandlerEnds(w)
      <4>1. /\ queue' = queue
            /\ \/ /\ wjob'[w] = wjob[w]
                  /\ <<wpc[w], wpc'[w]>> \in
                       {<<"deadline", "send">>, <<"deadline", "flag">>, <<"flag", "send">>,
                        <<"flag", "run">>, <<"run", "send">>, <<"send", "reap">>,
                        <<"reap", "release">>}
               \/ /\ wjob'[w] = NoCall
                  /\ wpc[w] \in {"reap", "release"} /\ wpc'[w] = "recv"
        BY <3>2 DEF WorkerStep, WorkerAt, CheckDeadline, CheckCancelFlag, HandlerEnds, SendReply,
           ReapIfAbandoned, ReleaseStuck, IInv, TypeOK
      <4>2. PICK c \in Calls : c = wjob[w]
        BY <4>1 DEF IInv, TypeOK, WorkerInv
      <4>3. JobLeft(c)' < JobLeft(c)
        <5>1. JobLeft(c) = WorkSteps[wpc[w]]
          BY <1>0, <4>2 DEF Placed
        <5>2. CASE wjob'[w] = wjob[w]
          BY <1>0, <4>1, <4>2, <5>1, <5>2, CallsAssumption DEF Placed, WorkSteps
        <5>3. CASE wjob'[w] = NoCall
          <6>1. ~Queued(c) /\ pc[c] # "ready"
            BY <4>2 DEF IInv, OneOwner, ReadyInv, Queued
          <6>2. ~Held(c)' /\ ~Queued(c)' /\ pc'[c] # "ready"
            BY <2>1, <4>1, <4>2, <5>3, <6>1, CallsAssumption
            DEF Held, Queued, IInv, OneOwner
          <6>3. JobLeft(c)' = 0
            BY <1>0, <6>2 DEF Placed
          <6> QED BY <4>1, <4>2, <5>1, <5>3, <6>3, CallsAssumption DEF WorkSteps
        <5> QED BY <4>1, <5>2, <5>3
      <4>4. ASSUME NEW d \in Calls \ {c} PROVE JobLeft(d)' = JobLeft(d)
        <5>1. Queued(d)' <=> Queued(d)
          BY <4>1 DEF Queued
        <5>2. \A v \in Workers : wjob[v] = d \/ wjob'[v] = d => v # w
          BY <4>1, <4>2, CallsAssumption
        <5> QED BY <2>1, <5>1, <5>2, SameJob
      <4> QED BY <4>3, <4>4
    <3> QED BY <1>3, <3>1, <3>2
  <2> QED BY <1>0, <2>2, <2>3, <2>4, OneCounts DEF Fewer
<1>4. ASSUME NEW f \in Flags, RequestCancel(f)
      PROVE  NoMore /\ Fewer
  <2>1. /\ pc' = pc /\ expired' = expired /\ queue' = queue /\ wjob' = wjob /\ wpc' = wpc
        /\ f \in OwnedFlags \ requested /\ requested' = requested \cup {f}
    BY <1>4 DEF RequestCancel, submitterVars, workerVars
  <2>2. \A c \in Calls : CallLeft(c)' = CallLeft(c) /\ JobLeft(c)' = JobLeft(c)
    BY <2>1 DEF CallLeft, JobLeft, Queued, Held, Holder
  <2>3. /\ FlagLeft(f)' < FlagLeft(f)
        /\ \A g \in Flags \ {f} : FlagLeft(g)' = FlagLeft(g)
    BY <2>1 DEF FlagLeft
  <2> QED BY <1>0, <2>2, <2>3, OneCounts DEF Fewer
<1> QED BY <1>1, <1>2, <1>3, <1>4 DEF Next, Idle

LEMMA SpawnStepKeeps ==
  ASSUME IInv, SpawnInv, [Next]_vars
  PROVE  SpawnInv'
<1>1. alive' = alive
  BY DEF Next, Idle, vars, SubmitCancellable, DeadlinePasses, SubmitterStep, ReceiveReply,
     WaitTimesOut, StoreAbandoned, CountStuck, FlagAndReturn, RecvJob, WorkerStep,
     CheckDeadline, CheckCancelFlag, HandlerEnds, SendReply, ReapIfAbandoned, ReleaseStuck,
     RequestCancel
<1>2. \A w \in Workers : wpc'[w] # "recv" => w \in alive
  <2>1. ASSUME NEW v \in Workers, RecvJob(v) \/ WorkerStep(v) \/ HandlerEnds(v)
        PROVE  v \in alive /\ \A w \in Workers \ {v} : wpc'[w] = wpc[w]
    BY <2>1 DEF RecvJob, WorkerStep, WorkerAt, CheckDeadline, CheckCancelFlag, HandlerEnds,
       SendReply, ReapIfAbandoned, ReleaseStuck, IInv, TypeOK
  <2>2. CASE wpc' = wpc
    BY <2>2 DEF SpawnInv
  <2> QED BY <2>1, <2>2 DEF SpawnInv, Next, Idle, vars, SubmitCancellable, DeadlinePasses,
     SubmitterStep, ReceiveReply, WaitTimesOut, StoreAbandoned, CountStuck, FlagAndReturn,
     RequestCancel, workerVars
<1>3. queue' # <<>> => alive # {}
  <2>1. CASE queue' = queue
    BY <2>1 DEF SpawnInv
  <2>2. ASSUME NEW c \in Calls, SubmitCancellable(c)
        PROVE  queue' = queue \/ alive # {}
    BY <2>2 DEF SubmitCancellable
  <2>3. ASSUME NEW w \in Workers, RecvJob(w) \/ WorkerStep(w) \/ HandlerEnds(w)
        PROVE  queue' = queue \/ alive # {}
    BY <2>3 DEF RecvJob, WorkerAt, WorkerStep, CheckDeadline, CheckCancelFlag, HandlerEnds,
       SendReply, ReapIfAbandoned, ReleaseStuck
  <2> QED BY <2>1, <2>2, <2>3 DEF Next, Idle, vars, DeadlinePasses, SubmitterStep,
     ReceiveReply, WaitTimesOut, StoreAbandoned, CountStuck, FlagAndReturn, RequestCancel
<1> QED BY <1>1, <1>2, <1>3 DEF SpawnInv

LEMMA NotWedged == IInv /\ SpawnInv => NobodyIsWedged
<1> SUFFICES ASSUME IInv, SpawnInv PROVE NobodyIsWedged
  OBVIOUS
<1>1. ASSUME NEW w \in Workers, wpc[w] # "recv"
      PROVE  WorkerReady(w) \/ Runs(w)
  BY <1>1 DEF SpawnInv, WorkerReady, Runs, WorkerAt, IInv, TypeOK, WorkerStates, WorkerInv
<1>2. \A w \in Workers : wjob[w] # NoCall => wpc[w] # "recv"
  BY DEF IInv, WorkerInv
<1>3. queue # <<>> => \E w \in alive : Receives(w) \/ WorkerReady(w) \/ Runs(w)
  BY <1>1 DEF SpawnInv, Receives, WorkerAt, IInv, TypeOK
<1> QED BY <1>1, <1>2, <1>3 DEF NobodyIsWedged

(* A worker with a job is stopped by nothing but its handler, on any path   *)
(* of worker_loop, and a queued job always has a worker thread before it    *)
(* that is idle, on its way, or in a handler.                               *)
THEOREM PoolIsNeverStuck == Spec => []NobodyIsWedged
<1>1. Init => SpawnInv
  BY DEF Init, SpawnInv
<1> QED BY <1>1, Inductive, SpawnStepKeeps, NotWedged, PTL DEF Spec

(* Every step of a caller, of the clock, of a worker or of the owner of a   *)
(* flag uses up something of one call or one flag, and none gives anything  *)
(* back: no job is queued, taken or answered twice, and no call waits       *)
(* because the pool goes round in circles.                                  *)
THEOREM PoolRunsOutOfSteps ==
  Spec => /\ EveryStepCounts
          /\ []Counters
<1>1. IInv /\ IInv' /\ [Next]_vars => [NoMore /\ Fewer]_vars
  BY StepCounts
<1>2. Spec => EveryStepCounts
  BY <1>1, Inductive, PTL DEF Spec, EveryStepCounts
<1>3. Spec => []Counters
  BY LeftTypes, Inductive, PTL
<1> QED BY <1>2, <1>3
=============================================================================
