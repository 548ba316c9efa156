------------------------------ MODULE SyncPool ------------------------------
(***************************************************************************)
(* The in-process worker pool of src/src/mcp/sync_pool.rs, which the       *)
(* budget-aware agent API runs tools on: a bounded job queue, a fixed set  *)
(* of worker threads, a reply channel of capacity one per job, and the     *)
(* shared atomics a submitter and a worker race on.  Every access to an    *)
(* atomic or a channel is a step of its own, so all interleavings of       *)
(* submitters and workers are behaviours.                                  *)
(*                                                                         *)
(* A call is made once; calls that share a cancellation flag (an           *)
(* ExecutionContext reused by its caller) are several calls with the same  *)
(* FlagOf.                                                                 *)
(***************************************************************************)
EXTENDS Naturals, Sequences, FiniteSets

CONSTANTS Calls,         \* the calls made over a behaviour
          Workers,       \* the worker threads with_limits tries to spawn
          Flags,         \* the cancellation flags
          FlagOf,        \* [Calls -> Flags]: the flag a call is made with
          OwnedFlags,    \* the flags the embedding program holds, and may set
          HandlerOutcomes, \* what handlers do: return ("done"), panic ("internal_error")
          QueueCapacity, \* DEFAULT_SYNC_QUEUE
          GaugeModulus,  \* the stuck gauge counts modulo this: 2^64 in the code
          NoCall

ASSUME CallsAssumption == NoCall \notin Calls /\ IsFiniteSet(Calls)
ASSUME FlagAssumption  == FlagOf \in [Calls -> Flags] /\ OwnedFlags \subseteq Flags
ASSUME OutcomeAssumption == HandlerOutcomes \subseteq {"done", "internal_error"}
ASSUME QueueAssumption == QueueCapacity \in Nat \ {0}
ASSUME GaugeAssumption == GaugeModulus \in Nat /\ GaugeModulus > 2 * Cardinality(Calls)

VARIABLES
  alive,      \* the workers whose spawn succeeded
  \* submitters
  pc,         \* [Calls -> SubmitterStates]
  result,     \* [Calls -> what submit_cancellable returned]
  expired,    \* [Calls -> BOOLEAN]: the clock has passed the job's deadline
  \* per job
  handler,    \* [Calls -> HandlerStates]: the FnOnce closure of the job
  reply,      \* [Calls -> content of the job's reply channel]
  abandoned,  \* [Calls -> BOOLEAN]: SyncJob.abandoned
  \* shared
  queue,      \* the job channel
  flag,       \* [Flags -> BOOLEAN]: the cancellation flags
  requested,  \* the flags their owner has set, from outside the pool
  stuck,      \* the stuck gauge
  \* workers
  wpc,        \* [Workers -> WorkerStates]
  wjob,       \* [Workers -> Calls \cup {NoCall}]: the dequeued job
  wresp       \* [Workers -> Responses \cup {"none"}]: the response to send

submitterVars == <<pc, result, expired>>
workerVars    == <<wpc, wjob, wresp>>
vars == <<alive, submitterVars, handler, reply, abandoned, queue, flag, requested,
          stuck, workerVars>>

SubmitterStates == {"ready", "waiting", "abandoning", "counting",
                    "flagging", "returned"}
Responses       == {"done", "internal_error", "timeout", "cancelled"}
PoolErrors      == {"timed_out", "queue_full", "shutdown"}
HandlerStates   == {"held", "claimed", "ran", "dropped"}
WorkerStates    == {"recv", "deadline", "flag", "run", "send", "reap", "release"}
-----------------------------------------------------------------------------
(* with_limits: any of the spawns may fail, even all of them. *)
Init ==
  /\ alive \in SUBSET Workers
  /\ pc = [c \in Calls |-> "ready"]
  /\ result = [c \in Calls |-> "none"]
  /\ expired = [c \in Calls |-> FALSE]
  /\ handler = [c \in Calls |-> "held"]
  /\ reply = [c \in Calls |-> "none"]
  /\ abandoned = [c \in Calls |-> FALSE]
  /\ queue = <<>>
  /\ flag = [f \in Flags |-> FALSE]
  /\ requested = {}
  /\ stuck = 0
  /\ wpc = [w \in Workers |-> "recv"]
  /\ wjob = [w \in Workers |-> NoCall]
  /\ wresp = [w \in Workers |-> "none"]
-----------------------------------------------------------------------------
(* The submitting thread. *)

(* The clock passes the deadline of a call that has one.  Once the call has *)
(* its answer nobody reads the clock for it any more.                      *)
DeadlinePasses(c) ==
  /\ pc[c] = "waiting" /\ ~expired[c]
  /\ expired' = [expired EXCEPT ![c] = TRUE]
  /\ UNCHANGED <<alive, pc, result, handler, reply, abandoned, queue, flag,
                 requested, stuck, workerVars>>

Return(c, r) == /\ pc' = [pc EXCEPT ![c] = "returned"]
                /\ result' = [result EXCEPT ![c] = r]

(* Fault: the capacity is compared off by one. *)
SubmitBeyondCapacity(c) ==
  /\ pc[c] = "ready" /\ alive # {} /\ Len(queue) <= QueueCapacity
  /\ queue' = Append(queue, c)
  /\ pc' = [pc EXCEPT ![c] = "waiting"]
  /\ UNCHANGED <<alive, result, expired, handler, reply, abandoned, flag, requested,
                 stuck, workerVars>>

(* submit_cancellable fixes the deadline and enqueue_job tries the queue,  *)
(* without blocking.  With no worker at all the receiver is gone.          *)
SubmitCancellable(c) ==
  /\ pc[c] = "ready"
  /\ \/ /\ alive # {} /\ Len(queue) < QueueCapacity
        /\ queue' = Append(queue, c)
        /\ pc' = [pc EXCEPT ![c] = "waiting"]
        /\ UNCHANGED result
     \/ /\ alive # {} /\ Len(queue) >= QueueCapacity
        /\ Return(c, "queue_full")
        /\ UNCHANGED queue
     \/ /\ alive = {}
        /\ Return(c, "shutdown")
        /\ UNCHANGED queue
  /\ UNCHANGED <<alive, expired, handler, reply, abandoned, flag, requested, stuck,
                 workerVars>>

(* wait_for_reply: recv_timeout finds a reply ... *)
ReceiveReply(c) ==
  /\ pc[c] = "waiting" /\ reply[c] # "none"
  /\ Return(c, reply[c])
  /\ reply' = [reply EXCEPT ![c] = "none"]
  /\ UNCHANGED <<alive, expired, handler, abandoned, queue, flag, requested, stuck,
                 workerVars>>

(* Fault: a timed-out submitter joins its handler before it returns. *)
WaitForHandler(c) ==
  /\ pc[c] = "waiting" /\ reply[c] = "none" /\ expired[c] /\ handler[c] # "claimed"
  /\ pc' = [pc EXCEPT ![c] = "abandoning"]
  /\ UNCHANGED <<alive, result, expired, handler, reply, abandoned, queue, flag,
                 requested, stuck, workerVars>>

(* ... or finds none and its time is up.  The wait starts after the        *)
(* deadline was fixed, with the same timeout, so it ends after it.         *)
WaitTimesOut(c) ==
  /\ pc[c] = "waiting" /\ reply[c] = "none" /\ expired[c]
  /\ pc' = [pc EXCEPT ![c] = "abandoning"]
  /\ UNCHANGED <<alive, result, expired, handler, reply, abandoned, queue, flag,
                 requested, stuck, workerVars>>

StoreAbandoned(c) ==
  /\ pc[c] = "abandoning"
  /\ abandoned' = [abandoned EXCEPT ![c] = TRUE]
  /\ pc' = [pc EXCEPT ![c] = "counting"]
  /\ UNCHANGED <<alive, result, expired, handler, reply, queue, flag, requested,
                 stuck, workerVars>>

(* stuck.fetch_add(1), on an atomic that wraps. *)
CountStuck(c) ==
  /\ pc[c] = "counting"
  /\ stuck' = IF stuck = GaugeModulus - 1 THEN 0 ELSE stuck + 1
  /\ pc' = [pc EXCEPT ![c] = "flagging"]
  /\ UNCHANGED <<alive, result, expired, handler, reply, abandoned, queue, flag,
                 requested, workerVars>>

(* The flag is stored last; then the caller is told of the timeout. *)
FlagAndReturn(c) ==
  /\ pc[c] = "flagging"
  /\ flag' = [flag EXCEPT ![FlagOf[c]] = TRUE]
  /\ Return(c, "timed_out")
  /\ UNCHANGED <<alive, expired, handler, reply, abandoned, queue, requested, stuck,
                 workerVars>>

(* The owner of a flag cancels whatever runs under it.  The flag that       *)
(* run_bounded makes for a call without one is nobody else's.              *)
RequestCancel(f) ==
  /\ f \in OwnedFlags \ requested
  /\ requested' = requested \cup {f}
  /\ flag' = [flag EXCEPT ![f] = TRUE]
  /\ UNCHANGED <<alive, submitterVars, handler, reply, abandoned, queue, stuck,
                 workerVars>>
-----------------------------------------------------------------------------
(* The worker thread: worker_loop. *)

WorkerAt(w, state) == w \in alive /\ wpc[w] = state

(* Fault: the job is looked at and not taken out of the channel. *)
PeekJob(w) ==
  /\ WorkerAt(w, "recv") /\ queue # <<>>
  /\ wjob' = [wjob EXCEPT ![w] = Head(queue)]
  /\ wpc' = [wpc EXCEPT ![w] = "deadline"]
  /\ UNCHANGED <<alive, submitterVars, handler, reply, abandoned, queue, flag,
                 requested, stuck, wresp>>

(* recv under the receiver's mutex: one worker takes the oldest job. *)
RecvJob(w) ==
  /\ WorkerAt(w, "recv") /\ queue # <<>>
  /\ wjob' = [wjob EXCEPT ![w] = Head(queue)]
  /\ queue' = Tail(queue)
  /\ wpc' = [wpc EXCEPT ![w] = "deadline"]
  /\ UNCHANGED <<alive, submitterVars, handler, reply, abandoned, flag, requested,
                 stuck, wresp>>

(* Fault: the deadline is not looked at after the dequeue. *)
SkipDeadlineCheck(w) ==
  /\ WorkerAt(w, "deadline")
  /\ handler' = [handler EXCEPT ![wjob[w]] = "claimed"]
  /\ wpc' = [wpc EXCEPT ![w] = "flag"]
  /\ UNCHANGED <<alive, submitterVars, reply, abandoned, queue, flag, requested,
                 stuck, wjob, wresp>>

(* Fault: an expired job is answered, and then run: the continue is lost. *)
AnswerAndFallThrough(w) ==
  /\ WorkerAt(w, "deadline")
  /\ handler' = [handler EXCEPT ![wjob[w]] = "claimed"]
  /\ reply' = [reply EXCEPT ![wjob[w]] = IF expired[wjob[w]] THEN "timeout" ELSE @]
  /\ wpc' = [wpc EXCEPT ![w] = "flag"]
  /\ UNCHANGED <<alive, submitterVars, abandoned, queue, flag, requested, stuck,
                 wjob, wresp>>

(* First preflight check.  A job past its deadline sets the flag and is     *)
(* answered TIMEOUT; any other is committed to this worker.                *)
CheckDeadline(w) ==
  /\ WorkerAt(w, "deadline")
  /\ \/ /\ expired[wjob[w]]
        /\ handler' = [handler EXCEPT ![wjob[w]] = "dropped"]
        /\ flag' = [flag EXCEPT ![FlagOf[wjob[w]]] = TRUE]
        /\ wresp' = [wresp EXCEPT ![w] = "timeout"]
        /\ wpc' = [wpc EXCEPT ![w] = "send"]
     \/ /\ ~expired[wjob[w]]
        /\ handler' = [handler EXCEPT ![wjob[w]] = "claimed"]
        /\ wpc' = [wpc EXCEPT ![w] = "flag"]
        /\ UNCHANGED <<flag, wresp>>
  /\ UNCHANGED <<alive, submitterVars, reply, abandoned, queue, requested, stuck, wjob>>

(* Second preflight check. *)
CheckCancelFlag(w) ==
  /\ WorkerAt(w, "flag")
  /\ \/ /\ flag[FlagOf[wjob[w]]]
        /\ handler' = [handler EXCEPT ![wjob[w]] = "dropped"]
        /\ wresp' = [wresp EXCEPT ![w] = "cancelled"]
        /\ wpc' = [wpc EXCEPT ![w] = "send"]
     \/ /\ ~flag[FlagOf[wjob[w]]]
        /\ wpc' = [wpc EXCEPT ![w] = "run"]
        /\ UNCHANGED <<handler, wresp>>
  /\ UNCHANGED <<alive, submitterVars, reply, abandoned, queue, flag, requested,
                 stuck, wjob>>

(* Fault: the worker sets the flag when the handler has ended, to stop     *)
(* whatever the handler left running.                                      *)
HandlerEndsAndCancels(w) ==
  /\ WorkerAt(w, "run")
  /\ handler' = [handler EXCEPT ![wjob[w]] = "ran"]
  /\ flag' = [flag EXCEPT ![FlagOf[wjob[w]]] = TRUE]
  /\ wresp' = [wresp EXCEPT ![w] = "done"]
  /\ wpc' = [wpc EXCEPT ![w] = "send"]
  /\ UNCHANGED <<alive, submitterVars, reply, abandoned, queue, requested, stuck, wjob>>

(* Fault: without catch_unwind a panic ends the worker with its job. *)
PanicKillsWorker(w) ==
  /\ WorkerAt(w, "run")
  /\ handler' = [handler EXCEPT ![wjob[w]] = "ran"]
  /\ \E r \in HandlerOutcomes :
       /\ wresp' = [wresp EXCEPT ![w] = r]
       /\ wpc' = [wpc EXCEPT ![w] = IF r = "done" THEN "send" ELSE "dead"]
  /\ UNCHANGED <<alive, submitterVars, reply, abandoned, queue, flag, requested,
                 stuck, wjob>>

(* The handler returns or panics; catch_unwind keeps the worker alive. *)
HandlerEnds(w) ==
  /\ WorkerAt(w, "run")
  /\ handler' = [handler EXCEPT ![wjob[w]] = "ran"]
  /\ \E r \in HandlerOutcomes : wresp' = [wresp EXCEPT ![w] = r]
  /\ wpc' = [wpc EXCEPT ![w] = "send"]
  /\ UNCHANGED <<alive, submitterVars, reply, abandoned, queue, flag, requested,
                 stuck, wjob>>

(* reply.send on a channel of capacity one: it would block if the channel  *)
(* were full, and is lost when the submitter has dropped the receiver.     *)
SendReply(w) ==
  /\ WorkerAt(w, "send") /\ reply[wjob[w]] = "none"
  /\ reply' = [reply EXCEPT ![wjob[w]] = IF pc[wjob[w]] = "returned" THEN "none" ELSE wresp[w]]
  /\ wresp' = [wresp EXCEPT ![w] = "none"]
  /\ wpc' = [wpc EXCEPT ![w] = "reap"]
  /\ UNCHANGED <<alive, submitterVars, handler, abandoned, queue, flag, requested,
                 stuck, wjob>>

(* Fault: every finished job lowers the gauge. *)
ReapAlways(w) ==
  /\ WorkerAt(w, "reap")
  /\ wpc' = [wpc EXCEPT ![w] = "release"]
  /\ UNCHANGED <<alive, submitterVars, handler, reply, abandoned, queue, flag,
                 requested, stuck, wjob, wresp>>

(* reap_if_abandoned, first the load ... *)
ReapIfAbandoned(w) ==
  /\ WorkerAt(w, "reap")
  /\ \/ /\ abandoned[wjob[w]]
        /\ wpc' = [wpc EXCEPT ![w] = "release"]
        /\ UNCHANGED wjob
     \/ /\ ~abandoned[wjob[w]]
        /\ wpc' = [wpc EXCEPT ![w] = "recv"]
        /\ wjob' = [wjob EXCEPT ![w] = NoCall]
  /\ UNCHANGED <<alive, submitterVars, handler, reply, abandoned, queue, flag,
                 requested, stuck, wresp>>

(* ... then stuck.fetch_sub(1), which wraps below zero. *)
ReleaseStuck(w) ==
  /\ WorkerAt(w, "release")
  /\ stuck' = IF stuck = 0 THEN GaugeModulus - 1 ELSE stuck - 1
  /\ wpc' = [wpc EXCEPT ![w] = "recv"]
  /\ wjob' = [wjob EXCEPT ![w] = NoCall]
  /\ UNCHANGED <<alive, submitterVars, handler, reply, abandoned, queue, flag,
                 requested, wresp>>
-----------------------------------------------------------------------------
SubmitterStep(c) ==
  \/ ReceiveReply(c) \/ WaitTimesOut(c)
  \/ StoreAbandoned(c) \/ CountStuck(c) \/ FlagAndReturn(c)

(* What a worker does by itself: everything but the handler's own return. *)
WorkerStep(w) ==
  \/ CheckDeadline(w) \/ CheckCancelFlag(w) \/ SendReply(w) \/ ReapIfAbandoned(w) \/ ReleaseStuck(w)

(* Every call has been made and nothing is left to do. *)
Quiescent == /\ \A c \in Calls : pc[c] = "returned"
             /\ queue = <<>>
             /\ \A w \in Workers : wpc[w] = "recv"

Idle == Quiescent /\ UNCHANGED vars

Next == \/ \E c \in Calls : SubmitCancellable(c) \/ DeadlinePasses(c) \/ SubmitterStep(c)
        \/ \E w \in Workers : RecvJob(w) \/ WorkerStep(w) \/ HandlerEnds(w)
        \/ \E f \in Flags : RequestCancel(f)
        \/ Idle

(* Threads are scheduled and time passes.  Nothing is assumed of handlers, *)
(* nor which of several idle workers the receiver's mutex favours.         *)
Fairness == /\ \A c \in Calls : WF_vars(SubmitterStep(c)) /\ WF_vars(DeadlinePasses(c))
            /\ \A w \in Workers : WF_vars(WorkerStep(w))
            /\ WF_vars(\E w \in Workers : RecvJob(w))

Spec     == Init /\ [][Next]_vars
FairSpec == Spec /\ Fairness
-----------------------------------------------------------------------------
(* The pool keeps the promises of BoundedCalls: the caller gives up when   *)
(* recv_timeout decides so, before the atomics tell the worker.            *)
CallerOf(c) ==
  CASE pc[c] = "ready" -> "new"
    [] pc[c] = "waiting" -> "pending"
    [] pc[c] \in {"abandoning", "counting", "flagging"} -> "gaveup"
    [] pc[c] = "returned" -> IF result[c] \in Responses THEN "answered"
                             ELSE IF result[c] = "timed_out" THEN "gaveup" ELSE "refused"

SlotOf(w) == IF wpc[w] \in {"flag", "run"} THEN wjob[w] ELSE NoCall

Contract == INSTANCE BoundedCalls
              WITH Slots  <- Workers,
                   caller <- [c \in Calls |-> CallerOf(c)],
                   slot   <- [w \in Workers |-> SlotOf(w)]

(* The pool implements the contract: in particular a job still queued when *)
(* its caller gives up is never started.  One that a worker has found in   *)
(* time before that may be.                                                *)
KeepsContract == Contract!Spec
-----------------------------------------------------------------------------
TypeOK ==
  /\ alive \in SUBSET Workers
  /\ pc \in [Calls -> SubmitterStates]
  /\ result \in [Calls -> {"none"} \cup Responses \cup PoolErrors]
  /\ expired \in [Calls -> BOOLEAN]
  /\ handler \in [Calls -> HandlerStates]
  /\ reply \in [Calls -> {"none"} \cup Responses]
  /\ abandoned \in [Calls -> BOOLEAN]
  /\ queue \in Seq(Calls) /\ Len(queue) <= QueueCapacity
  /\ flag \in [Flags -> BOOLEAN]
  /\ requested \in SUBSET OwnedFlags
  /\ stuck \in 0 .. (GaugeModulus - 1)
  /\ wpc \in [Workers -> WorkerStates]
  /\ wjob \in [Workers -> Calls \cup {NoCall}]
  /\ wresp \in [Workers -> {"none"} \cup Responses]

Queued(c) == \E i \in 1 .. Len(queue) : queue[i] = c
Held(c)   == \E w \in Workers : wjob[w] = c

(* A job is in one place at most: once in the queue, or with one worker.   *)
(* Two workers sharing the receiver never get the same job.                *)
OneOwner ==
  /\ \A i, j \in 1 .. Len(queue) : i # j => queue[i] # queue[j]
  /\ \A i \in 1 .. Len(queue), w \in Workers : wjob[w] # queue[i]
  /\ \A v, w \in Workers : v # w /\ wjob[v] # NoCall => wjob[v] # wjob[w]

(* A worker never finds the reply channel, of capacity one, already full:  *)
(* reply.send cannot block the worker, whatever path led to it.            *)
SendNeverBlocks ==
  \A w \in Workers : wpc[w] = "send" => reply[wjob[w]] = "none"

(* A caller whose wait timed out and that has raised the gauge. *)
Counted(c) == pc[c] = "flagging" \/ result[c] = "timed_out"

(* Outside the window between storing "abandoned" and raising the gauge,   *)
(* the gauge is never below the number of given-up jobs that still occupy  *)
(* the queue or a worker: an operator never sees a healthy pool that is    *)
(* not.  (It may be above: see GaugeFallsBack.)                            *)
GaugeCoversStuckWork ==
  (\A c \in Calls : pc[c] # "counting")
    => stuck >= Cardinality({c \in Calls : Counted(c) /\ (Queued(c) \/ Held(c))})

(* A caller is told CANCELLED only if its flag's owner cancelled, or if    *)
(* another call made with the same flag ran out of time before it.  A call *)
(* with a flag of its own is never cancelled by the pool.                  *)
CancelledHasCause ==
  \A c \in Calls : result[c] = "cancelled" =>
    \/ FlagOf[c] \in requested
    \/ \E d \in Calls \ {c} : FlagOf[d] = FlagOf[c] /\ expired[d]

(* Every call returns to its caller, even if every handler runs forever.   *)
EveryCallReturns == \A c \in Calls : pc[c] = "waiting" ~> pc[c] = "returned"

(* If no handler runs forever, every accepted job leaves the pool: no      *)
(* panic, late reply or abandoned caller costs the pool a worker.          *)
JobsDrain ==
  (\A w \in Workers : []<>(wpc[w] # "run"))
    => \A c \in Calls : Queued(c) ~> ~(Queued(c) \/ Held(c))
-----------------------------------------------------------------------------
(* What the comments say of the gauge.  Both are false of the code.        *)

(* sync_pool.rs, on reap_if_abandoned: "the 1:1 increment/decrement        *)
(* pairing never underflows".                                              *)
GaugeNeverUnderflows == stuck <= Cardinality(Calls)

(* sync_pool.rs, on stuck and stuck_workers: the gauge is the number of    *)
(* jobs not yet reaped by a worker, so an idle pool shows zero.            *)
GaugeFallsBack == Quiescent => stuck = 0
=============================================================================
