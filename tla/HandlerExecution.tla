-------------------------- MODULE HandlerExecution --------------------------
(***************************************************************************)
(* How the MCP server runs one tool call: execute_tool_bounded of          *)
(* src/src/mcp/execution.rs.  An async task waits for a worker permit,     *)
(* starts a blocking closure that owns the permit, and awaits it under a   *)
(* timeout.  When the timeout fires the closure is not stopped: it goes on *)
(* with its permit, and the two sides settle the gauges through            *)
(* HandlerLifecycle, a phase under a mutex.                                *)
(*                                                                         *)
(* A call is made once, with a cancellation flag of its own.               *)
(***************************************************************************)
EXTENDS Naturals, FiniteSets

CONSTANTS Calls,     \* the tool calls made over a behaviour
          Permits,   \* the permits of the semaphore: MAX_TOOL_WORKERS of them
          NoPermit,
          NoCall

ASSUME PermitAssumption == NoPermit \notin Permits /\ IsFiniteSet(Permits)
ASSUME CallAssumption   == NoCall \notin Calls /\ IsFiniteSet(Calls)

VARIABLES
  task,      \* [Calls -> TaskStates]: the async side of a call
  response,  \* [Calls -> what the call answered, or "none"]
  flag,      \* [Calls -> BOOLEAN]: the call's cancellation flag
  phase,     \* [Calls -> HandlerPhase]: HandlerLifecycle
  closure,   \* [Calls -> ClosureStates]: the blocking closure
  outcome,   \* [Calls -> the closure's return value, or "none"]
  permit,    \* [Calls -> Permits \cup {NoPermit}]: the permit it owns
  active,    \* active_blocking_handlers
  timedOut,  \* timed_out_handlers
  peak,      \* peak_blocking_concurrency
  total      \* total_timeouts

gauges == <<active, timedOut, peak>>
vars == <<task, response, flag, phase, closure, outcome, permit, gauges, total>>

TaskStates    == {"new", "acquiring", "spawned", "expiring", "signalled", "returned"}
HandlerPhase  == {"Queued", "Running", "TimedOutQueued", "TimedOutRunning", "Finished"}
ClosureStates == {"none", "queued", "entered", "cleared", "handling",
                  "finishing", "exiting", "done"}
Outcomes      == {"done", "internal_error", "cancelled"}

Init ==
  /\ task = [c \in Calls |-> "new"]
  /\ response = [c \in Calls |-> "none"]
  /\ flag = [c \in Calls |-> FALSE]
  /\ phase = [c \in Calls |-> "Queued"]
  /\ closure = [c \in Calls |-> "none"]
  /\ outcome = [c \in Calls |-> "none"]
  /\ permit = [c \in Calls |-> NoPermit]
  /\ active = 0 /\ timedOut = 0 /\ peak = 0 /\ total = 0
-----------------------------------------------------------------------------
(* The async side. *)

Call(c) ==
  /\ task[c] = "new"
  /\ task' = [task EXCEPT ![c] = "acquiring"]
  /\ UNCHANGED <<response, flag, phase, closure, outcome, permit, gauges, total>>

Free(p) == \A c \in Calls : permit[c] # p

(* acquire_owned succeeds (the semaphore is never closed) and the closure  *)
(* is handed to the blocking pool, in one poll.                            *)
AcquireAndSpawn(c) ==
  /\ task[c] = "acquiring"
  /\ \E p \in Permits : Free(p) /\ permit' = [permit EXCEPT ![c] = p]
  /\ task' = [task EXCEPT ![c] = "spawned"]
  /\ closure' = [closure EXCEPT ![c] = "queued"]
  /\ UNCHANGED <<response, flag, phase, outcome, gauges, total>>

(* The closure has returned and its join handle is polled in time. *)
Join(c) ==
  /\ task[c] = "spawned" /\ closure[c] = "done"
  /\ task' = [task EXCEPT ![c] = "returned"]
  /\ response' = [response EXCEPT ![c] = outcome[c]]
  /\ UNCHANGED <<flag, phase, closure, outcome, permit, gauges, total>>

(* Fault: only the closure is awaited under the timeout, not the permit. *)
TimeoutFiresOnceSpawned(c) ==
  /\ task[c] = "spawned" /\ closure[c] # "done"
  /\ task' = [task EXCEPT ![c] = "expiring"]
  /\ UNCHANGED <<response, flag, phase, closure, outcome, permit, gauges, total>>

(* tokio::time::timeout polls the work first: it only fires when that is   *)
(* not ready.  The work is dropped; a spawned closure is detached by that. *)
TimeoutFires(c) ==
  /\ \/ task[c] = "acquiring"
     \/ task[c] = "spawned" /\ closure[c] # "done"
  /\ task' = [task EXCEPT ![c] = "expiring"]
  /\ UNCHANGED <<response, flag, phase, closure, outcome, permit, gauges, total>>

SignalTimeout(c) ==
  /\ task[c] = "expiring"
  /\ flag' = [flag EXCEPT ![c] = TRUE]
  /\ task' = [task EXCEPT ![c] = "signalled"]
  /\ UNCHANGED <<response, phase, closure, outcome, permit, gauges, total>>

AnswerTimeout(c) ==
  /\ total' = total + 1
  /\ task' = [task EXCEPT ![c] = "returned"]
  /\ response' = [response EXCEPT ![c] = "timeout"]

(* Fault: a timed-out handler is counted out of the active ones at once. *)
RecordTimeoutAndRelease(c) ==
  /\ task[c] = "signalled"
  /\ AnswerTimeout(c)
  /\ \/ /\ phase[c] = "Queued"
        /\ phase' = [phase EXCEPT ![c] = "TimedOutQueued"]
        /\ UNCHANGED <<active, timedOut>>
     \/ /\ phase[c] = "Running"
        /\ phase' = [phase EXCEPT ![c] = "TimedOutRunning"]
        /\ timedOut' = timedOut + 1
        /\ active' = active - 1
     \/ /\ phase[c] = "Finished"
        /\ UNCHANGED <<phase, active, timedOut>>
  /\ UNCHANGED <<flag, closure, outcome, permit, peak>>

(* Fault: a timeout in the queue is recorded as the end of the handler. *)
RecordTimeoutAsFinished(c) ==
  /\ task[c] = "signalled"
  /\ AnswerTimeout(c)
  /\ phase' = [phase EXCEPT ![c] = IF @ = "Running" THEN "TimedOutRunning" ELSE "Finished"]
  /\ timedOut' = IF phase[c] = "Running" THEN timedOut + 1 ELSE timedOut
  /\ UNCHANGED <<flag, closure, outcome, permit, active, peak>>

(* total_timeouts and record_timeout; then the call answers TIMEOUT. *)
RecordTimeout(c) ==
  /\ task[c] = "signalled"
  /\ AnswerTimeout(c)
  /\ \/ /\ phase[c] = "Queued"
        /\ phase' = [phase EXCEPT ![c] = "TimedOutQueued"]
        /\ UNCHANGED timedOut
     \/ /\ phase[c] = "Running"
        /\ phase' = [phase EXCEPT ![c] = "TimedOutRunning"]
        /\ timedOut' = timedOut + 1
     \/ /\ phase[c] = "Finished"
        /\ UNCHANGED <<phase, timedOut>>
  /\ UNCHANGED <<flag, closure, outcome, permit, active, peak>>

(* The client cancels the request: runtime.rs, apply_cancellation. *)
CancelRequest(c) ==
  /\ task[c] # "new" /\ ~flag[c]
  /\ flag' = [flag EXCEPT ![c] = TRUE]
  /\ UNCHANGED <<task, response, phase, closure, outcome, permit, gauges, total>>
-----------------------------------------------------------------------------
(* The blocking closure. *)

(* Fault: a closure that starts after its timeout is counted out, though   *)
(* it was never counted in.                                                *)
BeginRunningUncounted(c) ==
  /\ closure[c] = "queued"
  /\ \/ /\ phase[c] = "Queued"
        /\ phase' = [phase EXCEPT ![c] = "Running"]
        /\ active' = active + 1
        /\ peak' = IF active' > peak THEN active' ELSE peak
        /\ closure' = [closure EXCEPT ![c] = "entered"]
        /\ UNCHANGED outcome
     \/ /\ phase[c] = "TimedOutQueued"
        /\ closure' = [closure EXCEPT ![c] = "exiting"]
        /\ outcome' = [outcome EXCEPT ![c] = "cancelled"]
        /\ active' = active - 1
        /\ UNCHANGED <<phase, peak>>
  /\ UNCHANGED <<task, response, flag, permit, timedOut, total>>

(* begin_running, under the lifecycle's mutex. *)
BeginRunning(c) ==
  /\ closure[c] = "queued"
  /\ \/ /\ phase[c] = "Queued"
        /\ phase' = [phase EXCEPT ![c] = "Running"]
        /\ active' = active + 1
        /\ peak' = IF active' > peak THEN active' ELSE peak
        /\ closure' = [closure EXCEPT ![c] = "entered"]
        /\ UNCHANGED outcome
     \/ /\ phase[c] = "TimedOutQueued"
        /\ closure' = [closure EXCEPT ![c] = "exiting"]
        /\ outcome' = [outcome EXCEPT ![c] = "cancelled"]
        /\ UNCHANGED <<phase, active, peak>>
  /\ UNCHANGED <<task, response, flag, permit, timedOut, total>>

(* Fault: the flag is not looked at once the closure runs. *)
SkipCancelCheck(c) ==
  /\ closure[c] = "entered"
  /\ closure' = [closure EXCEPT ![c] = "cleared"]
  /\ UNCHANGED <<task, response, flag, phase, outcome, permit, gauges, total>>

(* The last look at the flag: a closure that passes it is committed to its *)
(* handler.                                                                *)
CheckCancel(c) ==
  /\ closure[c] = "entered"
  /\ \/ /\ flag[c]
        /\ closure' = [closure EXCEPT ![c] = "finishing"]
        /\ outcome' = [outcome EXCEPT ![c] = "cancelled"]
     \/ /\ ~flag[c]
        /\ closure' = [closure EXCEPT ![c] = "cleared"]
        /\ UNCHANGED outcome
  /\ UNCHANGED <<task, response, flag, phase, permit, gauges, total>>

(* The handler is invoked.  A timeout signalled since the check, or a      *)
(* cancellation, no longer keeps it from starting.                         *)
StartHandler(c) ==
  /\ closure[c] = "cleared"
  /\ closure' = [closure EXCEPT ![c] = "handling"]
  /\ UNCHANGED <<task, response, flag, phase, outcome, permit, gauges, total>>

(* The handler returns, or panics and is caught. *)
HandlerEnds(c) ==
  /\ closure[c] = "handling"
  /\ closure' = [closure EXCEPT ![c] = "finishing"]
  /\ \E o \in {"done", "internal_error"} : outcome' = [outcome EXCEPT ![c] = o]
  /\ UNCHANGED <<task, response, flag, phase, permit, gauges, total>>

Down(gauge) == IF gauge > 0 THEN gauge - 1 ELSE 0

(* finish: the phase tells which gauges this closure is counted in. *)
Finish(c) ==
  /\ closure[c] = "finishing"
  /\ phase' = [phase EXCEPT ![c] = "Finished"]
  /\ active' = Down(active)
  /\ timedOut' = IF phase[c] = "TimedOutRunning" THEN Down(timedOut) ELSE timedOut
  /\ closure' = [closure EXCEPT ![c] = "exiting"]
  /\ UNCHANGED <<task, response, flag, outcome, permit, peak, total>>

(* Fault: the permit belongs to the awaiting task, not to the closure. *)
ReleaseOnTimeout(c) ==
  /\ permit[c] # NoPermit
  /\ closure[c] = "exiting" \/ task[c] = "returned"
  /\ permit' = [permit EXCEPT ![c] = NoPermit]
  /\ closure' = [closure EXCEPT ![c] = IF @ = "exiting" THEN "done" ELSE @]
  /\ UNCHANGED <<task, response, flag, phase, outcome, gauges, total>>

(* Fault: the permit of a call that timed out is never given back. *)
LeakPermit(c) ==
  /\ closure[c] = "exiting"
  /\ closure' = [closure EXCEPT ![c] = "done"]
  /\ permit' = [permit EXCEPT ![c] = IF task[c] = "spawned" THEN NoPermit ELSE @]
  /\ UNCHANGED <<task, response, flag, phase, outcome, gauges, total>>

(* The closure returns and drops its permit. *)
Exit(c) ==
  /\ closure[c] = "exiting"
  /\ closure' = [closure EXCEPT ![c] = "done"]
  /\ permit' = [permit EXCEPT ![c] = NoPermit]
  /\ UNCHANGED <<task, response, flag, phase, outcome, gauges, total>>
-----------------------------------------------------------------------------
TimeoutStep(c) == TimeoutFires(c) \/ SignalTimeout(c) \/ RecordTimeout(c)

ClosureStep(c) == BeginRunning(c) \/ CheckCancel(c) \/ StartHandler(c) \/ Finish(c) \/ Exit(c)

(* Every call has answered and every closure has returned. *)
Quiescent == \A c \in Calls : task[c] = "returned" /\ closure[c] \in {"none", "done"}

Idle == Quiescent /\ UNCHANGED vars

Next == \/ \E c \in Calls : \/ Call(c) \/ AcquireAndSpawn(c) \/ Join(c)
                            \/ TimeoutStep(c) \/ CancelRequest(c)
                            \/ ClosureStep(c) \/ HandlerEnds(c)
        \/ Idle

(* Timers fire, tasks are polled and blocking threads run.  Nothing is     *)
(* assumed of handlers, nor of the order in which permits are handed out.  *)
Fairness == \A c \in Calls : WF_vars(TimeoutStep(c)) /\ WF_vars(Join(c)) /\ WF_vars(ClosureStep(c))

Spec     == Init /\ [][Next]_vars
FairSpec == Spec /\ Fairness
-----------------------------------------------------------------------------
(* The contract of BoundedCalls, with a permit for a slot: the caller has  *)
(* given up once its timeout is signalled to the closure, and a handler is *)
(* claimed by the check of the flag, which is before it starts.            *)
CallerOf(c) ==
  CASE task[c] = "new" -> "new"
    [] task[c] \in {"acquiring", "spawned", "expiring"} -> "pending"
    [] task[c] = "signalled" -> "gaveup"
    [] task[c] = "returned" -> IF response[c] = "timeout" THEN "gaveup" ELSE "answered"

Committed(c) == closure[c] \in {"cleared", "handling"}

HandlerOf(c) ==
  CASE closure[c] \in {"none", "queued", "entered"} -> "held"
    [] Committed(c) -> "claimed"
    [] closure[c] \in {"finishing", "exiting", "done"} ->
         IF outcome[c] = "cancelled" THEN "dropped" ELSE "ran"

SlotOf(p) == IF \E c \in Calls : permit[c] = p /\ Committed(c)
             THEN CHOOSE c \in Calls : permit[c] = p /\ Committed(c)
             ELSE NoCall

Contract == INSTANCE BoundedCalls
              WITH Slots   <- Permits,
                   caller  <- [c \in Calls |-> CallerOf(c)],
                   handler <- [c \in Calls |-> HandlerOf(c)],
                   slot    <- [p \in Permits |-> SlotOf(p)]

(* The server's execution path implements the contract: a call whose       *)
(* timeout is signalled before the closure's last look at the flag never   *)
(* starts its handler (one that has been cleared by then may still start), *)
(* each handler runs at most once, on a permit of its own, and each call   *)
(* has one outcome.                                                        *)
KeepsContract == Contract!Spec
-----------------------------------------------------------------------------
TypeOK ==
  /\ task \in [Calls -> TaskStates]
  /\ response \in [Calls -> {"none", "timeout"} \cup Outcomes]
  /\ flag \in [Calls -> BOOLEAN]
  /\ phase \in [Calls -> HandlerPhase]
  /\ closure \in [Calls -> ClosureStates]
  /\ outcome \in [Calls -> {"none"} \cup Outcomes]
  /\ permit \in [Calls -> Permits \cup {NoPermit}]
  /\ active \in Nat /\ timedOut \in Nat /\ peak \in Nat /\ total \in Nat

In(phases) == {c \in Calls : phase[c] \in phases}

(* Both gauges count exactly the handlers in their phases, whichever way a *)
(* call ended; so timed_out_handlers never exceeds                         *)
(* active_blocking_handlers, and no saturating decrement ever saturates.   *)
GaugesMatchPhases ==
  /\ active = Cardinality(In({"Running", "TimedOutRunning"}))
  /\ timedOut = Cardinality(In({"TimedOutRunning"}))

(* A handler counted as active owns a permit that nobody else owns, timed  *)
(* out or not: the recorded peak never exceeds MAX_TOOL_WORKERS.           *)
ActiveOwnsPermit ==
  /\ \A c \in In({"Running", "TimedOutRunning"}) :
        permit[c] # NoPermit /\ \A d \in Calls \ {c} : permit[d] # permit[c]
  /\ peak <= Cardinality(Permits)

(* The debug assertions of begin_running and finish never fail: a closure  *)
(* begins in Queued or TimedOutQueued and finishes from a running phase.   *)
LifecycleNeverErrs ==
  \A c \in Calls :
    /\ closure[c] = "queued" => phase[c] \in {"Queued", "TimedOutQueued"}
    /\ closure[c] = "finishing" => phase[c] \in {"Running", "TimedOutRunning"}

(* Every call is answered, even if every handler runs forever and no       *)
(* permit ever comes free.                                                 *)
EveryCallAnswered == \A c \in Calls : task[c] = "acquiring" ~> task[c] = "returned"

(* If no handler runs forever, every permit comes back: timeouts,          *)
(* cancellations and panics leave none behind.                             *)
PermitsComeBack ==
  (\A c \in Calls : []<>(closure[c] # "handling"))
    => \A c \in Calls : permit[c] # NoPermit ~> permit[c] = NoPermit
=============================================================================
