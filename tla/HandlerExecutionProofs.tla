----------------------- MODULE HandlerExecutionProofs -----------------------
(***************************************************************************)
(* For every number of calls and of permits: the gauges of                 *)
(* HandlerExecution equal the phases they count, an active handler owns a  *)
(* permit, the lifecycle's assertions never fail, and the execution path   *)
(* implements the contract of BoundedCalls.  Nothing but a handler stops a *)
(* closure, and every step uses something up.                              *)
(***************************************************************************)
EXTENDS HandlerExecution, FiniteSetTheorems, TLAPS

(* Where the async side stands: the closure exists once it has been        *)
(* spawned, a timeout is in the phase only when the call has answered, the *)
(* flag is set by then, and any other answer is that of a closure that is  *)
(* over.                                                                   *)
TaskInv ==
  \A c \in Calls :
    /\ task[c] \in {"new", "acquiring"} => closure[c] = "none"
    /\ task[c] = "spawned" => closure[c] # "none"
    /\ phase[c] \in {"TimedOutQueued", "TimedOutRunning"} => task[c] = "returned"
    /\ task[c] # "returned" => response[c] = "none"
    /\ task[c] = "signalled" \/ response[c] = "timeout" => flag[c]
    /\ task[c] = "returned" /\ response[c] # "timeout" => closure[c] = "done"

(* Where the closure stands tells its phase, whether it owns a permit and  *)
(* whether it has an outcome.                                              *)
ClosureInv ==
  \A c \in Calls :
    /\ closure[c] \in {"none", "queued"} => phase[c] \in {"Queued", "TimedOutQueued"}
    /\ closure[c] \in {"entered", "cleared", "handling", "finishing"} =>
         phase[c] \in {"Running", "TimedOutRunning"}
    /\ closure[c] \in {"exiting", "done"} => phase[c] \in {"TimedOutQueued", "Finished"}
    /\ closure[c] \in {"none", "done"} <=> permit[c] = NoPermit
    /\ closure[c] \in {"finishing", "exiting", "done"} <=> outcome[c] # "none"

(* No permit is owned twice. *)
PermitInv ==
  \A c, d \in Calls : c # d /\ permit[c] # NoPermit => permit[c] # permit[d]

(* The sets the two gauges count. *)
Busy == In({"Running", "TimedOutRunning"})
Late == In({"TimedOutRunning"})

PeakInv == peak <= Cardinality(Permits)

IInv == TypeOK /\ TaskInv /\ ClosureInv /\ PermitInv /\ GaugesMatchPhases /\ PeakInv
-----------------------------------------------------------------------------
(* Counting a set of calls, with one call more and with one call less. *)
LEMMA CountOneMoreOrLess ==
  ASSUME NEW A \in SUBSET Calls, NEW c \in Calls
  PROVE  /\ Cardinality(A) \in Nat
         /\ c \notin A => Cardinality(A \cup {c}) = Cardinality(A) + 1
         /\ c \in A => Cardinality(A \ {c}) = Cardinality(A) - 1 /\ Cardinality(A) > 0
<1>1. IsFiniteSet(A) /\ Cardinality(A) \in Nat
  BY CallAssumption, FS_Subset, FS_CardinalityType
<1>2. c \notin A => Cardinality(A \cup {c}) = Cardinality(A) + 1
  BY <1>1, FS_AddElement
<1>3. c \in A => Cardinality(A \ {c}) = Cardinality(A) - 1
  BY <1>1, FS_RemoveElement
<1>4. c \in A => Cardinality(A) # 0
  BY <1>1, FS_EmptySet
<1> QED BY <1>1, <1>2, <1>3, <1>4

(* What the two counts gain or lose when the phase of one call moves. *)
LEMMA CountsAfterMove ==
  ASSUME NEW c \in Calls, \A d \in Calls \ {c} : phase'[d] = phase[d]
  PROVE  LET isBusy == phase'[c] \in {"Running", "TimedOutRunning"}
             isLate == phase'[c] = "TimedOutRunning"
             wasBusy == phase[c] \in {"Running", "TimedOutRunning"}
             wasLate == phase[c] = "TimedOutRunning"
         IN  /\ Cardinality(Busy) \in Nat /\ Cardinality(Late) \in Nat
             /\ wasBusy => Cardinality(Busy) > 0
             /\ wasLate => Cardinality(Late) > 0
             /\ isBusy /\ ~wasBusy => Cardinality(Busy') = Cardinality(Busy) + 1
             /\ ~isBusy /\ wasBusy => Cardinality(Busy') = Cardinality(Busy) - 1
             /\ (isBusy <=> wasBusy) => Cardinality(Busy') = Cardinality(Busy)
             /\ isLate /\ ~wasLate => Cardinality(Late') = Cardinality(Late) + 1
             /\ ~isLate /\ wasLate => Cardinality(Late') = Cardinality(Late) - 1
             /\ (isLate <=> wasLate) => Cardinality(Late') = Cardinality(Late)
<1>1. /\ Busy' = IF phase'[c] \in {"Running", "TimedOutRunning"} THEN Busy \cup {c} ELSE Busy \ {c}
      /\ Late' = IF phase'[c] = "TimedOutRunning" THEN Late \cup {c} ELSE Late \ {c}
      /\ c \in Busy <=> phase[c] \in {"Running", "TimedOutRunning"}
      /\ c \in Late <=> phase[c] = "TimedOutRunning"
      /\ Busy \in SUBSET Calls /\ Late \in SUBSET Calls
  BY DEF Busy, Late, In
<1>2. /\ c \in Busy => Busy \cup {c} = Busy
      /\ c \notin Busy => Busy \ {c} = Busy
      /\ c \in Late => Late \cup {c} = Late
      /\ c \notin Late => Late \ {c} = Late
  OBVIOUS
<1>3. /\ Cardinality(Busy) \in Nat
      /\ c \notin Busy => Cardinality(Busy \cup {c}) = Cardinality(Busy) + 1
      /\ c \in Busy => Cardinality(Busy \ {c}) = Cardinality(Busy) - 1 /\ Cardinality(Busy) > 0
  BY <1>1, CountOneMoreOrLess
<1>4. /\ Cardinality(Late) \in Nat
      /\ c \notin Late => Cardinality(Late \cup {c}) = Cardinality(Late) + 1
      /\ c \in Late => Cardinality(Late \ {c}) = Cardinality(Late) - 1 /\ Cardinality(Late) > 0
  BY <1>1, CountOneMoreOrLess
<1> QED BY <1>1, <1>2, <1>3, <1>4

(* The gauges agree with the phases when they equal these counts. *)
LEMMA GaugesCount ==
  /\ GaugesMatchPhases <=> active = Cardinality(Busy) /\ timedOut = Cardinality(Late)
  /\ GaugesMatchPhases' <=> active' = Cardinality(Busy') /\ timedOut' = Cardinality(Late')
BY DEF GaugesMatchPhases, Busy, Late

(* Calls that own permits of their own are no more than the permits. *)
LEMMA OwnersFitPermits ==
  ASSUME TypeOK, ClosureInv, PermitInv
  PROVE  Cardinality(In({"Running", "TimedOutRunning"})) <= Cardinality(Permits)
<1> DEFINE S == In({"Running", "TimedOutRunning"})
           f == [c \in S |-> permit[c]]
<1>1. \A c \in S : c \in Calls /\ permit[c] \in Permits
  BY DEF In, TypeOK, ClosureInv, ClosureStates
<1>2. f \in Injection(S, Permits)
  BY <1>1, PermitAssumption DEF PermitInv, Injection, IsInjective
<1> HIDE DEF f
<1> QED BY <1>2, PermitAssumption, FS_Injection

(* The same of the next state. *)
LEMMA OwnersFitPermitsNext ==
  (TypeOK /\ ClosureInv /\ PermitInv)'
    => (Cardinality(In({"Running", "TimedOutRunning"})) <= Cardinality(Permits))'
<1>1. TypeOK /\ ClosureInv /\ PermitInv
        => Cardinality(In({"Running", "TimedOutRunning"})) <= Cardinality(Permits)
  BY OwnersFitPermits
<1> QED BY <1>1, PTL

(* Nothing has been counted at the start. *)
LEMMA InitIInv == Init => IInv
<1> SUFFICES ASSUME Init PROVE IInv
  OBVIOUS
<1> USE DEF Init
<1>1. TypeOK
  BY DEF TypeOK, TaskStates, HandlerPhase, ClosureStates
<1>2. TaskInv /\ ClosureInv /\ PermitInv
  BY DEF TaskInv, ClosureInv, PermitInv
<1>3. GaugesMatchPhases
  <2>1. In({"Running", "TimedOutRunning"}) = {} /\ In({"TimedOutRunning"}) = {}
    BY DEF In
  <2> QED BY <2>1, FS_EmptySet DEF GaugesMatchPhases
<1>4. PeakInv
  BY PermitAssumption, FS_CardinalityType DEF PeakInv
<1> QED BY <1>1, <1>2, <1>3, <1>4 DEF IInv

(* A step that leaves the phases and the gauges leaves them in agreement. *)
LEMMA GaugesUnmoved ==
  ASSUME IInv, UNCHANGED <<phase, gauges>>
  PROVE  GaugesMatchPhases' /\ PeakInv'
BY DEF IInv, GaugesMatchPhases, PeakInv, gauges, In

(* The steps of the async side that touch no phase. *)
LEMMA TaskStepsPreserve ==
  ASSUME IInv, NEW c \in Calls,
         Call(c) \/ Join(c) \/ TimeoutFires(c) \/ SignalTimeout(c) \/ CancelRequest(c)
  PROVE  IInv'
<1> USE DEF IInv, Call, Join, TimeoutFires, SignalTimeout, CancelRequest
<1>1. TypeOK'
  BY DEF TypeOK, TaskStates, Outcomes, ClosureInv, gauges
<1>2. TaskInv'
  BY DEF TypeOK, TaskInv, ClosureInv, TaskStates, Outcomes
<1>3. ClosureInv' /\ PermitInv'
  BY DEF ClosureInv, PermitInv
<1> QED BY <1>1, <1>2, <1>3, GaugesUnmoved

(* A permit is handed to a closure that had none. *)
LEMMA AcquireAndSpawnPreserves ==
  ASSUME IInv, NEW c \in Calls, AcquireAndSpawn(c)
  PROVE  IInv'
<1> USE PermitAssumption DEF IInv, AcquireAndSpawn, Free
<1>1. PICK p \in Permits : Free(p) /\ permit' = [permit EXCEPT ![c] = p]
  BY DEF AcquireAndSpawn
<1>2. TypeOK'
  BY <1>1 DEF TypeOK, TaskStates, ClosureStates, gauges
<1>3. TaskInv'
  BY DEF TypeOK, TaskInv
<1>4. ClosureInv'
  BY <1>1 DEF TypeOK, TaskInv, ClosureInv
<1>5. PermitInv'
  BY <1>1 DEF TypeOK, PermitInv
<1> QED BY <1>2, <1>3, <1>4, <1>5, GaugesUnmoved

(* The gauge of timed-out handlers goes up exactly when a running handler  *)
(* times out.                                                              *)
LEMMA RecordTimeoutPreserves ==
  ASSUME IInv, NEW c \in Calls, RecordTimeout(c)
  PROVE  IInv'
<1> USE DEF IInv, RecordTimeout, AnswerTimeout
<1>1. TypeOK'
  BY DEF TypeOK, TaskStates, HandlerPhase
<1>2. TaskInv'
  BY DEF TypeOK, TaskInv
<1>3. ClosureInv' /\ PermitInv'
  BY DEF TypeOK, ClosureInv, PermitInv
<1>4. GaugesMatchPhases'
  <2>1. CASE phase[c] = "Queued" /\ phase' = [phase EXCEPT ![c] = "TimedOutQueued"]
             /\ UNCHANGED <<active, timedOut>>
    <3>1. Cardinality(Busy') = Cardinality(Busy) /\ Cardinality(Late') = Cardinality(Late)
      BY <2>1, CountsAfterMove DEF TypeOK
    <3> QED BY <2>1, <3>1, GaugesCount
  <2>2. CASE phase[c] = "Running" /\ phase' = [phase EXCEPT ![c] = "TimedOutRunning"]
             /\ timedOut' = timedOut + 1 /\ UNCHANGED active
    BY <2>2, CountsAfterMove, GaugesCount DEF TypeOK
  <2>3. CASE UNCHANGED <<phase, active, timedOut>>
    BY <2>3 DEF GaugesMatchPhases, In
  <2> QED BY <2>1, <2>2, <2>3
<1>5. PeakInv'
  BY DEF PeakInv
<1> QED BY <1>1, <1>2, <1>3, <1>4, <1>5

(* A closure counts itself as active when it begins to run; it owns its    *)
(* permit by then, so the new peak is within the number of permits.        *)
LEMMA BeginRunningPreserves ==
  ASSUME IInv, NEW c \in Calls, BeginRunning(c)
  PROVE  IInv'
<1> USE DEF IInv, BeginRunning
<1>1. TypeOK'
  BY DEF TypeOK, HandlerPhase, ClosureStates, Outcomes
<1>2. TaskInv'
  BY DEF TypeOK, TaskInv
<1>3. ClosureInv' /\ PermitInv'
  BY DEF TypeOK, ClosureInv, PermitInv
<1>4. GaugesMatchPhases'
  <2>1. CASE phase[c] = "Queued" /\ phase' = [phase EXCEPT ![c] = "Running"] /\ active' = active + 1
    BY <2>1, CountsAfterMove, GaugesCount DEF TypeOK
  <2>2. CASE UNCHANGED <<phase, active, timedOut>>
    BY <2>2 DEF GaugesMatchPhases, In
  <2> QED BY <2>1, <2>2
<1>5. PeakInv'
  <2>1. active' <= Cardinality(Permits)
    BY <1>1, <1>3, <1>4, OwnersFitPermitsNext DEF GaugesMatchPhases
  <2> QED BY <2>1 DEF PeakInv
<1> QED BY <1>1, <1>2, <1>3, <1>4, <1>5

(* The closure's steps inside the handler's phase. *)
LEMMA RunningStepsPreserve ==
  ASSUME IInv, NEW c \in Calls, CheckCancel(c) \/ StartHandler(c) \/ HandlerEnds(c)
  PROVE  IInv'
<1> USE DEF IInv, CheckCancel, StartHandler, HandlerEnds
<1>1. TypeOK'
  BY DEF TypeOK, ClosureStates, Outcomes, gauges
<1>2. TaskInv'
  BY DEF TypeOK, TaskInv
<1>3. ClosureInv' /\ PermitInv'
  BY DEF TypeOK, ClosureInv, PermitInv
<1> QED BY <1>1, <1>2, <1>3, GaugesUnmoved

(* A handler that finishes is taken out of the gauges it is counted in. *)
LEMMA FinishPreserves ==
  ASSUME IInv, NEW c \in Calls, Finish(c)
  PROVE  IInv'
<1> USE DEF IInv, Finish, Down
<1>1. TypeOK'
  BY DEF TypeOK, HandlerPhase, ClosureStates
<1>2. TaskInv'
  BY DEF TypeOK, TaskInv
<1>3. ClosureInv' /\ PermitInv'
  BY DEF TypeOK, ClosureInv, PermitInv
<1>4. GaugesMatchPhases'
  <2>1. /\ TypeOK /\ active = Cardinality(Busy) /\ timedOut = Cardinality(Late)
        /\ phase[c] \in {"Running", "TimedOutRunning"}
        /\ phase'[c] = "Finished" /\ \A d \in Calls \ {c} : phase'[d] = phase[d]
    BY GaugesCount DEF TypeOK, ClosureInv
  <2>2. /\ active' = IF active > 0 THEN active - 1 ELSE 0
        /\ phase[c] = "TimedOutRunning" => timedOut' = IF timedOut > 0 THEN timedOut - 1 ELSE 0
        /\ phase[c] # "TimedOutRunning" => timedOut' = timedOut
    OBVIOUS
  <2> HIDE DEF IInv, Finish, Down
  <2>3. /\ Cardinality(Busy) \in Nat /\ Cardinality(Busy) > 0
        /\ Cardinality(Busy') = Cardinality(Busy) - 1
    BY <2>1, CountsAfterMove
  <2>4. CASE phase[c] = "Running"
    <3>1. Cardinality(Late') = Cardinality(Late)
      BY <2>1, <2>4, CountsAfterMove
    <3> QED BY <2>1, <2>2, <2>3, <2>4, <3>1, GaugesCount
  <2>5. CASE phase[c] = "TimedOutRunning"
    <3>1. /\ Cardinality(Late) \in Nat /\ Cardinality(Late) > 0
          /\ Cardinality(Late') = Cardinality(Late) - 1
      BY <2>1, <2>5, CountsAfterMove
    <3> QED BY <2>1, <2>2, <2>3, <2>5, <3>1, GaugesCount
  <2> QED BY <2>1, <2>4, <2>5
<1>5. PeakInv'
  BY DEF PeakInv
<1> QED BY <1>1, <1>2, <1>3, <1>4, <1>5

(* The closure gives its permit back as it ends. *)
LEMMA ExitPreserves ==
  ASSUME IInv, NEW c \in Calls, Exit(c)
  PROVE  IInv'
<1> USE PermitAssumption DEF IInv, Exit
<1>1. TypeOK'
  BY DEF TypeOK, ClosureStates, gauges
<1>2. TaskInv'
  BY DEF TypeOK, TaskInv
<1>3. ClosureInv' /\ PermitInv'
  BY DEF TypeOK, ClosureInv, PermitInv
<1> QED BY <1>1, <1>2, <1>3, GaugesUnmoved
-----------------------------------------------------------------------------
(* The strengthened invariant holds of every reachable state. *)
THEOREM Inductive == Spec => []IInv
<1>1. ASSUME IInv, [Next]_vars PROVE IInv'
  <2> USE <1>1
  <2>1. ASSUME NEW c \in Calls,
               Call(c) \/ AcquireAndSpawn(c) \/ Join(c) \/ TimeoutStep(c) \/ CancelRequest(c)
        PROVE  IInv'
    BY <2>1, TaskStepsPreserve, AcquireAndSpawnPreserves, RecordTimeoutPreserves DEF TimeoutStep
  <2>2. ASSUME NEW c \in Calls, ClosureStep(c) \/ HandlerEnds(c)
        PROVE  IInv'
    BY <2>2, BeginRunningPreserves, RunningStepsPreserve, FinishPreserves, ExitPreserves
       DEF ClosureStep
  <2>3. CASE UNCHANGED vars
    BY <2>3 DEF vars, gauges, IInv, TypeOK, TaskInv, ClosureInv, PermitInv,
                GaugesMatchPhases, PeakInv, In
  <2> QED BY <2>1, <2>2, <2>3 DEF Next, Idle
<1> QED BY InitIInv, <1>1, PTL DEF Spec

(* active_blocking_handlers and timed_out_handlers equal the number of     *)
(* handlers in their phases, whoever wins the race between a timeout and   *)
(* the end of its handler.                                                 *)
THEOREM GaugesAreExact == Spec => []GaugesMatchPhases
<1>1. IInv => GaugesMatchPhases
  BY DEF IInv
<1> QED BY <1>1, Inductive, PTL

(* A handler counted as active owns a permit nobody else owns, timed out   *)
(* or not, and the recorded peak stays within the number of permits.       *)
THEOREM ActiveHandlersOwnPermits == Spec => []ActiveOwnsPermit
<1>1. IInv => ActiveOwnsPermit
  BY DEF IInv, TypeOK, ClosureStates, ClosureInv, PermitInv, PeakInv, ActiveOwnsPermit, In
<1> QED BY <1>1, Inductive, PTL

(* The debug assertions of begin_running and finish never fail. *)
THEOREM LifecycleIsSound == Spec => []LifecycleNeverErrs
<1>1. IInv => LifecycleNeverErrs
  BY DEF IInv, ClosureInv, LifecycleNeverErrs
<1> QED BY <1>1, Inductive, PTL

(* Every reachable state is well typed. *)
THEOREM TypeCorrect == Spec => []TypeOK
<1>1. IInv => TypeOK
  BY DEF IInv
<1> QED BY <1>1, Inductive, PTL
-----------------------------------------------------------------------------
(* The states of the contract that the initial states map to. *)
LEMMA InitImplements == Init => Contract!Init
BY DEF Init, Contract!Init, CallerOf, HandlerOf, SlotOf, Committed

(* A step of one call's async side shows in the contract as a change of    *)
(* that caller alone, when it leaves the closures and permits as they are. *)
LEMMA CallerStep ==
  ASSUME NEW c \in Calls, NEW state,
         UNCHANGED <<closure, outcome, permit>>, CallerOf(c)' = state,
         \A d \in Calls \ {c} : UNCHANGED <<task[d], response[d]>>
  PROVE  /\ [d \in Calls |-> CallerOf(d)]' = [[d \in Calls |-> CallerOf(d)] EXCEPT ![c] = state]
         /\ UNCHANGED [d \in Calls |-> HandlerOf(d)]
         /\ UNCHANGED [p \in Permits |-> SlotOf(p)]
<1>1. \A d \in Calls \ {c} : CallerOf(d)' = CallerOf(d)
  BY DEF CallerOf
<1>2. \A d \in Calls : HandlerOf(d)' = HandlerOf(d)
  BY DEF HandlerOf, Committed
<1>3. \A p \in Permits : SlotOf(p)' = SlotOf(p)
  BY DEF SlotOf, Committed
<1> QED BY <1>1, <1>2, <1>3

(* A step of one closure shows as a change of that call's handler alone,   *)
(* when it leaves the async side as it is.                                 *)
LEMMA HandlerStep ==
  ASSUME NEW c \in Calls, NEW fate,
         UNCHANGED <<task, response>>, HandlerOf(c)' = fate,
         \A d \in Calls \ {c} : UNCHANGED <<closure[d], outcome[d]>>
  PROVE  /\ [d \in Calls |-> HandlerOf(d)]' = [[d \in Calls |-> HandlerOf(d)] EXCEPT ![c] = fate]
         /\ UNCHANGED [d \in Calls |-> CallerOf(d)]
<1>1. \A d \in Calls \ {c} : HandlerOf(d)' = HandlerOf(d)
  BY DEF HandlerOf, Committed
<1>2. \A d \in Calls : CallerOf(d)' = CallerOf(d)
  BY DEF CallerOf
<1> QED BY <1>1, <1>2

(* No step but those that commit a closure and end its handler changes     *)
(* which call has which slot.                                              *)
LEMMA SlotsUnchanged ==
  ASSUME \A d \in Calls :
            Committed(d) \/ Committed(d)' =>
              Committed(d) /\ Committed(d)' /\ permit'[d] = permit[d]
  PROVE  UNCHANGED [p \in Permits |-> SlotOf(p)]
<1>1. ASSUME NEW p \in Permits
      PROVE  SlotOf(p)' = SlotOf(p)
  <2>1. \A d \in Calls : permit'[d] = p /\ Committed(d)'
                          <=> permit[d] = p /\ Committed(d)
    OBVIOUS
  <2> QED BY <2>1 DEF SlotOf
<1> QED BY <1>1

(* A permit whose owner runs its handler is that call's slot: no other     *)
(* call owns it.                                                           *)
LEMMA SlotOfOwner ==
  ASSUME TypeOK, ClosureInv, PermitInv, NEW c \in Calls, Committed(c)
  PROVE  permit[c] \in Permits /\ SlotOf(permit[c]) = c
<1>1. permit[c] \in Permits
  BY DEF TypeOK, ClosureInv, Committed
<1>2. \A d \in Calls : permit[d] = permit[c] => d = c
  BY <1>1, PermitAssumption DEF PermitInv
<1> QED BY <1>1, <1>2 DEF SlotOf

(* The contract sees a call being made, given up and answered. *)
LEMMA TaskStepsImplement ==
  ASSUME IInv, NEW c \in Calls, Call(c) \/ SignalTimeout(c) \/ Join(c)
  PROVE  Contract!Admit(c) \/ Contract!GiveUp(c) \/ Contract!Answer(c)
<1> USE DEF IInv
<1>1. /\ UNCHANGED <<closure, outcome, permit>>
      /\ \A d \in Calls \ {c} : UNCHANGED <<task[d], response[d]>>
  BY DEF TypeOK, Call, SignalTimeout, Join
<1>2. CASE Call(c)
  <2>1. CallerOf(c) = "new" /\ CallerOf(c)' = "pending"
    BY <1>2 DEF Call, TypeOK, CallerOf
  <2> QED BY <1>1, <2>1, CallerStep DEF Contract!Admit
<1>3. CASE SignalTimeout(c)
  <2>1. CallerOf(c) = "pending" /\ CallerOf(c)' = "gaveup"
    BY <1>3 DEF SignalTimeout, TypeOK, CallerOf
  <2> QED BY <1>1, <2>1, CallerStep DEF Contract!GiveUp
<1>4. CASE Join(c)
  <2>1. CallerOf(c) = "pending" /\ HandlerOf(c) \in {"ran", "dropped"}
    BY <1>4 DEF Join, CallerOf, HandlerOf
  <2>2. CallerOf(c)' = "answered"
    BY <1>4 DEF Join, TypeOK, ClosureInv, Outcomes, CallerOf
  <2> QED BY <1>1, <2>1, <2>2, CallerStep DEF Contract!Answer
<1> QED BY <1>2, <1>3, <1>4

(* A closure that finds its timeout recorded, or its flag set, drops the   *)
(* handler; one that finds neither claims it, and its caller still waits.  *)
LEMMA PreflightImplements ==
  ASSUME IInv, NEW c \in Calls, BeginRunning(c) \/ CheckCancel(c)
  PROVE  Contract!Drop(c) \/ (\E p \in Permits : Contract!Claim(p, c)) \/ UNCHANGED Contract!vars
<1> USE DEF IInv
<1>1. /\ UNCHANGED <<task, response, permit>>
      /\ closure[c] \in {"queued", "entered"}
      /\ \A d \in Calls \ {c} : UNCHANGED <<closure[d], outcome[d]>>
  BY DEF TypeOK, BeginRunning, CheckCancel
<1>2. HandlerOf(c) = "held" /\ CallerOf(c) \in {"pending", "gaveup"}
  BY <1>1 DEF TypeOK, TaskStates, TaskInv, CallerOf, HandlerOf, Committed
<1>3. CASE closure' = [closure EXCEPT ![c] = "entered"] /\ UNCHANGED outcome
  <2>1. HandlerOf(c)' = HandlerOf(c)
    BY <1>1, <1>2, <1>3 DEF TypeOK, HandlerOf, Committed
  <2>2. UNCHANGED [p \in Permits |-> SlotOf(p)]
    BY <1>1, <1>3, SlotsUnchanged DEF TypeOK, Committed
  <2> QED BY <1>1, <2>1, <2>2, HandlerStep DEF Contract!vars
<1>4. CASE /\ closure'[c] \in {"exiting", "finishing"}
           /\ outcome' = [outcome EXCEPT ![c] = "cancelled"]
  <2>1. HandlerOf(c)' = "dropped"
    BY <1>4 DEF TypeOK, HandlerOf
  <2>2. UNCHANGED [p \in Permits |-> SlotOf(p)]
    BY <1>1, <1>4, SlotsUnchanged DEF Committed
  <2> QED BY <1>1, <1>2, <2>1, <2>2, HandlerStep DEF Contract!Drop
<1>5. CASE ~flag[c] /\ closure[c] = "entered" /\ closure' = [closure EXCEPT ![c] = "cleared"]
  <2>1. CallerOf(c) = "pending"
    BY <1>5 DEF TypeOK, TaskStates, TaskInv, CallerOf
  <2>2. HandlerOf(c)' = "claimed"
    BY <1>5 DEF TypeOK, HandlerOf, Committed
  <2>3. permit[c] \in Permits /\ \A d \in Calls \ {c} : permit[d] # permit[c]
    BY <1>5 DEF TypeOK, ClosureInv, PermitInv
  <2>4. SlotOf(permit[c]) = NoCall
    BY <1>5, <2>3 DEF SlotOf, Committed
  <2>5. SlotOf(permit[c])' = c
    BY <1>1, <1>5, <2>3 DEF TypeOK, SlotOf, Committed
  <2>6. \A p \in Permits \ {permit[c]} : SlotOf(p)' = SlotOf(p)
    <3>1. ASSUME NEW p \in Permits \ {permit[c]}
          PROVE  \A d \in Calls : permit'[d] = p /\ Committed(d)'
                                   <=> permit[d] = p /\ Committed(d)
      BY <1>1, <1>5 DEF TypeOK, Committed
    <3> QED BY <3>1 DEF SlotOf
  <2>7. [p \in Permits |-> SlotOf(p)]' = [[p \in Permits |-> SlotOf(p)] EXCEPT ![permit[c]] = c]
    BY <1>1, <2>3, <2>5, <2>6
  <2>8. Contract!Claim(permit[c], c)
    BY <1>1, <1>2, <2>1, <2>2, <2>3, <2>4, <2>7, HandlerStep DEF Contract!Claim
  <2> QED BY <2>3, <2>8
<1> QED BY <1>1, <1>3, <1>4, <1>5 DEF TypeOK, BeginRunning, CheckCancel

(* The end of a handler frees its slot. *)
LEMMA HandlerEndsImplements ==
  ASSUME IInv, NEW c \in Calls, HandlerEnds(c)
  PROVE  \E p \in Permits : Contract!Release(p)
<1> USE DEF IInv, HandlerEnds
<1>1. permit[c] \in Permits /\ SlotOf(permit[c]) = c /\ c # NoCall
  BY SlotOfOwner, CallAssumption DEF Committed
<1>2. HandlerOf(c)' = "ran"
  BY DEF TypeOK, HandlerOf
<1>3. /\ UNCHANGED <<task, response, permit>>
      /\ \A d \in Calls \ {c} : UNCHANGED <<closure[d], outcome[d]>>
  BY DEF TypeOK
<1>4. SlotOf(permit[c])' = NoCall
  <2>1. \A d \in Calls : permit[d] = permit[c] => d = c
    BY <1>1, PermitAssumption DEF PermitInv
  <2>2. \A d \in Calls : ~(permit'[d] = permit'[c] /\ Committed(d)')
    BY <1>3, <2>1 DEF TypeOK, Committed
  <2> QED BY <1>3, <2>2 DEF SlotOf
<1>5. \A p \in Permits \ {permit[c]} : SlotOf(p)' = SlotOf(p)
  <2>1. ASSUME NEW p \in Permits \ {permit[c]}
        PROVE  \A d \in Calls : permit'[d] = p /\ Committed(d)'
                                 <=> permit[d] = p /\ Committed(d)
    BY <1>3 DEF TypeOK, Committed
  <2> QED BY <2>1 DEF SlotOf
<1>6. [p \in Permits |-> SlotOf(p)]' = [[p \in Permits |-> SlotOf(p)] EXCEPT ![permit[c]] = NoCall]
  BY <1>1, <1>3, <1>4, <1>5
<1>7. Contract!Release(permit[c])
  BY <1>1, <1>2, <1>3, <1>6, HandlerStep DEF Contract!Release
<1> QED BY <1>1, <1>7

(* Every other step is invisible to the contract. *)
LEMMA StutterImplements ==
  ASSUME IInv, NEW c \in Calls,
         \/ AcquireAndSpawn(c) \/ TimeoutFires(c) \/ RecordTimeout(c)
         \/ CancelRequest(c) \/ StartHandler(c) \/ Finish(c) \/ Exit(c)
  PROVE  UNCHANGED Contract!vars
<1> USE DEF IInv
<1>1. \A d \in Calls : CallerOf(d)' = CallerOf(d)
  BY DEF TypeOK, CallerOf, AcquireAndSpawn, TimeoutFires, RecordTimeout, AnswerTimeout,
         CancelRequest, StartHandler, Finish, Exit
<1>2. \A d \in Calls : HandlerOf(d)' = HandlerOf(d)
  BY DEF TypeOK, TaskInv, HandlerOf, Committed, AcquireAndSpawn, TimeoutFires, RecordTimeout, CancelRequest, StartHandler, Finish, Exit
<1>3. UNCHANGED [p \in Permits |-> SlotOf(p)]
  <2>1. \A d \in Calls :
          Committed(d) \/ Committed(d)' =>
            Committed(d) /\ Committed(d)' /\ permit'[d] = permit[d]
    <3>1. CASE AcquireAndSpawn(c)
      BY <3>1 DEF TypeOK, TaskInv, AcquireAndSpawn, Committed
    <3>2. CASE StartHandler(c) \/ Finish(c) \/ Exit(c)
      BY <3>2 DEF TypeOK, StartHandler, Finish, Exit, Committed
    <3>3. CASE UNCHANGED <<closure, permit>>
      BY <3>3 DEF Committed
    <3> QED BY <3>1, <3>2, <3>3 DEF TimeoutFires, RecordTimeout, CancelRequest
  <2> QED BY <2>1, SlotsUnchanged
<1> QED BY <1>1, <1>2, <1>3 DEF Contract!vars

(* The server's execution path implements BoundedCalls: a closure is       *)
(* committed to its handler only while no timeout of its call has been     *)
(* signalled, each handler runs at most once, on a permit of its own, and  *)
(* each call has one outcome.  A handler that was committed may start after*)
(* the timeout.                                                            *)
THEOREM ExecutionKeepsContract == Spec => KeepsContract
<1>1. ASSUME IInv, [Next]_vars PROVE [Contract!Next]_(Contract!vars)
  <2> USE <1>1
  <2>1. ASSUME NEW c \in Calls, Call(c) \/ SignalTimeout(c) \/ Join(c)
        PROVE  Contract!Next
    BY <2>1, TaskStepsImplement DEF Contract!Next
  <2>2. ASSUME NEW c \in Calls, BeginRunning(c) \/ CheckCancel(c)
        PROVE  Contract!Next \/ UNCHANGED Contract!vars
    BY <2>2, PreflightImplements DEF Contract!Next
  <2>3. ASSUME NEW c \in Calls, HandlerEnds(c)
        PROVE  Contract!Next
    BY <2>3, HandlerEndsImplements DEF Contract!Next
  <2>4. ASSUME NEW c \in Calls,
               \/ AcquireAndSpawn(c) \/ TimeoutFires(c) \/ RecordTimeout(c)
               \/ CancelRequest(c) \/ StartHandler(c) \/ Finish(c) \/ Exit(c)
        PROVE  UNCHANGED Contract!vars
    BY <2>4, StutterImplements
  <2>5. CASE UNCHANGED vars
    <3>1. \A d \in Calls : CallerOf(d)' = CallerOf(d) /\ HandlerOf(d)' = HandlerOf(d)
      BY <2>5 DEF vars, CallerOf, HandlerOf
    <3>2. UNCHANGED [p \in Permits |-> SlotOf(p)]
      BY <2>5, SlotsUnchanged DEF vars, Committed
    <3> QED BY <3>1, <3>2 DEF Contract!vars
  <2> QED BY <2>1, <2>2, <2>3, <2>4, <2>5 DEF Next, TimeoutStep, ClosureStep, Idle
<1> QED BY InitImplements, Inductive, <1>1, PTL DEF Spec, KeepsContract, Contract!Spec
-----------------------------------------------------------------------------
(* Termination.  An async task that has not answered can always move by     *)
(* itself: its timeout bounds its wait.  A closure can, but where a handler *)
(* runs; and there is an end to what is left to do.  Under a scheduler that *)
(* runs whoever is ready, every call is therefore answered; and if handlers *)
(* return, every permit comes back.                                         *)

(* The guards of a closure, by where it stands. *)
ClosureReady(c) ==
  \/ closure[c] \in {"entered", "cleared", "finishing", "exiting"}
  \/ closure[c] = "queued" /\ phase[c] \in {"Queued", "TimedOutQueued"}

NobodyIsWedged ==
  /\ \A c \in Calls :
       closure[c] \notin {"none", "done"} => ClosureReady(c) \/ closure[c] = "handling"
  /\ \A p \in Permits :
       \/ Free(p)
       \/ \E c \in Calls : permit[c] = p /\ (ClosureReady(c) \/ closure[c] = "handling")

(* How many steps the async side of a call, its closure and whoever sets    *)
(* its flag still have before them.                                         *)
TaskSteps    == [new |-> 5, acquiring |-> 4, spawned |-> 3, expiring |-> 2, signalled |-> 1,
                 returned |-> 0]
ClosureSteps == [none |-> 7, queued |-> 6, entered |-> 5, cleared |-> 4, handling |-> 3,
                 finishing |-> 2, exiting |-> 1, done |-> 0]
TaskLeft(c)    == TaskSteps[task[c]]
ClosureLeft(c) == ClosureSteps[closure[c]]
FlagLeft(c)    == IF flag[c] THEN 0 ELSE 1

Counters == \A c \in Calls : TaskLeft(c) \in Nat /\ ClosureLeft(c) \in Nat /\ FlagLeft(c) \in Nat
Fewer  == \E c \in Calls : \/ TaskLeft(c)' < TaskLeft(c)
                          \/ ClosureLeft(c)' < ClosureLeft(c)
                          \/ FlagLeft(c)' < FlagLeft(c)
NoMore == \A c \in Calls : /\ TaskLeft(c)' <= TaskLeft(c)
                          /\ ClosureLeft(c)' <= ClosureLeft(c)
                          /\ FlagLeft(c)' <= FlagLeft(c)
EveryStepCounts == [][NoMore /\ Fewer]_vars

LEMMA LeftTypes == TypeOK => Counters
BY DEF TypeOK, TaskStates, ClosureStates, TaskSteps, ClosureSteps, TaskLeft, ClosureLeft,
   FlagLeft, Counters

LEMMA LeftTypesNext == TypeOK' => Counters'
BY LeftTypes, PTL

LEMMA StepCounts ==
  ASSUME TypeOK, TaskInv, TypeOK', Next, vars' # vars
  PROVE  NoMore /\ Fewer
<1>0. Counters /\ Counters'
  BY LeftTypes, LeftTypesNext
<1>1. PICK c \in Calls : \/ Call(c) \/ AcquireAndSpawn(c) \/ Join(c)
                        \/ TimeoutStep(c) \/ CancelRequest(c)
                        \/ ClosureStep(c) \/ HandlerEnds(c)
  BY DEF Next, Idle
<1>2. \A d \in Calls \ {c} : task'[d] = task[d] /\ closure'[d] = closure[d] /\ flag'[d] = flag[d]
  BY <1>1 DEF Call, AcquireAndSpawn, Join, TimeoutStep, TimeoutFires, SignalTimeout,
     RecordTimeout, AnswerTimeout, CancelRequest, ClosureStep, BeginRunning, CheckCancel,
     StartHandler, Finish, Exit, HandlerEnds, TypeOK
<1>3. \A d \in Calls \ {c} : /\ TaskLeft(d)' = TaskLeft(d) /\ ClosureLeft(d)' = ClosureLeft(d)
                            /\ FlagLeft(d)' = FlagLeft(d)
  BY <1>2 DEF TaskLeft, ClosureLeft, FlagLeft
<1>4. /\ \/ task'[c] = task[c]
         \/ <<task[c], task'[c]>> \in {<<"new", "acquiring">>, <<"acquiring", "spawned">>,
              <<"spawned", "returned">>, <<"acquiring", "expiring">>, <<"spawned", "expiring">>,
              <<"expiring", "signalled">>, <<"signalled", "returned">>}
      /\ \/ closure'[c] = closure[c]
         \/ <<closure[c], closure'[c]>> \in {<<"none", "queued">>, <<"queued", "entered">>,
              <<"queued", "exiting">>, <<"entered", "finishing">>, <<"entered", "cleared">>,
              <<"cleared", "handling">>,
              <<"handling", "finishing">>, <<"finishing", "exiting">>, <<"exiting", "done">>}
      /\ flag'[c] = flag[c] \/ flag'[c] = TRUE
      /\ task'[c] # task[c] \/ closure'[c] # closure[c] \/ (~flag[c] /\ flag'[c])
  <2>1. CASE Call(c)
    BY <2>1 DEF Call, TypeOK
  <2>2. CASE AcquireAndSpawn(c)
    BY <2>2 DEF AcquireAndSpawn, TypeOK, TaskInv
  <2>3. CASE Join(c) \/ CancelRequest(c)
    BY <2>3 DEF Join, CancelRequest, TypeOK
  <2>4. CASE TimeoutStep(c)
    BY <2>4 DEF TimeoutStep, TimeoutFires, SignalTimeout, RecordTimeout, AnswerTimeout, TypeOK
  <2>5. CASE ClosureStep(c) \/ HandlerEnds(c)
    BY <2>5 DEF ClosureStep, BeginRunning, CheckCancel, StartHandler, Finish, Exit, HandlerEnds, TypeOK
  <2> QED BY <1>1, <2>1, <2>2, <2>3, <2>4, <2>5
<1>5. TaskLeft(c)' = TaskLeft(c) \/ TaskLeft(c)' < TaskLeft(c)
  BY <1>4 DEF TaskLeft, TaskSteps
<1>6. ClosureLeft(c)' = ClosureLeft(c) \/ ClosureLeft(c)' < ClosureLeft(c)
  BY <1>4 DEF ClosureLeft, ClosureSteps
<1>7. FlagLeft(c)' = FlagLeft(c) \/ FlagLeft(c)' < FlagLeft(c)
  BY <1>4 DEF FlagLeft, TypeOK
<1>8. Fewer
  <2>1. task'[c] # task[c] => TaskLeft(c)' # TaskLeft(c)
    BY DEF TypeOK, TaskStates, TaskLeft, TaskSteps
  <2>2. closure'[c] # closure[c] => ClosureLeft(c)' # ClosureLeft(c)
    BY DEF TypeOK, ClosureStates, ClosureLeft, ClosureSteps
  <2>3. ~flag[c] /\ flag'[c] => FlagLeft(c)' < FlagLeft(c)
    BY DEF FlagLeft
  <2> QED BY <1>4, <1>5, <1>6, <2>1, <2>2, <2>3 DEF Fewer
<1>9. NoMore
  BY <1>0, <1>3, <1>5, <1>6, <1>7 DEF NoMore, Counters
<1> QED BY <1>8, <1>9

LEMMA NotWedged == IInv => NobodyIsWedged
<1> SUFFICES ASSUME IInv PROVE NobodyIsWedged
  OBVIOUS
<1>1. ASSUME NEW c \in Calls, closure[c] \notin {"none", "done"}
      PROVE  ClosureReady(c) \/ closure[c] = "handling"
  BY <1>1 DEF IInv, TypeOK, ClosureInv, ClosureReady, ClosureStates
<1>2. ASSUME NEW p \in Permits, ~Free(p)
      PROVE  \E c \in Calls : permit[c] = p /\ (ClosureReady(c) \/ closure[c] = "handling")
  BY <1>1, <1>2, PermitAssumption DEF Free, IInv, ClosureInv
<1> QED BY <1>1, <1>2 DEF NobodyIsWedged

(* A closure is stopped by nothing but its handler, whatever the timeout    *)
(* did to its phase, and every permit is free or with a closure on its way  *)
(* to give it back: timeouts, cancellations and panics lose none.           *)
THEOREM ExecutionIsNeverStuck == Spec => []NobodyIsWedged
BY NotWedged, Inductive, PTL

(* Every step of a task, of a closure or of the one who cancels uses up     *)
(* something of one call, and none gives anything back.                     *)
THEOREM ExecutionRunsOutOfSteps ==
  Spec => /\ EveryStepCounts
          /\ []Counters
<1>1. IInv /\ IInv' /\ [Next]_vars => [NoMore /\ Fewer]_vars
  BY StepCounts DEF IInv
<1>2. Spec => EveryStepCounts
  BY <1>1, Inductive, PTL DEF Spec, EveryStepCounts
<1>3. Spec => []Counters
  BY LeftTypes, TypeCorrect, PTL
<1> QED BY <1>2, <1>3
=============================================================================
