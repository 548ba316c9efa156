----------------------------- MODULE McpServer -----------------------------
(***************************************************************************)
(* The MCP stdio server: the read loop, request tasks, writer task and     *)
(* shutdown of main and handle_request_async (src/src/mcp/server.rs), with *)
(* the request registry, connection era and session of                     *)
(* src/src/mcp/runtime.rs.                                                 *)
(*                                                                         *)
(* One line of input is one message.  The client is free: any line of      *)
(* Messages may come next, and the stream may end at any read.  A request  *)
(* is named by the number of its line, which is also the generation of its *)
(* registry entry.  What a tool call does between dispatch and its outcome *)
(* is HandlerExecution.                                                    *)
(***************************************************************************)
EXTENDS Naturals, Sequences, FiniteSets

CONSTANTS Ids,             \* request ids
          Messages,        \* the lines a client may send: records [kind, method, claim, id]
          MaxLines,        \* bound: how many lines are read
          MaxInFlight,     \* MAX_IN_FLIGHT_REQUESTS
          WriterCapacity   \* capacity of the channel to the writer task

NoLine == 0
Line   == 1 .. MaxLines

(* A junk line is one the loop refuses before it looks at the method: bad  *)
(* JSON, a batch, an ill-formed or null id, a line over the size limit.    *)
Kinds   == {"request", "notification", "junk"}
Methods == {"initialize", "ping", "list", "call", "initialized", "cancelled"}
(* The _meta claim: absent; a supported revision in a valid or an          *)
(* incomplete envelope; malformed or an unsupported revision.              *)
Claims  == {"none", "modern", "incomplete", "bad"}

ASSUME BoundAssumption ==
  /\ MaxLines \in Nat /\ MaxInFlight \in Nat \ {0} /\ WriterCapacity \in Nat \ {0}
ASSUME MessageAssumption ==
  Messages \subseteq [kind : Kinds, method : Methods, claim : Claims, id : Ids]

VARIABLES
  line,      \* Seq(Messages): the lines read so far
  main,      \* where the read loop is
  era,       \* ConnectionEra
  session,   \* SessionState
  active,    \* [Ids -> Line \cup {NoLine}]: ActiveRequests, the generation per id
  pc,        \* [Line -> TaskStates]: the task of the request on a line
  outcome,   \* [Line -> Outcomes]: what the line is answered
  flag,      \* [Line -> BOOLEAN]: the request's cancel_flag
  deferred,  \* lines whose RequestGuard was dropped while the registry was locked
  target,    \* the request whose flag apply_cancellation has cloned
  out,       \* Seq(Line): responses in the channel to the writer
  stdout,    \* [Line -> Nat]: how often a line's response was written
  writer,    \* the writer task; "failed" also stands for writer_failed
  gauge      \* RUNTIME_METRICS.active_requests

registry == <<active, deferred>>
channel  == <<out, stdout, writer>>
vars == <<line, main, era, session, registry, pc, outcome, flag, target, channel, gauge>>

MainStates == {"checking", "reading", "refusing", "registering", "initializing",
               "notifying", "applying", "flagging", "joining", "draining", "exited"}
TaskStates == {"none", "spawned", "started", "pinned", "working", "answered",
               "completed", "sending", "ended"}
Outcomes   == {"none", "invalid", "duplicate", "too_many", "mismatch", "already_initialized",
               "not_initialized", "method_error", "result", "cancelled", "timeout", "panic"}

Init ==
  /\ line = <<>> /\ main = "checking"
  /\ era = "undecided" /\ session = "uninitialized"
  /\ active = [i \in Ids |-> NoLine] /\ deferred = {}
  /\ pc = [n \in Line |-> "none"]
  /\ outcome = [n \in Line |-> "none"]
  /\ flag = [n \in Line |-> FALSE]
  /\ target = NoLine
  /\ out = <<>> /\ stdout = [n \in Line |-> 0] /\ writer = "running"
  /\ gauge = 0

Current == Len(line)
Message == line[Current]

(* classify_inbound_era, with the envelope check that follows it at both   *)
(* call sites.  Only a modern claim in a valid envelope is modern; an      *)
(* initialize with a malformed or unsupported claim is still legacy.       *)
Classify(m) ==
  CASE m.claim = "none"       -> "legacy"
    [] m.claim = "modern"     -> "modern"
    [] m.claim = "incomplete" -> "rejected"
    [] m.claim = "bad"        -> IF m.method = "initialize" THEN "legacy" ELSE "rejected"

(* Fault: the Mismatch outcome is ignored and the last message wins. *)
AdmitsAny(target_era) == target_era \in {"legacy", "modern"}

(* try_pin_era does not answer Mismatch. *)
Admits(target_era) == era \in {"undecided", target_era}

(* Fault: an unbounded channel. *)
EmitUnbounded(n) ==
  /\ \/ writer = "failed" /\ UNCHANGED out
     \/ writer # "failed" /\ out' = Append(out, n)
  /\ UNCHANGED <<stdout, writer>>

(* tx.send: waits while the channel is full; fails at once, and is ignored, *)
(* when the writer is gone.                                                *)
Emit(n) ==
  /\ \/ writer = "failed" /\ UNCHANGED out
     \/ writer # "failed" /\ Len(out) < WriterCapacity /\ out' = Append(out, n)
  /\ UNCHANGED <<stdout, writer>>
-----------------------------------------------------------------------------
(* The read loop. *)

CheckWriter ==
  /\ main = "checking"
  /\ main' = IF writer = "failed" THEN "joining" ELSE "reading"
  /\ UNCHANGED <<line, era, session, registry, pc, outcome, flag, target, channel, gauge>>

ReadLine ==
  /\ main = "reading" /\ Current < MaxLines
  /\ \E m \in Messages :
       /\ line' = Append(line, m)
       /\ main' = CASE m.kind = "junk" -> "refusing"
                    [] m.kind = "request" -> "registering"
                    [] m.kind = "notification" -> "notifying"
       /\ outcome' = IF m.kind = "junk" THEN [outcome EXCEPT ![Current + 1] = "invalid"]
                                        ELSE outcome
  /\ UNCHANGED <<era, session, registry, pc, flag, target, channel, gauge>>

(* End of input, or a line that is not UTF-8. *)
ReadEof ==
  /\ main = "reading"
  /\ main' = "joining"
  /\ UNCHANGED <<line, era, session, registry, pc, outcome, flag, target, channel, gauge>>

(* The loop itself sends the answer to a line it does not accept. *)
SendRefusal ==
  /\ main = "refusing"
  /\ Emit(Current)
  /\ main' = "checking"
  /\ UNCHANGED <<line, era, session, registry, pc, outcome, flag, target, gauge>>

InFlight == Cardinality({i \in Ids : active[i] # NoLine})

Refuse(o) ==
  /\ outcome' = [outcome EXCEPT ![Current] = o]
  /\ main' = "refusing"
  /\ UNCHANGED <<line, era, session, registry, pc, flag, target, channel, gauge>>

(* register_request, under one lock: the limit is checked first. *)
RefuseCapacity ==
  /\ main = "registering"
  /\ InFlight >= MaxInFlight
  /\ Refuse("too_many")

RefuseDuplicate ==
  /\ main = "registering"
  /\ InFlight < MaxInFlight
  /\ active[Message.id] # NoLine
  /\ Refuse("duplicate")

(* Fault: initialize is spawned like any other request. *)
SpawnEverything(m) == m.kind = "notification"

(* initialize is handled by the loop, every other request by a task. *)
HandledInline(m) == m.method = "initialize"

Register ==
  /\ main = "registering"
  /\ InFlight < MaxInFlight
  /\ active[Message.id] = NoLine
  /\ active' = [active EXCEPT ![Message.id] = Current]
  /\ IF HandledInline(Message)
     THEN main' = "initializing" /\ pc' = [pc EXCEPT ![Current] = "started"]
     ELSE main' = "checking"     /\ pc' = [pc EXCEPT ![Current] = "spawned"]
  /\ UNCHANGED <<line, era, session, deferred, outcome, flag, target, channel, gauge>>

(* Fault: the branch lacks its "continue" and falls through to the spawn. *)
FallThroughToSpawn ==
  /\ main = "initializing"
  /\ pc[Current] = "ended"
  /\ main' = "checking"
  /\ pc' = [pc EXCEPT ![Current] = "spawned"]
  /\ UNCHANGED <<line, era, session, registry, outcome, flag, target, channel, gauge>>

(* The loop goes on once the response to initialize is in the channel. *)
FinishInitialize ==
  /\ main = "initializing"
  /\ pc[Current] = "ended"
  /\ main' = "checking"
  /\ UNCHANGED <<line, era, session, registry, pc, outcome, flag, target, channel, gauge>>
-----------------------------------------------------------------------------
(* Notifications, handled by the loop: classified and pinned like          *)
(* requests, and dropped without effect when rejected or of the other era. *)

DropNotification ==
  /\ main = "notifying"
  /\ Classify(Message) = "rejected" \/ ~Admits(Classify(Message))
  /\ main' = "checking"
  /\ UNCHANGED <<line, era, session, registry, pc, outcome, flag, target, channel, gauge>>

PinNotification ==
  /\ main = "notifying"
  /\ Classify(Message) # "rejected" /\ Admits(Classify(Message))
  /\ era' = Classify(Message)
  /\ main' = "applying"
  /\ UNCHANGED <<line, session, registry, pc, outcome, flag, target, channel, gauge>>

(* transition_to_ready, for a legacy notification; any other notification  *)
(* is ignored.                                                             *)
ApplyInitialized ==
  /\ main = "applying" /\ Message.method # "cancelled"
  /\ session' = IF /\ Message.method = "initialized"
                   /\ Classify(Message) = "legacy"
                   /\ session = "awaiting"
                THEN "ready" ELSE session
  /\ main' = "checking"
  /\ UNCHANGED <<line, era, registry, pc, outcome, flag, target, channel, gauge>>

(* Fault: try_lock, so a contended registry loses the cancellation. *)
TryLookUpCancelled ==
  /\ main = "applying" /\ Message.method = "cancelled"
  /\ \E found \in {active[Message.id], NoLine} :
       target' = found /\ main' = IF found = NoLine THEN "checking" ELSE "flagging"
  /\ UNCHANGED <<line, era, session, registry, pc, outcome, flag, channel, gauge>>

(* apply_cancellation: the flag is cloned under the lock, set after it. *)
LookUpCancelled ==
  /\ main = "applying" /\ Message.method = "cancelled"
  /\ target' = active[Message.id]
  /\ main' = IF active[Message.id] = NoLine THEN "checking" ELSE "flagging"
  /\ UNCHANGED <<line, era, session, registry, pc, outcome, flag, channel, gauge>>

SetCancelFlag ==
  /\ main = "flagging"
  /\ flag' = [flag EXCEPT ![target] = TRUE]
  /\ target' = NoLine
  /\ main' = "checking"
  /\ UNCHANGED <<line, era, session, registry, pc, outcome, channel, gauge>>
-----------------------------------------------------------------------------
(* A request.  For initialize these are steps of the loop; for any other   *)
(* they are steps of its own task.                                         *)

Answer(n, o) ==
  /\ pc' = [pc EXCEPT ![n] = "answered"]
  /\ outcome' = [outcome EXCEPT ![n] = o]
  /\ UNCHANGED <<line, main, registry, target, channel, gauge>>

(* The spawned task creates its MetricGuard and starts the inner task. *)
Start(n) ==
  /\ pc[n] = "spawned"
  /\ pc' = [pc EXCEPT ![n] = "started"]
  /\ gauge' = gauge + 1
  /\ UNCHANGED <<line, main, era, session, registry, outcome, flag, target, channel>>

(* The edge of handle_request_async: rejected claims and requests of the   *)
(* other era are answered here.                                            *)
RejectClaim(n) ==
  /\ pc[n] = "started"
  /\ Classify(line[n]) = "rejected"
  /\ Answer(n, "invalid")
  /\ UNCHANGED <<era, session, flag>>

RejectEra(n) ==
  /\ pc[n] = "started"
  /\ Classify(line[n]) # "rejected" /\ ~Admits(Classify(line[n]))
  /\ Answer(n, "mismatch")
  /\ UNCHANGED <<era, session, flag>>

PinRequest(n) ==
  /\ pc[n] = "started"
  /\ Classify(line[n]) # "rejected" /\ Admits(Classify(line[n]))
  /\ era' = Classify(line[n])
  /\ pc' = [pc EXCEPT ![n] = "pinned"]
  /\ UNCHANGED <<line, main, session, registry, outcome, flag, target, channel, gauge>>

Legacy(n) == Classify(line[n]) = "legacy"

(* Legacy initialize: the parameters may be refused; then the session      *)
(* moves to AwaitingInitialized, unless it already has.                    *)
Initialize(n) ==
  /\ pc[n] = "pinned" /\ Legacy(n) /\ line[n].method = "initialize"
  /\ \/ Answer(n, "method_error") /\ UNCHANGED session
     \/ session # "uninitialized" /\ Answer(n, "already_initialized") /\ UNCHANGED session
     \/ session = "uninitialized" /\ Answer(n, "result") /\ session' = "awaiting"
  /\ UNCHANGED <<era, flag>>

(* What a modern connection serves, and a legacy session once it is Ready. *)
NeedsReady(n) == line[n].method \notin {"initialize", "ping", "initialized"}
IsServed(n)   == NeedsReady(n) /\ (Legacy(n) => session = "ready")

RejectUnready(n) ==
  /\ pc[n] = "pinned" /\ NeedsReady(n) /\ ~IsServed(n)
  /\ Answer(n, "not_initialized")
  /\ UNCHANGED <<era, session, flag>>

(* Methods answered at once.  "result" is whatever the method answers, an  *)
(* error of its own included; a tools/call that does not validate is one.  *)
(* notifications/initialized with an id is an invalid request.             *)
AnswerAtOnce(n) ==
  /\ pc[n] = "pinned"
  /\ \/ IsServed(n) /\ Answer(n, "result")
     \/ Legacy(n) /\ line[n].method = "ping" /\ Answer(n, "result")
     \/ Legacy(n) /\ line[n].method = "initialized" /\ Answer(n, "method_error")
     \/ ~Legacy(n) /\ ~NeedsReady(n) /\ Answer(n, "method_error")
  /\ UNCHANGED <<era, session, flag>>

(* execute_tool_bounded begins. *)
BeginCall(n) ==
  /\ pc[n] = "pinned" /\ line[n].method = "call" /\ IsServed(n)
  /\ pc' = [pc EXCEPT ![n] = "working"]
  /\ UNCHANGED <<line, main, era, session, registry, outcome, flag, target, channel, gauge>>

(* The call ends: with an answer or an error, or cancelled if its flag was *)
(* found set.                                                              *)
EndCall(n) ==
  /\ pc[n] = "working"
  /\ \/ Answer(n, "result")
     \/ flag[n] /\ Answer(n, "cancelled")
  /\ UNCHANGED <<era, session, flag>>

(* The call's time is up: execute_tool_bounded sets the same flag that a   *)
(* cancellation does, and answers TIMEOUT.                                 *)
TimeOutCall(n) ==
  /\ pc[n] = "working"
  /\ Answer(n, "timeout")
  /\ flag' = [flag EXCEPT ![n] = TRUE]
  /\ UNCHANGED <<era, session>>

(* The inner task panics; the outer one sees a JoinError. *)
Panic(n) ==
  /\ pc[n] \in {"started", "pinned", "working"} /\ ~HandledInline(line[n])
  /\ Answer(n, "panic")
  /\ UNCHANGED <<era, session, flag>>

(* Fault: removal by id alone. *)
WithoutId(n) == [active EXCEPT ![line[n].id] = NoLine]

(* Removal from the registry is checked against the generation. *)
WithoutEntry(n) == [active EXCEPT ![line[n].id] = IF @ = n THEN NoLine ELSE @]

(* Fault: no awaited cleanup, the guard alone removes the entry. *)
LeaveToGuard(n) ==
  /\ pc[n] = "answered"
  /\ pc' = [pc EXCEPT ![n] = "completed"]
  /\ UNCHANGED <<line, main, era, session, registry, outcome, flag, target, channel, gauge>>

(* complete_request *)
Complete(n) ==
  /\ pc[n] = "answered"
  /\ active' = WithoutEntry(n)
  /\ pc' = [pc EXCEPT ![n] = "completed"]
  /\ UNCHANGED <<line, main, era, session, deferred, outcome, flag, target, channel, gauge>>

(* Dropping the RequestGuard removes the entry once more, now or, if the   *)
(* registry is locked, in a task spawned for it.                           *)
DropGuard(n) ==
  /\ pc[n] = "completed"
  /\ pc' = [pc EXCEPT ![n] = "sending"]
  /\ \/ active' = WithoutEntry(n) /\ UNCHANGED deferred
     \/ deferred' = deferred \cup {n} /\ UNCHANGED active
  /\ UNCHANGED <<line, main, era, session, outcome, flag, target, channel, gauge>>

RunDeferred(n) ==
  /\ n \in deferred /\ main # "exited"
  /\ active' = WithoutEntry(n)
  /\ deferred' = deferred \ {n}
  /\ UNCHANGED <<line, main, era, session, pc, outcome, flag, target, channel, gauge>>

(* Fault: a JoinError is not turned into a response. *)
SendUnlessPanicked(n) ==
  /\ pc[n] = "sending"
  /\ IF outcome[n] = "panic" THEN UNCHANGED channel ELSE Emit(n)
  /\ pc' = [pc EXCEPT ![n] = "ended"]
  /\ gauge' = IF HandledInline(line[n]) THEN gauge ELSE gauge - 1
  /\ UNCHANGED <<line, main, era, session, registry, outcome, flag, target>>

(* The response goes to the writer; a task's MetricGuard goes after it. *)
Send(n) ==
  /\ pc[n] = "sending"
  /\ Emit(n)
  /\ pc' = [pc EXCEPT ![n] = "ended"]
  /\ gauge' = IF HandledInline(line[n]) THEN gauge ELSE gauge - 1
  /\ UNCHANGED <<line, main, era, session, registry, outcome, flag, target>>
-----------------------------------------------------------------------------
(* The writer task and shutdown. *)

Write ==
  /\ writer = "running" /\ out # <<>>
  /\ stdout' = [stdout EXCEPT ![Head(out)] = @ + 1]
  /\ out' = Tail(out)
  /\ UNCHANGED <<line, main, era, session, registry, pc, outcome, flag, target, writer, gauge>>

(* write_json_line fails: the flag is set and the receiver dropped. *)
WriteFails ==
  /\ writer = "running" /\ out # <<>>
  /\ writer' = "failed"
  /\ out' = <<>>
  /\ UNCHANGED <<line, main, era, session, registry, pc, outcome, flag, target, stdout, gauge>>

(* join_set.join_next until no task is left; then main drops its sender. *)
JoinTasks ==
  /\ main = "joining"
  /\ \A n \in Line : pc[n] \in {"none", "ended"}
  /\ main' = "draining"
  /\ UNCHANGED <<line, era, session, registry, pc, outcome, flag, target, channel, gauge>>

(* Fault: main awaits the writer before it drops its own sender. *)
SendersGoneAtExit == main = "exited"

SendersGone == main = "draining"

WriterEnds ==
  /\ writer = "running" /\ out = <<>> /\ SendersGone
  /\ writer' = "done"
  /\ UNCHANGED <<line, main, era, session, registry, pc, outcome, flag, target, out, stdout, gauge>>

Exit ==
  /\ main = "draining" /\ writer # "running"
  /\ main' = "exited"
  /\ UNCHANGED <<line, era, session, registry, pc, outcome, flag, target, channel, gauge>>

Exited == main = "exited" /\ UNCHANGED vars
-----------------------------------------------------------------------------
LoopStep == \/ CheckWriter \/ SendRefusal \/ RefuseCapacity \/ RefuseDuplicate \/ Register
            \/ FinishInitialize \/ DropNotification \/ PinNotification \/ ApplyInitialized
            \/ LookUpCancelled \/ SetCancelFlag \/ JoinTasks \/ Exit

Dispatch(n) == \/ RejectClaim(n) \/ RejectEra(n) \/ PinRequest(n) \/ Initialize(n)
               \/ RejectUnready(n) \/ AnswerAtOnce(n) \/ BeginCall(n) \/ EndCall(n)
               \/ TimeOutCall(n)

RequestStep(n) == Start(n) \/ Dispatch(n) \/ Complete(n) \/ DropGuard(n) \/ Send(n)

Next == \/ LoopStep \/ ReadLine \/ ReadEof
        \/ \E n \in Line : RequestStep(n) \/ Panic(n) \/ RunDeferred(n)
        \/ Write \/ WriteFails \/ WriterEnds
        \/ Exited

(* The loop and the tasks are polled, a call ends (HandlerExecution, its   *)
(* EveryCallAnswered), and a write to stdout returns, well or badly.       *)
(* Nothing is assumed of the client, nor of the deferred cleanups.         *)
Fairness == /\ WF_vars(LoopStep)
            /\ \A n \in Line : WF_vars(RequestStep(n))
            /\ WF_vars(Write \/ WriteFails \/ WriterEnds)

Spec     == Init /\ [][Next]_vars
FairSpec == Spec /\ Fairness
-----------------------------------------------------------------------------
TypeOK ==
  /\ line \in Seq(Messages) /\ Len(line) <= MaxLines
  /\ main \in MainStates
  /\ era \in {"undecided", "legacy", "modern"}
  /\ session \in {"uninitialized", "awaiting", "ready"}
  /\ active \in [Ids -> Line \cup {NoLine}] /\ deferred \subseteq Line
  /\ pc \in [Line -> TaskStates]
  /\ outcome \in [Line -> Outcomes]
  /\ flag \in [Line -> BOOLEAN]
  /\ target \in Line \cup {NoLine}
  /\ out \in Seq(Line) /\ Len(out) <= WriterCapacity /\ stdout \in [Line -> Nat]
  /\ writer \in {"running", "failed", "done"}
  /\ gauge \in Nat

Registered == {n \in Line : pc[n] \in {"spawned", "started", "pinned", "working", "answered"}}
Pending    == {n \in Line : pc[n] \notin {"none", "ended"}}

(* The registry holds exactly the requests between registration and        *)
(* completion, each under its own id, never more than the limit: a cleanup *)
(* left over from an earlier request with the same id removes nothing.     *)
RegistryIsExact ==
  /\ \A n \in Registered : active[line[n].id] = n
  /\ \A i \in Ids : active[i] # NoLine => active[i] \in Registered /\ line[active[i]].id = i
  /\ Cardinality(Registered) <= MaxInFlight

Served == {n \in Line : outcome[n] \in {"result", "cancelled", "timeout", "method_error",
                                        "already_initialized", "not_initialized"}}

(* However inline and spawned openings race, one era wins: every request   *)
(* past the edge is of the pinned era, and a session begins only under     *)
(* Legacy.                                                                 *)
OneEra ==
  /\ \A n \in Served : Classify(line[n]) = era
  /\ \A n \in Line : pc[n] \in {"pinned", "working"} => Classify(line[n]) = era
  /\ session # "uninitialized" => era = "legacy"

(* initialize was accepted on line j, notifications/initialized followed   *)
(* on line k, and the loop has gone past k. *)
Handshake(j, k) ==
  /\ j < k /\ k <= Len(line)
  /\ line[j].kind = "request" /\ line[j].method = "initialize" /\ Legacy(j)
  /\ outcome[j] = "result"
  /\ line[k].kind = "notification" /\ line[k].method = "initialized" /\ Legacy(k)
  /\ k = Len(line) => main \notin {"notifying", "applying"}

(* A handshake sent without waiting for answers takes effect in the order  *)
(* it was sent: the session is Ready as soon as the loop is past it, and   *)
(* no later request is told the session is not initialized.                *)
PipelinedHandshake ==
  \A j, k \in Line : Handshake(j, k) =>
    session = "ready" /\ \A n \in k + 1 .. Len(line) : outcome[n] # "not_initialized"

Cancels(k, n) ==
  /\ line[k].kind = "notification" /\ line[k].method = "cancelled"
  /\ line[k].id = line[n].id /\ Classify(line[k]) = era

(* A cancellation reaches the request it names and no other: a flag is set *)
(* only by a later notification of the pinned era that names its id, or by *)
(* the timeout that its own call is answered with; a client that is told   *)
(* "cancelled" has cancelled; and once the loop is past a cancellation, a  *)
(* request that was registered throughout has its flag set.                *)
CancellationIsExact ==
  \A n \in Line :
    /\ flag[n] => outcome[n] = "timeout" \/ \E k \in n + 1 .. Len(line) : Cancels(k, n)
    /\ outcome[n] = "cancelled" => \E k \in n + 1 .. Len(line) : Cancels(k, n)
    /\ n \in Registered /\ main \notin {"notifying", "applying", "flagging"} =>
         \A k \in n + 1 .. Len(line) : Cancels(k, n) => flag[n]

Wants(n) == n <= Len(line) /\ line[n].kind # "notification"

(* No line is answered twice, whether by the loop, by a task or by both,   *)
(* and the process does not exit before it is done: every request and junk *)
(* line it read has been answered, unless stdout failed, and no            *)
(* notification has.                                                       *)
AnsweredOnce ==
  /\ \A n \in Line : stdout[n] + Cardinality({a \in 1 .. Len(out) : out[a] = n}) <= 1
  /\ main = "exited" =>
       /\ Pending = {} /\ out = <<>>
       /\ writer # "failed" => \A n \in Line : Wants(n) <=> stdout[n] = 1

EraOf == [m \in Messages |-> Classify(m)]

(* Answers not handed to the writer yet: those of the requests under way,  *)
(* and that of the line in the hands of the loop.                          *)
Owed == {n \in Line : \/ pc[n] \notin {"none", "ended"}
                      \/ n = Current /\ main \in {"registering", "refusing"}}

Promise == INSTANCE Conversation
  WITH heard <- line, phase <- session, verdict <- outcome, owed <- Owed, told <- stdout,
       cut <- (writer = "failed"), over <- (main = "exited")

(* Whatever the loop, the tasks, the registry and the writer do among      *)
(* themselves, a client sees one sequential conversation: every answer is  *)
(* one that the lines heard, the era and the session account for, decided  *)
(* once and told once; a refusal is due only while the answers that would  *)
(* make room have not been handed over; nothing overtakes the handshake.   *)
KeepsConversation == Promise!Spec

(* Every line that wants an answer has it on stdout in the end, unless     *)
(* stdout has failed: panics, timeouts and a full channel lose no answer.  *)
EveryLineAnswered ==
  \A n \in Line : Wants(n) ~> (writer = "failed" \/ stdout[n] > 0)

(* Once the input ends, or the loop sees the writer failed, the process    *)
(* exits with nothing undelivered in the channel.                          *)
ShutdownCompletes == main = "joining" ~> (main = "exited" /\ out = <<>>)
-----------------------------------------------------------------------------
(* What the documents say.  Both are false of the code.                    *)

FirstClassifiable ==
  {n \in 1 .. Len(line) : /\ line[n].kind # "junk" /\ Classify(line[n]) # "rejected"
                          /\ \A k \in 1 .. n - 1 : \/ line[k].kind = "junk"
                                                   \/ Classify(line[k]) = "rejected"}

(* architecture/mcp-server.md: "The first classifiable inbound message     *)
(* pins the era exactly once".                                             *)
FirstMessagePins ==
  era # "undecided" => \A n \in FirstClassifiable : Classify(line[n]) = era
=============================================================================
