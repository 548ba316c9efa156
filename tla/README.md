# A verification of eggsact

eggsact is a deterministic tool server for coding agents: 86 pure tools behind
an MCP stdio server, an in-process agent API, a calculator and a self-updater.
Most of its lines are tables and functions of their arguments.  What is hard
about the program is around them: threads and tasks that race on atomics,
timeouts that cannot stop what they time out, a registry of requests whose ids
are chosen by the client, a connection that must settle on one of two protocols,
shutdown, updates that are interrupted, and four pieces of code that must agree
on which tools there are.  Two of the tools decide what an agent does next, and
their verdicts are worth as much care.  This directory models these parts in
TLA+, checks them with TLC, and proves every safety property it checks of the
code with TLAPS.

All paths below are relative to the repository root.

## The system

| component | code | state it keeps | operations | talks to |
|---|---|---|---|---|
| Synchronous pool | `src/mcp/sync_pool.rs` | bounded job queue, worker threads, per-job reply channel, `abandoned`, cancellation flag, `stuck` gauge | submit, wait, worker loop | agent API (caller), tools (callee) |
| Bounded handler execution | `src/mcp/execution.rs` | semaphore, `HandlerLifecycle` phase, cancellation flag, gauges of `RuntimeMetrics` | `execute_tool_bounded` | server (caller), tools (callee) |
| Server loop, tasks, writer | `src/mcp/server.rs` | the loop's position, `JoinSet`, writer channel, `writer_failed` | read, register, notify, dispatch, send, write, shut down | client (stdin/stdout), registry, era, session, execution |
| Request registry, metrics | `src/mcp/runtime.rs` | `ActiveRequests`, generations, `active_requests` | `register_request`, `complete_request`, `RequestGuard::drop`, `apply_cancellation` | loop and tasks |
| Connection era, session | `src/mcp/runtime.rs` | `ConnectionEra`, `SessionState` | `classify_inbound_era`, `try_pin_era`, the two transitions | loop and tasks |
| Budgets, thread-local bridges | `src/mcp/budget.rs` | thread-locals; a deadline and a flag per call | `with_cancel_flag`, `with_eval_context`, `should_stop` | tools |
| Line framing | `read_bounded_line` in `src/mcp/server.rs` | the kept prefix, the bytes counted, the last byte of the previous fill | one line per call | loop, transport |
| Tool access and discovery | `src/mcp/registry`, `src/mcp/discovery.rs`, `src/mcp/server.rs`, `src/main.rs` | profile, audience and surface, fixed at start | list, search, invoke, call, `has_tool` | client, tools |
| Agent API | `src/agent/mod.rs` | profile, audience; an `ExecutionContext` the caller owns | `call_json*`, `available_tools`, `has_tool` | pool, registry |
| Self-update | `src/update.rs` | executable, lock, the Windows helper's copy and status file | select, download, verify, validate, commit or hand off | crates.io, GitHub, cargo, file system, Eggup |
| Edit and command preflight | `src/tools/patch.rs`, `src/tools/shell.rs`, `src/preflight/mod.rs` | findings and codes of one call | the checks, the reply, the strict typed wrapper | agent, budget |
| Response truncation, schema validation, specs, protocol types | `src/mcp/` | none | pure functions, static tables | server, agent API |
| Calculator, text, other tools and preflights, services, temporal | `src/calc`, `src/text`, `src/tools`, `src/services`, `src/preflight`, `src/temporal` | none across calls | pure functions | agent API, server |
| CLI, client integration, doc generator, packaging, fuzzing | `src/main.rs`, `src/integrate.rs`, `src/bin`, ... | none | | |

What makes each of the stateful ones correct:

* **Pool.** A job runs at most once, on one worker, and never once its caller
  has given up while it was queued.  Replies never block a worker.  Panics and
  late answers cost no worker.  Every caller returns.  The gauge tells the truth.
* **Execution.** The same contract with a permit for a worker; the gauges equal
  the phases whoever wins the race between timeout and completion; permits are
  neither released early nor lost.
* **Server.** Each line is answered once, and in the end; a request is refused
  only with cause; an id used again is not confused with its earlier use; one
  era wins; a pipelined handshake works; a cancellation hits what it names;
  shutdown drains.
* **Framing.** What comes of a line does not depend on how the transport cuts it,
  and no more than the limit is ever kept of it.
* **Tool access.** What a client is shown under its own policy it may run;
  everything it may run it can find.  A request of the server may narrow the
  audience and not widen it; a library caller may name another than its
  registry's and is held to that one; and two requests, `profiles/list` and
  `available_tools`, look at no audience at all.
* **Preflights.** The verdict weighs every check that was asked for; what the
  caller denies is blocked, and a stricter configuration never softens the verdict;
  a stop is noticed within one check; the reply
  satisfies the contract its own wrapper enforces.
* **Self-update.** What is installed was built, verified and selected; weaker
  evidence is accepted only where stronger evidence was absent; a failed update
  installs nothing, then or later, whatever files it leaves behind; every update ends.

## The modules

| module | models | theorems in |
|---|---|---|
| `BoundedCalls` | the contract of an executor: admit, refuse, claim, release, drop, answer, give up | |
| `Conversation` | the contract of the server with a client: hear, settle on an era, decide an answer, hand it over, tell it, hang up | |
| `AtomicUpdates` | the contract of the updater with whoever runs the executable: choose, install, close | |
| `SyncPool` | `src/mcp/sync_pool.rs`, and how `run_bounded` in `src/agent/mod.rs` calls it | `SyncPoolProofs` |
| `HandlerExecution` | `execute_tool_bounded_inner` and `HandlerLifecycle` in `src/mcp/execution.rs` | `HandlerExecutionProofs` |
| `McpServer` | `main` and `handle_request_async` in `src/mcp/server.rs`; registry, era and session in `src/mcp/runtime.rs` | `McpServerProofs` |
| `SelfUpdate` | `src/update.rs`: the updater processes, the commit and the Windows helper | `SelfUpdateProofs` |
| `Framing` | `read_bounded_line` in `src/mcp/server.rs` | `FramingProofs` |
| `ToolAccess` | startup (`src/main.rs`, `src/mcp/runtime.rs`), listing, discovery and call preparation (`src/mcp/registry`, `src/mcp/discovery.rs`, `src/mcp/server.rs`), `src/agent/mod.rs` | `ToolAccessProofs` |
| `EditPreflight` | `edit_preflight` in `src/tools/patch.rs` and its wrapper in `src/preflight/mod.rs` | `EditPreflightProofs` |
| `CommandPreflight` | `command_preflight` in `src/tools/shell.rs` and its wrapper | `CommandPreflightProofs` |
| `MCSyncPool`, `MCHandlerExecution`, `MCMcpServer`, `MCSelfUpdate`, `MCRequestPath` | instances for TLC | |

`SyncPool` and `HandlerExecution` both refine `BoundedCalls`
(`KeepsContract == Contract!Spec`), with workers and permits for its slots.
`McpServer` refines `Conversation` (`KeepsConversation == Promise!Spec`): one client,
one sequential session, no loop, tasks, registry, flags or channel.  Its answers
are a function of what was said: an answer is decided while it is owed, for a
reason the lines heard so far account for, handed over once and told at most once;
a duplicate or an overload is refused only while the answers that would make room
are owed; nothing is heard past an `initialize` that has not been answered, nor past
the notification that completes it before it has taken effect.  `SelfUpdate` refines
`AtomicUpdates` (`UpdatesAtomically == Promise!Spec`): the installed version changes in
one step, at most once for each updater, to what it chose over an older one, and
never after its update has failed or a transaction has kept the lock.  An update may
also end `unsure`: its transaction asked for recovery, or was killed, with the old
version, the chosen one or none in place.
`McpServer` treats a tool call between dispatch and outcome as one state,
`"working"`, that ends with an answer, with `cancelled` if its flag is set, or with
a timeout, which sets that same flag: `HandlerExecution` is what goes on inside, and its `EveryCallAnswered` is what
justifies the fairness `McpServer` assumes of calls.

`MCRequestPath` instantiates four closed components, `Framing`, `ToolAccess`,
`EditPreflight` and `CommandPreflight`.  They share no state, so one of them moves
while the others are at rest: their state spaces add up instead of multiplying.

Definitions marked *Fault* or *Mutant* in a module are wrong on purpose: each is
the definition next to it with a plausible bug, kept so that every property can
be shown to fail when the code is wrong.

### SyncPool

Every access to an atomic or a channel is a step.  A caller goes `ready`,
`waiting` (in `recv_timeout`), then returns with a reply, or passes through
`abandoning`, `counting` and `flagging`: the store to `abandoned`, the increment
of `stuck` and the store to the cancellation flag, in the code's order.  A worker
goes `recv`, `deadline`, `flag`, `run`, `send`, `reap`, `release`.  `expired[c]`
is the clock having passed the deadline, which was fixed before the job was
queued; both `recv_timeout` and the worker's check read it.  `alive` is the set
of workers whose spawn succeeded: `with_limits` goes on when a spawn fails.
`FlagOf` maps calls to flags, since one `ExecutionContext` may be used for
several calls.  `stuck` counts modulo `GaugeModulus`, as a `usize` wraps.

The receive under the mutex is one step: a worker that holds the mutex and
blocks in `recv` excludes the others, and nothing but a job ends its wait (the
global pool is never dropped, so the channel is disconnected only when no worker
could be spawned).

### HandlerExecution

`task` is the async side: `acquiring`, `spawned`, then `returned` by joining the
closure, or `expiring`, `signalled`, `returned` when the timeout fires (the flag
is set, then the phase is recorded).  `closure` is the blocking side: `queued`,
`entered`, `cleared`, `handling`, `finishing`, `exiting`, `done`; it owns its permit
from spawn to the end.  It is `cleared` after its last look at the flag and before
the handler is invoked; a timeout signalled in between no longer keeps the handler
from starting, which is the situation the test `panic_after_timeout` builds with
`before_handler`.  The contract is therefore about the look: no handler starts for a
call whose timeout was signalled before it.  `phase` is `HandlerLifecycle` and each of its three methods is
one step, as they run under its mutex, gauges included.

### McpServer

`main` is where the loop is.  A line is a record: kind, method, `_meta` claim,
id.  Byte framing, JSON and parameter validation are reduced to what they
decide: a *junk* line is refused before the method is looked at, a claim is
absent, modern, incomplete or bad.  A request is its line number; the number
also serves as its generation, since one loop registers all requests in order.
`pc` takes it from registration to the end of its task.  `initialize` takes the
same steps, but the loop waits for it (`HandledInline`).  The response is sent
after the registry entry is removed, as in the code; `DropGuard` removes it once
more, now or in a deferred task when the registry is locked.  `out` is the
channel, `writer` the writer task, whose failure drops the receiver so that
later sends fail at once.  A request has one flag, set by a cancellation that finds
its entry and by the timeout of its own call (`TimeOutCall`); `CancellationIsExact`
tells the two apart by the answer.

### SelfUpdate

An executable is its version and whether its bytes are the ones that were built;
a digest is the executable it is the digest of.  An updater goes from `idle`
through the sources of a release to the commit: `manifest`, `artifact` when the
manifest fits, `binary` and `checksum` when there is none, `cargo` when there is no
binary either or the host is not supported, then `prepare`, where the staged copy
must have the digest of the evidence and print the chosen version, and `commit`.
`offered` remembers what the release had when it was selected, `evidence` what the
candidate was accepted on.  The Unix commit is the Eggup transaction under the
lock of the installation root, by its outcomes: committed, rolled back, recovery
required, denied.  On Windows the updater leaves an adjacent copy to a detached
helper and exits; the helper waits for it, tries to move the copy a bounded number
of times and checks its digest each time.  The release pipeline publishes and
uploads while updaters run; the executable may be uninstalled, an updater or a
helper killed, the copy damaged.

What a failed update leaves on disk is in the model where something could read it:
the adjacent copy, whole or in part, after a copy or a spawn that failed
(`LeavesCopy`), the status file, the lock.  The temporary directory is not: its
removal may fail, which the code ignores, but its name is new for each run and
nothing reads a left-over one.

The source says of the Eggup transaction only how update.rs reads its outcome.  The
model assumes no more than that, and this is all it assumes: `Committed` means that
the candidate is in place; `RolledBack`, and an error returned before anything was
changed, mean that the executable is as it was; `RecoveryRequired`, and a process
killed inside the transaction, may leave the old executable, the candidate or
nothing (`Undecided`), but no mixture of the two; to everybody else a transaction is
one step; the lock is kept after
`RecoveryRequired`, perhaps after a kill, and a lock that is kept refuses later
transactions until somebody has looked.

### Framing

`frame` is every byte of the line so far, which the code does not keep; `buf`,
`bytes_before_lf` and `last_byte` are the code's variables.  A fill is what the
transport hands over up to its first LF.  A CRLF may lie in one fill or be split
between two, which the code treats in two different ways.

### ToolAccess

`policy` is fixed by `Start`, from the flag and the environment, or by
`NewRegistry`.  A request lists, searches, calls, invokes through the facade, or
asks `has_tool`, `profiles/list` or one of the `available_tools`; `exchange` is the
last one with its reply, and `known` collects the names a client was shown under its
own policy or has run.  `profiles/list` names the tools of each profile whatever the
audience, `available_tools` those of the registry's profile whatever the audience,
and `available_tools_for_audience` those of the audience it is given: each is an
action of its own, and what they show is `known` only when it is shown for the
registry's own audience.  Each route filters
as the code does for that route: `tools_for_profile_audience`,
`discovery_definitions`, `search_filtered`, `prepare_tool_call_internal`.  The words
of a query are reduced to the relevance class and the number of matched tokens they
give each tool.  Of the settings only the audience is forgiving: absent or unknown,
it is `model`, where an unknown surface or profile keeps the server from starting.

### EditPreflight and CommandPreflight

Both handlers run their checks in a fixed order and look before each whether to
stop.  What a check finds in the texts is part of the input, as an outcome.  In
`EditPreflight` `at` is the stop check the handler has come to; four of the eight
are inside `inspect_text_security`; `late` counts the checks begun after the
caller cancelled or the deadline passed.  In `CommandPreflight` a program stands
for all that the three policy tables and the lists of programs treat alike, and
`writes` says whether its second word is one of `fs_write_subcommands`, so that an
allowed program may write and `curl` may have two behaviours.  The code of a finding
is its *kind* (`NetworkAccess`, `PipeToShell`, `RISKY_SHELL_FEATURE`, the upper-case
kind of a regex risk); the machine code that goes with it is pushed to `code_list`,
at another place and under a condition of its own, and both pushes are modelled as
they are.  `KindsOf` says which kinds a machine code stands for.  The rules of the
caller, the built-in policy and the overrides look at each other's findings as
they do in the code.  The last action of each is the typed wrapper, which reads
the reply strictly.

## The runs

| run | instance | shows |
|---|---|---|
| `sync_pool` | 3 calls, 2 workers, queue of 1, two calls on one flag | types, `OneOwner`, `SendNeverBlocks`, `GaugeCoversStuckWork`, `CancelledHasCause`, `KeepsContract` |
| `sync_pool_live` | 2 calls on one flag, 2 workers, handlers may panic | `EveryCallReturns`, `JobsDrain` |
| `sync_pool_underflow` | 2 calls | *violated*: `GaugeNeverUnderflows` |
| `sync_pool_leak` | the same | *violated*: `GaugeFallsBack` |
| `handler_execution` | 3 calls, 1 permit | types, `GaugesMatchPhases`, `ActiveOwnsPermit`, `LifecycleNeverErrs`, `KeepsContract`, `EveryCallAnswered`, `PermitsComeBack` |
| `mcp_server` | any 3 lines of 7 kinds, 2 ids, registry of 2, channel of 1 | types, `RegistryIsExact`, `OneEra`, `PipelinedHandshake`, `CancellationIsExact`, `AnsweredOnce`, `KeepsConversation` |
| `mcp_server_live` | any 2 lines of 16 kinds, registry of 1, channel of 1 | `EveryLineAnswered`, `ShutdownCompletes` |
| `mcp_server_era` | as `mcp_server` | *violated*: `FirstMessagePins` |
| `self_update` | 2 updaters, 2 releases, 7 forms of a release, 2 attempts of a helper | types, `InstalledIsTheChosenRelease`, `WeakEvidenceOnlyWhenAbsent`, `FailedUpdateInstallsNothing`, `UpdatesAtomically`, `UpdatesSettle` |
| `self_update_recreates` | the same | *violated*: `UpdateOnlyReplaces` |
| `request_path` | fills of at most 3 bytes, limit of 2, lines of at most 6; 5 tools, 2 profiles; every outcome of every check | `FramedAsSent`, `KeptWithinLimit`; `KnownToolsWork`, `RoutesKeepTheirAudience`, `NothingOutOfReach`, `StartsAsConfigured`; `VerdictWeighsEveryCheck`, `StopsWithinACheck`; `DenyBeatsAllow`, `HeldBackForAReason` |
| `request_path_contract` | the same | *violated*: `FindingsKeepTheContract` |

**Bounds.** The pool needs two workers to race for a job, a job running, one
queued and one refused: three calls.  Two of them share a flag so that one's
timeout can cancel the other.  Execution needs a permit handed over while
another closure outlives its timeout, with a third call behind: three calls on
one permit; that no permit is owned twice among several is proved.  The server's
scenarios take at most three lines: a handshake and a request; two openings; a
request, its cancellation and its id used again; a registry of two and one more
request.  A channel of one is full as soon as two responses wait.  Two updaters
race for one executable, for a release that is still being uploaded, and for one
another's running image; one release beyond the installed one is what they race
for.  Fills of three bytes against a limit of two give a line within, at and
beyond the limit, with the CRLF in one fill and split.  The tools of `ToolAccess`
are one of each exposure that differs, one deprecated, one pinned that a model
may not run, and one hidden.  The arguments of the preflights take every outcome
of each check with every outcome of the others, and every way to be malformed; a
patch is asked about with every outcome of the newline check, as a text is.  Commands
take every program with and without a writing second word, and destructive patterns,
regex risks and features of the shell a few at a time; the theorems have them all.

Deadlock is not checked where the system really stops: an update that has ended,
a preflight that has answered, a server that was refused its settings.

**Fairness.** Threads, timers, tasks and the loop are assumed to make progress
(weak fairness), since the operating system and tokio schedule them.  Handlers
are not: a tool may run forever, and the properties that need it to end say so
in their premise.  In `McpServer` a call ends, which is what the timeout of
`HandlerExecution` provides, and a write to stdout returns, well or badly; the
client may stop sending at any time, and the end of input is a choice of its
own.  A receive by *some* worker is fair, not one by each.  An updater that was
started takes its next step, since every fetch has a total timeout; its helper
does too, unless it is killed; neither starting an update nor any fault is fair.
The other components have safety properties only.

## What disagrees with the documents

1. **`stuck` can wrap below zero.**  `wait_for_reply` stores `abandoned` and then
   increments; a worker that reaps in between decrements first.  The comment at
   `src/mcp/sync_pool.rs:217` says the pairing never underflows.
2. **`stuck` can stay raised.**  The wait times out, the worker replies and finds
   the job not abandoned, and the submitter then raises the gauge that nobody
   lowers.  `src/mcp/sync_pool.rs:205` defines the gauge otherwise.
   `GaugeCoversStuckWork` is what does hold: outside the window of (1) the gauge
   is never below the truth.
3. **The first message does not always pin the era.**  Spawned requests pin when
   their task runs; notifications and `initialize` are pinned by the loop, and
   may overtake them (`docs/cli.md:119`, `architecture/mcp-server.md:125`).
   `OneEra` is what does hold.
4. **The Windows helper may recreate the executable.**  The ownership proof with
   `AbsentPolicy::DenyCreate` (`src/update.rs:1173`) is built on every platform and
   consulted by the Unix commit only.  `src/update.rs:904` says creation is denied
   by policy because self-update only replaces.
5. **A working directory with `..` breaks the typed wrapper.**  Its finding is
   written with `machine_code` and no `code` (`src/tools/shell.rs:1269`), so the
   wrapper reports a successful reply as `ContractViolation`.

Disagreements met while modelling that no run demonstrates, most of them because
they are about wording and not about state:

* `edit_preflight` takes the code of the *first* finding as primary
  (`src/tools/patch.rs:292`), where `architecture/tools.md:294` has a priority.
* `recommended_next_tool` is in the `result` of `edit_preflight`
  (`src/tools/patch.rs:1136`), and its wrapper looks for it in the envelope: the
  typed output never has one.
* `architecture/tools.md` says patch mode conflicts with `start_line` and
  `end_line`; the code does not reject them.
* Under the strict policy `wipefs`, `fdisk` and `parted` are reviewed, where the
  other two block them, and `cargo fmt` is allowed, where the default reviews it
  (`architecture/preflight.md:341` calls it stricter).  `DenyBeatsAllow` therefore
  compares configurations of one policy.
* `allow_subcommands` is documented (`docs/mcp-tools.md:1354`) and never read.
* `architecture/mcp-server.md:331` has `tools/call` use the model audience; the code
  uses the active one.
* `MAX_IN_FLIGHT_REQUESTS` does not bound request tasks
  (`architecture/budget-concurrency.md:196`): a task whose response waits for the
  channel has left the registry.  `RegistryIsExact` is what does hold.

Two things that are as written and still worth knowing.  A line at the byte limit
whose payload ends in a CR of its own loses that CR when the CRLF after it is
split between two fills; `FramedAsSent` states exactly that exception.  And
nothing keeps an older update from replacing a newer one that another updater has
installed meanwhile; `InstalledIsTheChosenRelease` and `UpdatesAtomically` compare
with the image the updater ran from, and do not see it.

## What is proved

`SyncPoolProofs` proves, for any finite set of calls, any workers, flags and
queue capacity:

* `TypeCorrect`, `JobsHaveOneOwner`, `RepliesNeverBlock`: `TypeOK`, `OneOwner`
  and `SendNeverBlocks` are invariants of `Spec`;
* `PoolKeepsContract`: `Spec => KeepsContract`, the refinement;
* `CancellationsHaveACause` and `GaugeIsNeverLow`: `CancelledHasCause` and
  `GaugeCoversStuckWork` are invariants too.

None of them is inductive alone.  `IInv` adds: a call not yet submitted is
nowhere in the pool (`ReadyInv`); a queued job is undecided, its handler held
and its reply slot empty (`QueueInv`); a worker's stage fixes what it holds, the
state of that handler and that the reply slot is empty until it sends
(`WorkerInv`); and a caller's stage fixes its result and whether its deadline
has passed (`CallerInv`).  The last is what the refinement turns on: a caller
gives up only after its deadline, so a job still queued then will be found
expired by the worker, and a job the worker has let past the deadline check is
one whose caller was still waiting when its slot was claimed.  `CauseInv` traces a
set flag to its owner or to a caller that gave up.  `GaugeInv` says what the gauge
is, modulo its width: the jobs owed a decrement, plus those it has leaked, minus
those a worker has taken off too early.  `Inductive` has
one lemma per action; the refinement has one per kind of step, with everything
else a stutter.  The assumptions used are those the module states of its
constants: calls are finite and are not `NoCall`, flags are flags, the capacity is
at least one, the gauge's modulus exceeds twice the number of calls.

`HandlerExecutionProofs` proves, for any finite sets of calls and of permits:

* `TypeCorrect`, `GaugesAreExact`, `ActiveHandlersOwnPermits` and
  `LifecycleIsSound`: every invariant the run checks is one of `Spec`;
* `ExecutionKeepsContract`: `Spec => KeepsContract`, the refinement.

Its `IInv` says what each side of a call knows of the other.  `TaskInv`: a
closure exists once spawned; a timeout is in the phase only after the call has
answered; the flag is set by the time the timeout is signalled; any other answer
is that of a closure that is over.  `ClosureInv`: the closure's stage fixes its
phase, whether it owns a permit and whether it has an outcome.  `PermitInv`: no
permit is owned twice.  The gauges are cardinalities: one lemma tells what one
call's change of phase does to both counts, and the peak is bounded by an
injection of the active handlers into the permits.  The refinement turns on the
flag: a closure that finds it clear belongs to a call whose caller still waits, and
is claimed for the contract at that moment, though it starts its handler later.
The assumptions are that calls and permits are finite and that `NoCall` and
`NoPermit` are not among them.

`McpServerProofs` proves, for any messages, any number of lines, any ids and any
limits: `TypeCorrect`, `RegistryStaysExact`, `OneEraWins`, `HandshakesMayBePipelined`,
`CancellationsHitTheirTarget`, `EveryLineAnsweredOnce`, and `ServerConverses`, which is
`Spec => KeepsConversation`.  The parts of its `IInv`:

* `LoopInv`: where the loop is fixes how far the current line's request has come, and
  lines not yet read have left no trace;
* `RegistryInv`: an entry names a request that is under way, one left to a deferred
  cleanup is over; `GaugeInv`: the gauge counts the tasks that have started;
* `AnswerInv`: a line is in at most one of its task, the channel and stdout;
  `WantedInv`: a line that wants an answer has it, is under way or is in the hands of
  the loop; `DeliveredInv`: an answer once given is in the channel or on stdout;
* `ShutdownInv`: the writer outlives whoever may send to it, and the loop its tasks;
* `EraInv`: whatever was served was of the era that is pinned;
* `CancelInv`: a flag that is set was asked for by a cancellation read after the
  request, belongs to the one being cancelled now, or was set by the timeout its call
  is answered with;
* `HandshakeInv`: an `initialized` read after `initialize` finds the session past
  `uninitialized`;
* `ServingInv`: a request is decided exactly when its task says so, a call goes on
  under the session it was let in by, and the loop leaves the notification that
  completes a handshake only when the session no longer awaits it.

`WantedInv`, `DeliveredInv` and `ShutdownInv` make `AnsweredOnce` hold of the exit.  The
refinement has one lemma for each kind of step; it turns on a line being owed an
answer exactly while its task runs or the loop has it in hand, on the registry being
exact (a refused id is one whose answer is owed), and on `ServingInv`.

`SelfUpdateProofs` proves types and the safety properties for any number of updaters,
releases and attempts, `FailuresInstallNothing` among them, and `UpdatesAreAtomic`, which
is `Spec => UpdatesAtomically`.  `UpdateInv` says of each updater that what it selected
is newer than what it runs and was offered as it remembers (`Selected`), and per
stage which evidence it has, of which digest; of each helper that it exists only
after a hand-off and is working for an updater that did not fail; of the installed
file that it is its author's digest.

`FramingProofs` proves `FramedAsSent` and `KeptWithinLimit` for every limit and
every set of fills: while a line is read, `buf` is the longest prefix of it within
the limit, and `last_byte` its last byte.  `ToolAccessProofs` proves the four
properties for every registry: every known name is usable under the policy, and
the filters agree.  That the search finds a tool by its name however low the limit
is an argument on cardinalities: nothing precedes it.  `EditPreflightProofs` rests
on `SoFar`, the findings at a stop check are those of the checks before it, and
`Punctual`; `CommandPreflightProofs` on `Gathered`, the same for its stages, and on
lemmas about what a stricter configuration adds to the findings and what a list of
codes yields.  Their assumptions are those the modules state of their constants:
the inputs are records of the declared form, the registry's functions are total,
a tool that is hidden is in no profile.

**Termination.** Liveness is out of the prover's reach, but what it rests on is
safety, and that is proved. `PoolIsNeverStuck`, `ExecutionIsNeverStuck` and
`ServerIsNeverStuck` say that in every reachable state whoever holds work (a worker
its job, a closure its permit, a task its request, the loop its line, the writer its
channel) finds the guard of its next step true, or waits for something the theorem
names: a handler that runs, room that the writer is about to make, a client that
says nothing. `PoolRunsOutOfSteps`, `ExecutionRunsOutOfSteps`,
`ServerRunsOutOfSteps` and `UpdatesRunOutOfSteps` say that every step takes at least
one from a fixed number of natural numbers and adds to none: a job, a request, a
response, a retry of the helper is never gone through twice. (The removal of the
executable takes nothing, but needs one to remove, which only a step that counts
puts there.) Put together with the fairness stated above these give the liveness
properties of the runs; that last inference, which needs `ENABLED`, is the part TLC
checks.

Every invariant and every safety property of the passing runs is proved.  Only
model-checked: liveness (`EveryCallReturns`, `JobsDrain`, `EveryCallAnswered`,
`PermitsComeBack`, `EveryLineAnswered`, `ShutdownCompletes`, `UpdatesSettle`), and the
five violated claims, which are false.

## Not modelled

* **Calculator, text library, temporal**: floating point, generated Unicode tables
  and calendar arithmetic.  They keep no state and their data is beyond TLC.
  Together with their tests and tables they are most of the repository's lines,
  which is why the modelled share of it is small.
* **Response truncation, schema validation**: recursion over JSON values, whose
  result depends on serialised sizes and on strings.
* **The other tools, preflights, services**: adapters from JSON arguments to the
  text library.  The two whose verdict has rules of its own are modelled; the
  wrappers of the other four preflights are the same strict parsing.
* **Tool schemas, protocol types, machine code tables**: constants.
* **`CompositeBudgetAllocator`**: no handler uses it.  The thread-local bridges are
  set and restored within one call on one thread.
* **Metric snapshots**: read-only, and promised to nobody.  The join set of the
  loop, which keeps finished tasks until shutdown, is memory no step reads.
* **Memory ordering**: the atomics the pool shares are sequentially consistent, and
  the relaxed gauges of execution change only under a mutex.  **Tokio's own
  scheduling** is the interleaving.
* **Transport and transactions of the updater**: HTTP, the manifest format and the
  Eggup crates are outcomes.
* **CLI output, client configuration, generators, packaging, fuzz targets**.
* **Invalid UTF-8** ends the server's loop (`src/mcp/server.rs:1226`); `Framing` has
  the line, `McpServer` takes it as the end of input.

## Plan

Done: the pool, the execution path and their common contract; the server and the
conversation it keeps; the updater and its contract; framing, tool access and the two preflights; the proofs of all of them.

What could follow: the server composed with the execution path, in place of the
one state `"working"`; truncation of responses against a reference definition over
small trees; the composite budget, once a handler uses it.
