# Formal model of agent_room

agent_room lets several people share one Codex App Server: a daemon accepts
their prompts, notes, steers and cancels, feeds the prompts to the agent one at
a time, keeps a durable log of everything that happened, and sends the log to
every connected client. This directory holds TLA+ models of that program, TLC
configurations that check them on small instances, and TLAPS proofs.

Paths below are relative to the repository (`internal/room/...` is
`src/internal/room/...` in `PROJECT.json`).

## 1. Inventory

### Components, their state and operations

| Component | State it keeps | Operations |
|---|---|---|
| **Room coordinator** `internal/room/{coordinator,recovery,questions}.go` | status, thread, active prompt with state and turn, pending controls, queue; `activeFault`, `threadReady`, `readySeen`, private question | submit, note, control, `/recover` decision, question; agent events; startup `Recover` |
| **Room store** `internal/store/*.go` | SQLite rows: messages, turn bindings, room row, event log, recovery decisions, private-turn journal, connections | one transaction per operation, compare-and-set on state |
| **Agent runtime** `internal/codex/{runtime,adapter}.go` | the current session, the event channel | start/replace a session, `turn/start`, `turn/steer`, `turn/interrupt`, `thread/*`, classification of errors into *not sent* and *unknown* |
| **JSON-RPC client** `internal/codex/jsonrpc.go` | pending calls with a write phase, the write gate, notification channel, first error | call, reader loop, reverse requests, fail-all |
| **Process supervisor** `internal/codex/{supervisor,process*}.go` | the child, its mutex, the checkpoint row that names it | start, stop, reap, `ReapPrevious` |
| **Hub, sessions and replay** `internal/daemon/*.go` | one bounded buffer per subscriber; per-session cursor and fence | publish, subscribe, replay, serve, ack, close slow subscribers |
| **Live projection** `internal/room/projection.go` | revision, text of the running item | apply delta, snapshot |
| **Client** `internal/client/*.go` | durable cursor, pending submissions, projection | connect, probe, resume, render, acknowledge, resend |
| **Tasks** `internal/store/tasks.go`, `internal/network/tasks.go` | task rows with a revision, links to messages | convert, complete, reopen, attach a run |
| **Admission and roles** `internal/store/{admission,roles,members,bot}.go` | join requests, members, roles, limits | apply, approve, deny, expire, revoke, change a role |
| **Workgroup** `internal/workgroup/*.go` | plan, journal of the run, captured base events, jobs of remote workers | plan, run steps, capture, interrupt, uncertain end |
| **Local agents** `internal/dashboard/{agents,agent_health}.go` | invitation, check, the job being executed | invite, check, poll, execute, report, leave |
| **Personal resources, git push** `internal/{personal,gitpush}`, `internal/answerwindow/{personal,push}.go` | capability of the running message, requests, claims, receipts, grants | bind, ask, claim, grant, write, report, decline, invalidate |
| **Administration, service entry** `internal/admin`, `internal/cli/run.go` | lock file, thread binding | repair, reset of an unused thread, startup order |
| Network, question service, answer window, dashboard, Feishu bridge, views, resources, framing, configuration | none of their own beyond the above | transport, user interface, files |

`PROJECT.json` lists every component with its files and says which are
modelled.

### How they interact

* Clients talk to a session goroutine (`daemon/session.go`), which calls the
  coordinator. All commands and all agent events pass through **one** goroutine
  (`Coordinator.Run`), so handlers never overlap. A handler, however, is a chain
  of database transactions and agent calls: a crash, the death of the agent or a
  failing transaction can happen between any two links.
* The coordinator commits to the store first and then publishes to the hub. The
  hub never blocks: a subscriber whose buffer is full is closed and has to come
  back through replay.
* The runtime is replaced behind the coordinator's back. The coordinator learns
  of it only from `runtime-unavailable` and `runtime-ready`, which share one
  channel with the events of the dead session.
* A request carries a deadline that is shared by all links of its handler, the
  error path included: once it has passed, the transaction that would record the
  failure fails too. Event handlers have no deadline.

### What is hard

Ambiguous delivery (a `turn/start` whose answer never came), recovery from the
database and the agent's history, the order of `runtime-*` events against turn
events and the startup `Recover`, faulty turns that still run, controls bound to
a turn that is over, private questions whose turns must not leak, slow
subscribers, zombie sessions, and client restarts; early, late and missing
replies of the App Server and a reader that must not wait for itself; processes
that die between starting a child, recording it and stopping it; jobs handed to
a worker that may be gone; and writes in somebody's name whose outcome got
lost. Each is in the `hazards`
list of `PROJECT.json` with its line and the property that watches it.

### What makes each component correct

* Coordinator and store: prompts are executed in order of acceptance, one at a
  time; nothing is sent twice unless somebody decided so; the database never
  says less than memory; doubt freezes the room, and only doubt does.
* Delivery and client: no event is missed, none is shown twice except by a client
  that crashed or reconnected before its cursor was saved, acknowledgements never run ahead of the saved cursor,
  a client's submissions are accepted in its order.
* JSON-RPC: every caller gets exactly one outcome, "not sent" is true, and no
  cycle of waiting outlasts a deadline or the first error.
* Supervisor: never two App Servers on one room, no signal to a stranger.
* Workgroup: what the journal calls over is over everywhere; results go to the
  job that was executed; every run ends.
* Personal resources: written once, by the claimant, with consent, and never
  reported as completed or as refused when that is not so.
* Tasks: a task is completed from what its completer had read.

## 2. Plan

1. `RoomStore`, `AgentRuntime`, `Coordinator` - **done**: the core.
2. `WorkQueue` - **done**: the abstract promise, checked as a refinement.
3. `Delivery` - **done**: log, hub, replay and client as one composition.
4. `Rpc` - **done**: pending calls, write phases, the channels from reader to
   coordinator, and the cycle of waiting they can close.
5. `AppServer` - **done**: lock file, checkpoint, child process and
   `ReapPrevious` across crashes.
6. `RemoteWorkers` and `Workgroup` - **done**: composed; a job of a remote
   worker is led by the run of the group.
7. `Personal` and `Tasks` - **done**: composed on the same members and messages.

Theorems - **done**: for the coordinator types, one active prompt, durable
readiness, the freeze before a dispatch, threads, private turns, the refinement
of `WorkQueue`, turns per prompt, the idle backlog, proven outcomes, one turn at a
time and memory that matches the store; the safety properties of `Delivery`, `Rpc`,
`AppServer`, `Workgroup`, `Personal` and `Tasks` (section 5).

## 3. Modules and code

| Module | Models |
|---|---|
| `RoomStore` | every transaction of the store the coordinator uses; one operator per transaction, its guard the `WHERE` clause |
| `AgentRuntime` | (extends `RoomStore`) sessions, threads, turns, outcomes of calls, the event channel |
| `Coordinator` | (extends `AgentRuntime`) the handlers link by link, crash, exit, startup, offline repair; properties |
| `WorkQueue` | what a room promises: accepted work goes out in order, one item at a time, and stops on doubt |
| `MCCoordinator` | the instance TLC checks |
| `CoordinatorProofs`, `CoordinatorSafety`, `CoordinatorTurns` | theorems about the room |
| `DeliveryProofs`, `RpcProofs`, `AppServerProofs`, `ProjectProofs`, `WorkgroupProofs` | theorems about `Delivery`, `Rpc`, `AppServer`, `Personal` with `Tasks`, and `Workgroup` with `RemoteWorkers` |
| `Delivery`, `MCDelivery` | event log, hub, sessions, replay, client; their instance |
| `Rpc`, `MCRpc` | one JSON-RPC session: callers, writer gate, reader, handler of reverse requests, App Server |
| `AppServer`, `MCAppServer` | operating-system processes (daemons and repairs), the runtime's owner goroutine, the child and its reaper, the kernel |
| `RemoteWorkers` | the broker of remote jobs and the loop of one invited agent |
| `Workgroup`, `MCWorkgroup` | (extends `RemoteWorkers`) plan, run, journal, the Codex session under a run; plans, and the order of steps against its definition |
| `Personal` | admission and roles, turns, broker, commands of the model, windows, their ledgers |
| `Tasks`, `MCProject` | (extends `Personal`) the task board; the stories TLC checks |

**State.** `status`, `threadID`, `active*`, `pending`, `queue` are the fields of
`coordinatorState`; `fault`, `threadReady`, `readySeen`, `question*` the other
fields of `Coordinator`. `mstate`, `mturn`, `mseq` are the rows of `messages`
and `turn_bindings`; `dbStatus`, `dbThread` the row of `rooms`. `call` is the
goroutine's control state: `call.pc` is the next link of the handler,
`call.origin` who started it (a client command, the startup, an event, or
`runtime-ready`, which differ in deadline and in what an error does),
`call.expired` says the deadline has passed.

**Actions.** One action per link. `DispatchNext`, `StartTurn`, `BindTurn`,
`FailTurn`, `ReviewTurn`, `ReviewStatus` together are `dispatchNext`; `Recover*`
through `Recovered` are `recover`; and so on. Each action has the success and
the failure of its transaction or call as disjuncts. A failure is either a
transaction that fails by itself (`MaxStoreFailures`) or one whose deadline has
passed. Reads that only produce a reply are left out.

An owner's repair, `repair` of `internal/admin/repair.go`, runs with the daemon
down and in steps of its own: `RepairMark`, `RepairCreate` (`thread/start`, which
can fail, or create a thread whose reply is lost) and `RepairBind`
(`RepairThread`, or nothing). It can stop between any two of them and leave a
thread bound to nothing; `repairs` counts attempts, not successes.

**Data.** A message is its client id; bodies, actors, digests and times are
abstracted. Duplicated requests are no steps: `AcceptMessage` of a known id
changes nothing. Turns and threads are numbers in order of creation, and each
turn has at most one item.

**Delivery.** `log` is `room_events` with the sequence number as index; `busy` is
the event a handler has committed and not yet published (sessions read the log
directly, so they can see it first); `conn` has one record per connection: the
session's phase, its hub buffer, the replay's `last`, `high` and `fence`, the
request it waits for, and both directions of the wire. `gone` marks a connection
its client has given up while the daemon still serves it. A freed record is
reused, so only the number of simultaneous connections is bounded. The client's
fields are those of `Cursor`, `projection` and `session`. Between showing an event
and saving the cursor the client asks for agents and queue; when its outbound
queue is full there, it reconnects with the old cursor (`QueueFull`). The length
of that queue (128) is not modelled: `QueueFull` may happen whenever the client is
ready, up to `MaxOverflows` times. A full queue anywhere else is one of the ways to
lose a connection. `times`, `entered`
and `excused` are history variables for the properties. One client is modelled;
others act on it only through the events they cause (`RoomEvent`). A hub buffer
is bounded by its number of events; its limit in bytes, which closes a
subscriber in the same way, is left out, as are a room that changes behind its
address and requests that change nothing.

**Rpc.** `at` is where a call stands in `RPCClient.Call`; `phase`, `held` and `box`
are its `pendingCall`: the write phase, a reply that came during the write, and
the one-place response channel. `gate` is the writer's channel of one. `wrote` is
how much of the line was written (0, 1 some, 2 all). `events` counts what waits
in the chain of channels between reader and coordinator (`ChainCap`: their
places together); `CoordCalls` are the calls the coordinator makes itself, during
which it takes no event, `Deadlines` those whose context ends. `sends` and
`reached` are history variables.

**AppServer.** `main` and `own` are the main goroutine and the owner goroutine
(`Runtime.Start`, then `Runtime.run`) of a process; `stop` is the stage of
`stopOwnedChild`. The look at the child and the signal are two steps, under the
child's mutex as in `signalOrReap`. A process that dies goes through `dying`: the
kernel has released its file lock, its pid still exists, and its child is
signalled when the pid goes (`Vanish`). A failed save of the checkpoint is
tried again after a sleep (`retry`), which the end of the runtime interrupts. `lost` are the servers that could
neither be recorded nor stopped; the properties except them by name.

**Workgroup.** `pc` and `at` are where `execute` stands, `saved` and `shown` the
items in the journal and those emitted to the room. `capture` has one channel per
run, because `forward` looks the channel up before it sends and may hold on to
one of a run that is over. `RemoteWorkers` splits a request of the agent's loop
into its handling at the broker and the arrival of the reply; in between the
broker may give up, assign or be restarted. Of a snapshot and of a returned copy
only success and failure are kept.

**Personal and Tasks.** A capability is named by its message and how often the
message was taken, because the code draws a new random one at every `Bind`. A
request id is a digest of message and contents, so a retried message asks for
the same request. `wrote`, `handed` and `consent` are history variables. Windows
have generations: a window that died is another client instance, with no grant,
and with the same ledger on disk. A commit checks, reserves its receipt and
starts `git update-ref` (`CommitStarts`); the branch moves in a process of its own
(`git`, `GitMoves`), whatever happens to the turn or the host meanwhile, and
`CommitEnds` waits for it or has killed it. A request of a window is authenticated in one
step and served in the next, so that a revocation can come in between. The
states of messages are set by the room; here they change as the coordinator lets
them (one running at a time).

**External.** The App Server is not in the repository. `AgentRuntime` lets it do
what the code is prepared for: finish turns in any way in `Endings`, die, lose
or keep the history of a turn that died with it (`Fates`), refuse, lose or delay
any call, and send faults.

## 4. Runs

The constants of a run say which behaviour it concentrates on; all actions fire
in some passing run. `CHECK_DEADLOCK FALSE` is set because the bounds (turns,
crashes, messages) let every instance come to rest.

| Run | Instance | Shows |
|---|---|---|
| `room_review` | 2 prompts and a replacement, 1 control, 1 `/recover` decision, 3 turns, one each of glitch, fault, crash | `SingleActive`, `DispatchFrozen`, `NoResend`, `OneTurnAtATime`, `MemoryMatchesStore`, `ImplementsWorkQueue` |
| `room_threads` | 1 prompt, 1 note, 1 private question, 2 threads, one each of glitch, death, crash, store failure, repair | `ReadyIsDurable`, `PrivateHidden`, `QuestionsSettled`, `NoSilentThread`, `OutcomeIsProven` |
| `room_live` | 2 prompts, death, fault, crash, `FairSpec` | `NoIdleBacklog`, `EverySubmitSettles` |
| `delivery_events` | 2 events of others, 2 revisions, buffer of 1, pages of 1, one full outbound queue, a crash of daemon and of client | `NoGap`, `ShownOnce`, `AckedIsSaved`, `DeltasContiguous` |
| `delivery_submit` | 2 submissions, a failing request, a break, a repetition by the author | `SubmitOrder`, `NothingForgotten` |
| `delivery_live` | 1 submission, 1 event, break, full outbound queue, daemon crash, `FairSpec` | `EventuallyShown`, `EventuallyAnswered` |
| `rpc` | 2 calls, one of the coordinator without a deadline, one with, a reverse request, chain of 1, 2 notifications, a fault | `AnsweredOnce`, `NotSentIsTrue`, `SuccessIsEarned`, `CallsReturn`, `TerminalConverges` |
| `appserver` | a daemon and a repair, 2 App Servers, 2 faults, a crash | `OneServer`, `CheckpointNamesServer`, `NoStraySignal`, `SessionReturns`, `ShutdownEnds` |
| `workgroup` | 2 runs of 2 steps by Codex, a local and a remote member, one mishap | `TerminalMeansQuiet`, `ShownIsJournalled`, `DependencyOrder`, `HandoverIsExact`, `RunEnds` |
| `project` | eight casts of up to 3 persons, 2 messages, 2 requests, 2 windows, 1 task, one mishap | `WrittenOnce`, `ReportIsTrue`, `TaskDone`, `OwnAuthority` |
| `room_queued_while_down` | 2 prompts, one death, one crash | finding, see below |
| `room_repair_freeze` | 1 prompt, 2 deaths, one glitch, one crash | finding, see below |

**Why the bounds are enough.** Two prompts are the least that show order and
overlap; a third would only lengthen the queue, on which every handler acts at
the head or by reloading all of it. `room_review` looks at doubt and decisions,
`room_threads` at failing transactions, private questions and the thread's own
fate; one failure of each kind, in any order and at any link, covers the pairs of
failures of different kinds, which is where the error paths meet.
`OneTurnAtATime` and `MemoryMatchesStore` name the exceptions a decision makes of
them. Their first versions held on these instances and failed in the proof: a
decision about the owner of a turn can be taken after the death of a session as
well as after a glitch, and a decision about a control that memory has not read
needs a fault that came while the decision was carried out. `room_review` has the
glitch, the fault and the decision; the death is left to the theorem, and so is a
failing transaction for `SingleActive` and `MemoryMatchesStore` (with one more,
`room_review` does not finish), and the part of controls in `NoIdleBacklog`. `EventBound`
of 1 or 2 lets an old session's event stand before or behind a `runtime-*` event.

In the `delivery_*` runs two connections are one live and one abandoned; a
buffer of one makes overflow happen at once; pages of one put a page boundary
between any two events. The safety runs treat connections as
interchangeable (`ConnSymmetry`); the liveness run does not.

In `rpc` a chain of one place is full after one notification, which closes the
cycle of waiting; two calls are the least that contend for the gate and for
`failAll`. In `appserver` two servers are the least that can overlap, and two
processes the least that meet at the lock; three faults of one kind repeat the
same branch. In `workgroup` the plans are written with the dependent step first,
so that the order is really computed, and the second run meets what the first
left behind. `MCWorkgroup` also compares the order with its definition on all
64 irreflexive dependency relations of three steps (`PlanOrderSound`). Each cast of
`project` (`MCProject`) brings together two sides that can go wrong - two windows
of a member, a commit run twice, turns of two senders, a retried message, two
members at the task board, members that come and go; the instance with
everything at once is too large and adds only independent interleavings.

**Fairness** (`rpc`). Goroutines go on, deadlines pass, and the App Server
answers what it has read. Nobody must call, notify or cancel. `CallsReturn` says
what is left: a call of the coordinator without a deadline, with the reader
behind a full chain, returns only when the session ends.

**Fairness** (`appserver`). Processes that execute go on, and the kernel reaps,
signals and removes what has ended. No child is assumed to exit when its input
is closed, and no fault, such as the limit of the cleanup, is ever relied on.

**Fairness** (`workgroup`). `execute`, `Run` and the step's deadline; nothing is
assumed of the App Server, the connection, the worker, or `forward`.

**Fairness** (`delivery_live`). Sessions, coordinator and client loops go on when
they can, each branch of the session's `select` included (Go chooses among ready
branches at random), and a client that lost its connection dials again.

**Fairness** (`room_live`). The goroutine continues a handler it began and takes
an event that is there; `Runtime.run` keeps starting sessions; the service
manager restarts a daemon that exited; every turn ends. Nothing is assumed of
clients, faults, deaths or crashes. A late reply ends its session, so
`late /\ SessionDies` is fair. `MaxGlitches = 0` here on purpose: `recover` runs
once per `runtime-ready`, and if one of its calls fails while the session stays
alive, nothing in the code tries again until the next replacement. That is a
limit of the code, listed as a hazard, and not a fairness assumption.

### Findings

* `QueuedWhileDown` - the design says messages remain queued while the App
  Server is being recovered. A prompt submitted after its death and before
  `runtime-unavailable` is handled is dispatched to no session and *failed*.
* `RepairOnlyOffline` - the design says dispatch stays frozen in
  `thread-needs-repair` until an offline repair. A later `runtime-unavailable`
  overwrites the durable status with `recovering`, and after a restart recovery
  goes on with the bound thread.

## 5. Proofs

All theorems hold for all values of the constants that satisfy the named
assumption of their module, which TLC evaluates in the runs. Each inductive
invariant was checked with TLC on the instance of its run before it was proved.

**The room** (`StoreAssumption`, `AgentAssumption`, `CoordinatorAssumption`:
finiteness of the set of prompts, natural bounds, disjoint kinds of ids).

* `CoordinatorProofs!TypeCorrect`: `Spec => []TypeOK`. Types are proved, here and
  for the other modules, and no run repeats them. `TypeOK` contains what a
  handler relies on at each link (`HandlerTypeOK`): the queue is not empty
  between `BeginDispatch` and the dequeue, an outcome is present where a control
  is finished, a turn where it is bound. It is inductive as it stands. The
  lemmas before it give the type of every transaction and every agent step once.
* `CoordinatorSafety!SingleActiveAlways`. Not
  inductive: `BeginDispatch` is guarded by memory (`active = NoMsg`), so memory
  must be known to cover the store. `ActiveInv` adds: once recovery has loaded
  (`Loaded`), every live prompt of the store is the one in `active`. Before the
  load the coordinator begins no dispatch, because it is not `ready`.
* `CoordinatorSafety!ReadyIsDurableAlways`, via
  `DurableInv`, which also follows the status through the links at which the
  database and memory are set one after the other.
* `CoordinatorSafety!DispatchFrozenAlways`. The guard of `dispatchNext` is about
  fields, the property about rows. `ImageInv` says that a loaded memory names the
  bound thread and holds every control that is in doubt in the database.
* `CoordinatorSafety!NoSilentThreadAlways`. The property allows one thread for each
  attempt of the owner, whether it succeeded or not. `recover` creates a thread when
  none is bound, so `ThreadInv` keeps account: an unbound room that says `ready`, or is
  about to create a thread, has one to its credit; the row leaves `ready` before
  the call, and nothing but the binding brings it back.
* `CoordinatorSafety!PrivateHiddenAlways`, by three invariants: `NamedTurns` (what
  rows and fields name are turns of prompts), `HistoryInv` (what `recover` was
  told is the history of the room's thread, all of it) and `JournalInv` (the
  frontier is there before the private turn and stays until the turn is hidden).
* `CoordinatorSafety!WorkQueueImplemented`, the refinement. A transaction maps to a
  step of `WorkQueue` or a stutter by itself, except `BeginDispatch`: the prompt
  must be the oldest queued row, and the code takes the head of a queue in
  memory. `QueueInv` says why that is the same: numbers grow with acceptance
  (`Numbered`), the queue is in their order (`Sorted`), and every queued row is
  in it (`CoverInv`) unless a decision has just moved a row that memory still
  holds (`StaleActive`, `StaleControl`), and then `dispatchNext` finds that prompt
  or control and waits for the rows to be read again.
* `CoordinatorSafety!NoResendAlways`. `ResendInv` counts: a prompt that is queued
  or about to be sent has used one turn less than it may. It needs `QueueInv`:
  the prompt that is sent is the one whose row says `dispatching`.
* `CoordinatorSafety!NoIdleBacklogAlways`. The property is about the end of a
  handler; `BacklogInv` states it for every link: where nothing is under way and
  the queue is not empty, the handler still has to look at the queue.
* `CoordinatorTurns!OutcomeIsProvenAlways`. The argument follows a turn from the
  App Server to the stored outcome. What is said of an ended turn is true, on the
  event channel (`AgentInv`) and in the history `recover` reads (`ToldInv`); the
  active prompt in memory is the row in progress (`RowInv`); an open frontier
  keeps prompts out, so `recover` never takes the turn of a prompt for a private
  one and hides its output (`FrontierInv`, `HideInv`); a turn that may still be
  heard of is the active one (`BoundInv`); and its item is in the log or comes
  before its end (`ItemInv`). `EndInv` is the property, with the turn over.
* `CoordinatorTurns!QuestionsSettledAlways`. A dispatch needs a coordinator that is
  `ready` and asks nothing; `PrivateInv` (of `PrivateHidden`) and `OutcomeInv` say
  that a question's turn on the bound thread is then hidden or lost.
* `CoordinatorTurns!OneTurnAtATimeAlways`. It needs the reason why no second turn
  starts. A turn that runs is one of the bound thread, hidden to nobody, and
  recovery has seen it running (`TurnInv`); its prompt is the live one or was
  decided on (`OwnerInv`); and as long as no call has failed and no process died,
  the coordinator knows the one turn that runs, and nothing runs at the links of
  recovery, of a decision and of a dispatch (`CalmInv`).
* `CoordinatorTurns!MemoryMatchesStoreAlways`. The invariant speaks of the end of a
  handler and most of it is lost while the room is frozen, so it is rebuilt from
  four parts. A ready room holds a prompt whose row is live, and while that prompt
  is being sent it stays at the head of the queue (`HeldInv`). Behind it the queue
  holds queued rows only (`SoundInv`); that none is missing and the order is that
  of acceptance comes from the proof of `NoIdleBacklog`. The coordinator knows of a
  fault only if there was one (`FaultInv`). And the controls in memory are the
  stored ones as long as nobody has decided about a control, or no fault let the
  room become ready without reading the rows (`ExactInv`); where both happen memory
  can be stale, which is the exception the property names (`DecisionUnread`).

**Delivery** (`DeliveryAssumption`: positive sizes of buffer and page, natural
bounds), any number of connections, events, submissions, revisions, losses and
crashes.

* `FlowAlways` is the inductive invariant. `LinksInv` bounds what every
  connection carries, also those that both sides have given up; `OwnInv` and
  `CursorInv` tie the client's phase and cursor to its own one; `StreamInv` says
  that frames in flight, pages still to come and the subscriber's buffer together
  hold every event not yet shown, each after the ones before it; `DeltaInv` the
  same for the changes of the projection behind the snapshot's fence.
  `AckedIsSavedAlways` and the action property `DeltasContiguousAlways` follow.
* `NoGapAlways` and `ShownOnceAlways` add `TimesInv`, which counts how often each
  event was shown, with one showing more for each client crash and each full
  outbound queue.
* `NothingForgottenAlways` adds `AnswerInv`: an answer in flight, on any
  connection, is about a submission that is in the log or refused, so a late
  answer removes from the client's list only what is settled.
* `SubmitOrderAlways` adds `OrderInv`: what was typed before a submission and is
  still open comes before it in the client's list and on every connection that
  is served, abandoned ones included, and nothing in the log has overtaken it.
* `DeliveryTypeCorrect`: types, and no channel beyond its capacity.

**The JSON-RPC client** (`RpcAssumption`), any number of calls, notifications
and faults. `RpcInv` says of each call that it has its entry in `pending` or its
answer in the channel (`OneAnswer`), what the bytes written mean for the App
Server (`BytesAreTrue`), and that channel and result agree with them
(`AnswerIsTrue`). It gives `AnsweredOnceAlways`, `NotSentIsTrueAlways`,
`SuccessIsEarnedAlways`, and `AnswerIsThereAlways`: the three places that
receive without looking at a context find the answer in the channel. That the
entry *or* the answer is there is what none of the properties says by itself.

**The supervisor** (`AppServerAssumption`), any number of processes, servers,
faults and crashes. `SupervisorInv` says who may own what at each stage of
start, record, stop and reap; its part `HiddenInv`, that a working server the
checkpoint does not name is the unrecorded child of the process the lock file
names, is what `OneServerAlways` and `CheckpointNamesServerAlways` rest on.
`NoStraySignalAlways` needs that the mutex of the child is held from the look
to the signal.

**Personal resources and tasks** (`PersonalAssumption`, `TasksAssumption`), any
cast of members, windows, messages, requests and tasks. `WriteInv` follows a
request through claim, window, ledger and receipt file: a window that may still
write has the claim and no entry that says more, in this and in every earlier
generation. From it follow `WrittenOnceAlways`, `ReportIsTrueAlways` (of the answers
"completed" and "refused" only) and the action property `OwnAuthorityAlways`. Its
clause on commits is about the start of git, under the capability of that moment:
what git does after a revocation is out of the code's hands (section 6). `BoardInv` adds that a reading at the
task's revision is a reading of all its runs, hence `TaskDoneAlways`.

**The workgroup** (`WorkgroupAssumption`: plans are sequences of steps, no job is
called `NoJob`), any plans, runs, steps, places of the capture channel and
mishaps.

* `ShownIsJournalledAlways`, and `DependencyOrderAlways` by `StepInv`: the order
  of the run is sound and the results before the current step are saved. That
  `Order(p)` is sound for every accepted plan (`OrderSound`) is an induction on
  the length of the plan. The library's induction theorems take an operator and
  cannot be used; `SetInduction` states induction for sets of numbers and is
  derived from well-foundedness.
* `HandoverIsExactAlways` by `HandInv`: a worker that checks itself is not
  available, a result in the channel is one of a job that is marked received.
* `TerminalMeansQuietAlways` by `WorkInv`, which needs all parts: `LinkInv` (the
  broker has a job exactly while `Run` waits for the current step), `TurnInv`
  (the turn of the active run is waited for or in doubt, and its end is in
  exactly one of session, hand and channel, so that an old end is never taken
  for that of the next step), `KnownInv` (a job that is still named belongs to
  an earlier step, so a new one is new; uses that an order has no step twice)
  and `LiveInv` (a live job of the active run is led by `Run`, or the outcome is
  unknown, and then the journal keeps the run running).
* `WorkgroupTypeCorrect`: types of both modules.

**Only model-checked.** Liveness under fairness and anything with `ENABLED` are
outside the prover's reach: `EverySubmitSettles`, `EventuallyShown`,
`EventuallyAnswered`, `CallsReturn`, `TerminalConverges`, `SessionReturns`,
`ShutdownEnds`, `RunEnds`. Every invariant that a passing run checks is also proved.
No module that is proved about uses a `RECURSIVE` operator.

## 6. Not modelled

* Contents: what a commit, a document, a snapshot of the project or a returned
  copy holds, and the checks of paths and sizes on them (a refusal here).
* Loss of base events: events left in the capture channel of a group run are
  dropped at its end. The model does it as the code does; no property forbids it.
* A refusal that races with a grant: a window looks whether it is busy, then
  sends the refusal; work granted in between may have written already. The model
  has both steps; what is then told to the model is "declined", not "completed".
* Stopping git. `invalidateLocked` cancels the context of a commit and does not
  wait; a `git update-ref` that runs is killed, and may be faster, and it outlives a
  host that dies. A commit can therefore appear after the capability it was
  started under is gone. The model has this behaviour, and `OwnAuthority` claims no
  more than that no git is started without the capability.
* The length of the client's write queue, and the hub's limit in bytes.
* Framing and validation (stateless), TLS and listing, web pages, history and
  drafts, the Feishu adapter, read-only views, configuration and logging: they
  keep no state of the room, and their failures are the lost or repeated
  requests that the modelled parts already meet.
