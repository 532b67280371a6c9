# Verification of the Autohand CLI

The repository is a terminal coding agent in TypeScript. Most of its 2292 files are front
ends, adapters to models and services, and data conversion. What this project verifies is
the part where several *processes* act on shared state: sessions that coordinate through
files, commands whose process trees outlive the session that started them, agents that send
each other messages, teammate processes that a lead directs over pipes, and agent runs that the
user's hooks observe and control.

Contents: [inventory](#inventory) · [modules](#modules) · [runs](#runs) ·
[bounds](#bounds) · [fairness](#fairness) · [proofs](#proofs) · [findings](#findings) · [divergences](#divergences-met-while-modelling) ·
[only model-checked](#only-model-checked) · [not modelled](#not-modelled) · [plan](#plan)

## Inventory

Paths are relative to the repository.

| component | state it keeps | operations | what is hard | what makes it correct |
|---|---|---|---|---|
| **Resource store** `src/session/peers/ResourceCoordinator.ts` | one JSON record per resource (policy, epoch, tickets, holder, blockers, journal) and `launches.json` | `status`, `request`, `grant`, `release`, `cancel_request`, `set_controller`, `beforeSpawn`, `recordSpawn`, `complete`, `confirmSpawnFailure`, `beginLaunch`, `publishLaunch`, `finishLaunch`, `endRun`, `adoptRunning` | every process reads and writes it; expiry, crashes, policies that change while commands wait | one holder at a time; a started command keeps its resource until its tree is gone; holder and ticket agree |
| **Command gate** `src/session/peers/CommandCoordinationGate.ts` | per command: claims, reservations, publication and drain progress | survey, claim, wait, arm, admit, spawn, publish, drain, and the undo of each | 5 to 10 separate store transactions per command, any of which can fail or lose its reply | no ungoverned command, no leak on any exit, no hang before the spawn |
| **Process identity** `src/session/peers/PeerProcessIdentity.ts` | none | capture, probe | process group IDs are reused | "gone" is answered only when the tree is gone |
| **Peer runtime** `src/core/agent/AgentPeerRuntime.ts` | runs hosted by a session | bind, close | runs end while their commands are being prepared | nothing unused survives, nothing started is freed |
| **Peer messaging** `PeerMessageStore.ts`, `PeerMessaging.ts` | inbox, outbox, receipts, events, contexts in a locked file; chains of sends per route | accept, send, consume, reply, end recipient, prune | retries after lost replies, receipts out of order, two-phase consumption | at most one copy, receipts only advance, no message lost between read and context |
| **Transport, directory, presence** `LocalPeerTransport.ts`, `PeerDirectory.ts`, `ActiveAgentRegistry.ts` | sockets, heartbeat files | connect, request, list, resolve | stale endpoints | requests answered once |
| **File lock** `src/utils/atomicFile.ts` | lock directory, owner file, `.reaper` lock | acquire, release, reap | stale locks of dead processes, reapers racing | mutual exclusion |
| **Teams** `src/core/teams` | tasks, members, runs, leases | assign, complete, cancel, fail, shut down | results arriving after a cancellation or reassignment | a result counts for the run that produced it |
| **Agent runs** `src/core/agents` | run list, lifecycle queues, thread budget | start, progress, cancel, stop | hooks answer late, leases and timeouts race | events in order, budget never exceeded |
| **Goals, decisions, repeating jobs** `src/goals`, `src/decisions`, `src/core/RepeatManager.ts` | queues and snapshots under a lock | add, advance, dispatch | state re-read after an await | no step on stale state |
| Sessions, hooks, permissions, MCP, sync, mobile, UI, providers, … | files, settings, connections | | I/O | see *not modelled* |

How they interact. A shell command of the agent runs inside a coordination context; the
gate calls the coordinator of the run, directly or, in a teammate process, through the RPC
of `TeammatePeerBridge.ts`, whose reply can be lost. All coordinators of a machine share one
directory: each operation is a transaction under the file lock of one resource, and policy
installation, admission and the launch ledger are serialised by `namespace.lock`. A grant is
given by another session's controller; the waiting gate learns of it by reading the record.
Ending a run calls `endRun` and then `close` on its coordinator. Messages and requests of two sessions
meet in the recipient's process (`peer.send` over a local socket); each end keeps its own state file, so the
only thing they share is what was sent. A lead talks to its teammates through their standard input
and output, one JSON line per message, and learns of their end by the `exit` event. A worker, in the process or
in a teammate's, waits at the gates of its loop for the hooks of its own events, and those hooks may message or stop it. All metadata files of
all these parts are written under the lock of `atomicFile.ts`.

## Modules

| module | models | notes |
|---|---|---|
| `ResourceState` | the record of one resource and the pure edits the operations make to it | a transaction is an operator from the record read to the record written |
| `ResourceCoordinator` | the shared store, the tool calls, the end of runs, the clock and the process table | one action per operation |
| `CommandGate` | the gate's steps and error paths over that store; the whole system's `Next` | the composition: gates, tool calls, endings, crashes |
| `ExclusiveSlot` | what coordination promises: slots with one occupant, freed only when it cannot run any more | the abstract specification; `CommandGate` implements it |
| `FileLock` | the lock directory, its owner files and its reaper lock, one file operation per step | what the store transactions above and below run under |
| `Mutex` | what a lock promises its callers | the abstract specification; `FileLock` implements it while `sound` |
| `PeerMessageStore` | outbox, inbox, receipts and consumers of one route, one transaction per operator | |
| `PeerMessaging` | the sender's chains, the network, the recipient's admission and consumption, the end of its run | the composition of both ends |
| `Mailbox` | what messaging promises on a route: once each, in the order of submission | the abstract specification; `PeerMessaging` implements it |
| `TeamLead` | what the lead keeps (tasks, runs, leases) and the calls its handlers are built from, as functions of its state | |
| `Team` | the lead's handlers and tools, the teammate processes, the four pipes of two teammates, exits | the composition |
| `AgentRun` | one run: its record and messages, the queue of its lifecycle hooks, the worker's loop, in process or behind two pipes | the composition of store, handler, worker and lead |
| `EventFeed` | what the hooks of a run are promised: one at a time, in order, no event left out but superseded progress | the abstract specification; `AgentRun` implements it |
| `MCCommandGate`, `MCFileLock`, `MCPeerMessaging`, `MCTeam`, `MCAgentRun` | small instances | |
| `CommandGateProofs`, `GatePolicyProofs` | lemmas about the edits of one record and theorems about the gate; those about policies, the slots and what a launch leaves behind | the second extends the first |
| `PeerMessagingProofs`, `FileLockProofs` | theorems about a route and about the lock | |
| `LineProofs` | lemmas about lines in pipes, and about sequences put end to end | no system of its own; the next two rows use it |
| `TeamProofs`, `TeamRunProofs` | theorems about types and threads of a team; those about its tasks and runs | the second extends the first |
| `AgentRunProofs` | theorems about one run of an agent | |

### Coordination

State. `res[r]` is `<sha256(resource)>.json`: tickets are a function from ticket IDs with
state `absent` for a missing one, `holder` is a record whose state `none` is the code's `null`,
`blockers` and `enrolled` are sets. `ledger[l]` is the entry of launch `l` in `launches.json`,
`published` once it records a process. `proc[l]` is the process tree the launch spawned, `status[p]` the
life of a principal's coordinator, `swept[p]` how far its `endRun` has come. `pc`, `need`,
`left`, `claim` and `seen` are the local variables of `prepareCommandCoordination` and of
`CoordinatedCommandLaunch`: the phase, the requirements found, the resources the phase has
still to visit, `allocated`, and the epochs in `tickets`.

Abstractions, and why they keep the control:

- *One transaction, one step.* Every operation runs under the file lock of its resource and
  writes the record once by an atomic rename, or throws and writes nothing. `FileLock` says when
  that lock is exclusive.
- *The namespace lock.* `set_controller`, `beginLaunch`, `publishLaunch` and `finishLaunch`
  exclude each other, so the several resource transactions inside `beginLaunch` and
  `finishLaunch` are one step. Other calls can come between them, but none of them moves what
  the step reads: only the launch itself leaves the state `starting`. `finishLaunch` may stop
  after any number of resources when a store call fails.
- *Aged tickets* are a flag that `DayPasses` sets; *expiry* is the flag `lapsed`. Both may take effect at
  any moment, because the code reads the clock inside each transaction.
- *A reservation ID* is known to the gate that armed it only, so the record's `spawner` is the
  launch it was returned to.
- *`isBuildCommand`* is the constant set `BuildLaunches`; its string matching is left out.
- *Digests, reasons, epochs passed by a tool call and request IDs reused by a caller* only make calls
  throw, and a call that throws changes nothing.
- *Lost calls.* With `"loss"` in `Faults` a store call of a gate can fail before it takes
  effect, or take effect and lose its reply.
- *The order of an undo.* `Promise.allSettled` starts all confirmations at once: the model
  visits them in any order.

Reading a record whose file is corrupt (`RECOVERY_REQUIRED`), the size limits of the files and
Windows, where the gate refuses, are left out.

### File lock

State. `exists`, `content` and `aged` are the two directories (`<file>.lock` and its `.reaper`), the
owner file of each process in them, and whether the directory's modification time is older than
the stale time. `pc`, `at`, `mode` and `flag` say where a process stands in `acquireFileLock` and the
functions it calls, on which of the two paths, and in which of the three uses of a snapshot; `todo`, `seen` and `old`
are the snapshot. The steps are file operations because the protocol has no other atomicity: the
owner file exists before it is written, `unlink` and `rmdir` of a release are two steps, and so are a
reaper's re-read of an owner file and its removal. A crash stops a process between any two steps and leaves
its files; a restart is another process.

`sound` is a condition, not an assumption: exclusion is claimed until one of three events
happens, each of which the code admits, and `hazards` counts them. They are described under
[divergences](#divergences-met-while-modelling). Left out: lock files of the old format, `EPERM` and I/O errors, and a
process ID that the system reuses for another live process (its lock then looks alive
and is never reaped).

### Peer messaging

State. `outbox`, `sent` and `inbox`, `got`, `token` are the two ends' state files: messages in order
of entry, their receipts, and the consumer tied to a message. Each chain has the local variables
of `submit` and `transmit`, each consumer those of `consume`. `calls`, `answer` and `notes` are the
network: requests, answers and receipt notifications, which may be lost, late or overtaken.

Abstractions. Authorisation, scope, rate limits and the automatic budget are one answer, `refused`,
that can come at any time to a message that is not in the inbox yet. The sender's listing of its
pending messages and its first request are one step. A state `unknown` at the sender counts as
`pending`: it is handled alike. Expiry happens inside a transaction, as in the code. The receiver's `accept` is a
transaction of its own that follows the admission checks, because the code awaits in between.

### Teams

State. `lead` is one record with the maps of `TeamManager` and `TaskManager`; the operators of `TeamLead` are
functions on it, so that a handler that calls three of them is written as their
composition and is one step, as it is in the single-threaded code. The loops of the code over tasks and members
are written in closed form: `Settle` ends a set of tasks at once, and `Handout` is the matching that
`tryAssignIdleTeammate` arrives at: in each workspace the i-th available task for the i-th idle member. `up[n]` and `lead.sent[n]` are the
pipes. `proc[n] = "exited"` means that the process is gone and the lead has not been told.

`lead.root[t]` and `lead.home[n]` are the workspaces in which a task was created and a teammate spawned; `lead.deps[t]` is a
task's `blockedBy`. `byHand` and `passedOver` are history variables, read by properties only: the tasks that the lead put in progress itself
with `task_update` and that were not handed out since, and those that such an update made ready and no handler has looked at since.

Abstractions. The dependencies a task is created with (`Deps`) and those `task_update` may give it (`NewDeps`) are
constants. A change of workspace is one step: no child thread runs while it lasts, and no other tool call of the lead comes between. The names of tasks,
messages between teammates, tool authorisation, peer hosts and hooks do not touch the state above.
An attempt at a task is the pair of its task and a number, for the random run ID. A failed
spawn is left out: it changes nothing.

### Agent runs

State. `status`, `cancel` and `outcome` are the run's entry in `AgentRunStore`; `tasks` its `lifecycleTasks`;
`queue` the handler's queue, whose head is being executed and whose entries remember all events they stand for,
and `stage` how far `execute` has come with the head. `pc` is the place in the loop of `SubAgent.runTask`: the
`await`s of `onProgress` are gates, a model call and a tool call are steps. `waits` are the promises
of `waitForLifecycle` that are not resolved yet, taken by the worker of a `delegate`, or by the lead for
a `team` worker, whose questions and answers are lines in `toLead` and `toMate`. `vetoed` is a history variable.

Abstractions. An event gets to the handler a microtask after it was emitted; here it does in the step that emits it.
Of the context that several hooks return for one event, one is sent. A tool call has one result. `message.length`,
matching of hooks and their processes are left out; hooks that fail are hooks that say nothing. What a
`task_update` of the lead asks for instead of a cancellation is in `Team`. Nested runs, squad records and the
removal of old runs are left out.

## Runs

| run | question | states |
|---|---|---|
| `gate` | Two sessions, one resource, two policies, tool calls by hand, no faults. Records are well typed, grants follow blockers, every exit cleans up, nothing deadlocks. | 185 k |
| `faults` | The same commands with crashes, lost calls and replies, and reused group IDs. Resources held until the tree is gone, no ungoverned command, and the refinement of `ExclusiveSlot`. | 306 k |
| `ending` | A session and the run it hosts end in order, with failing calls, day-old tickets and adopted commands: holders and tickets agree, started commands keep their resources, closed tickets stay closed. | 1.14 M |
| `two` | Two commands that both need two resources, with crashes and lost calls: capacity one; no circular wait; a policy reaches one resource before the other. | 381 k |
| `live` | Liveness: capacity comes back. | 22 k |
| `lock` | Three processes and up to two deaths, file operation by file operation: exclusion, one reaper, the refinement of `Mutex`, and progress past whatever the dead left. | 89 k |
| `mail` | One message with every fault: sent twice, received late, read by two contexts, expired, answered, its run ended. | 116 k |
| `route` | Two messages under two spellings of one recipient, with lost and late requests: the refinement of `Mailbox`. | 647 k |
| `team` | A lead, two teammates and two dependent tasks in two workspaces, with cancellations, status and dependency changes, a shutdown, a change of workspace, nested threads and deaths. | 288 k |
| `agentrun` | One run of a delegate, one of a team worker, with hooks that inform and stop it, a user who messages and cancels, timeouts: hooks in order, obeyed, and never in a deadlock with the run they control. | 212 k |
| `ended`, `torn` | Expected violations, see [findings](#findings). | |

What the properties say of the code:

- `SlotAgreement`: `ticket()` never throws for the holder's ticket inside `reconcile`,
  `complete`, `recordSpawn` or `confirmSpawnFailure`, which would make the resource unusable.
- `CapacityOne`, `HoldsUntilGone`: the promise of the feature; the second says why the first holds.
- `NoUngovernedCommand`: the ledger and the blockers close the gap between a command's survey of its
  requirements and the installation of a policy.
- `GrantsFollowBlockers`: a grant waits for the commands admitted before the policy.
- `ClosedStaysClosed`: a ticket is good once; expired, revoked, cancelled or used tickets never
  come back, until the sweep forgets them.
- `NothingLeaks`: after any refusal, and after a drain, no ledger entry and no active ticket of
  the launch is left (when no call was lost and nothing crashed).
- `WaitsInOrder`: a launch that waits for a resource holds none that comes later in the order of all visits, so no two
  commands wait for each other in a circle, whatever was refused, lost or left behind by a crash in between.
- `FreedAfterExit`: the liveness the drain timer is for.
- `ImplementsSlot`: every behaviour is one of the abstract slots.
- `MutualExclusion`, `SoundLocksPreserved`, `OneReaper`: one holder; its directory and record stay on
  disk as long as it holds; the removal of a stale lock is done by one process, which holds the reaper lock.
- `LockProgress`: a crash at any step, of a holder, a reaper or the remover of a dead reaper's lock,
  leaves nothing on disk that blocks a patient process for ever.
- `ImplementsMutex`: the lock is used in no other way than ask, enter, time out, leave, die.
- `ReceiptsAreTrue`: a receipt `consumed` means that the message is in a context,
  at both ends and whichever way the news came; `replied` means an accepted reply.
- `ProgressIsKept`: what the sender once knew is not taken back by late receipts or by the refusal of a second copy.
- `OneReader`: the first transaction of `consume` excludes a second reader over the asynchronous context write.
- `SendsReturn`, `AcceptedSettles`: a chain is never blocked by a lost request, and an accepted
  message does not stay accepted for ever.
- `ImplementsMailbox`: at most once and in order, also over retries, late requests and two spellings.
- `RunsAreOwned`: a task is not given out again while an earlier attempt at it still runs somewhere.
  This is what the cancellation handshake is for.
- `NeverBusy`: `idle` is believed only when it belongs to the last assigned run, so that an assignment
  never meets a busy teammate; and a process that closes, which listens for thread results alone, is sent nothing else
  that matters: a `cancel` may reach it, but only for a task without a run (`byHand`).
- `NoLeakedLease`, `LimitHolds`: a grant that races the request's timeout is given back, and the
  session thread limit holds for what really runs, not just for what the lead counts.
- `RecordsMatch`: the run records follow the tasks through every path that ends a run. A task in progress has a
  record that runs, unless the lead put it in progress itself.
- `RequestKept`, `CancelEnds`: the state the lead asked for wins over the run's own outcome, and a
  cancellation of a task that was handed out ends even if the teammate dies or is late. Tasks in `byHand` are
  excepted: no run of theirs answers.
- `WorkIsHandedOut`: no ready task waits for ever beside an idle teammate of its workspace, except a task that `task_update`
  itself made ready (`passedOver`), and as long as a task in progress by hand makes the lead ignore its owner's idle lines.
- `VetoHonoured`: after a hook's stop no model or tool step begins, although the worker's permission
  to go on may be in the pipe; the run ends as cancelled even if it reports something else.
- `ContextIsSeen`: a hook's context reaches the worker before its next model step, and a final answer that was
  given before the context came is not final.
- `ImplementsFeed`: coalescing leaves out no control event, and who waits for a progress event that was
  replaced waits for the one that replaced it.
- `GatesOpen`: a hook acts on the very run that waits for it, by messages whose own events queue behind it; no one waits in a circle.

`gate`, `lock`, `mail` and `route` check for deadlock: in these systems some call is always
possible. The others do not: coordinators die or close, the bound on the lead's operations is used up, and the system stops.

## Bounds

*Coordination.* Two principals, two launches and two or three ticket IDs. A conflict over a slot needs two
launches; a policy change that matters needs a second epoch (`MaxEpoch = 2` in `gate`, `faults` and
`live`); a revoked, expired or leaked ticket beside the two in use needs a third ID, which `two`
has. With two IDs a full set of tickets also plays the code's cap of 4096 tickets, and `MaxQueued = 2`
its cap of 256 queued ones. Two resources are enough for the hold-and-wait and for a failure between visits;
they are visited in order, so a third adds no new interleaving. The bound on launches is that each
launch ID is used once, as in the code, where it is a random UUID.
`ending` and `two` keep one policy and one epoch, since policy changes are what `gate` and
`faults` are about. `ToolCall` is open to every principal in every run; `Clients` bounds who also
requests, releases and cancels by hand (in `gate`). Ticket IDs are
interchangeable in `two` (symmetry; it checks invariants only).

*File lock.* Three processes: a holder that dies, a reaper that dies, and a process that has to get past
both (`MaxCrashes = 2`); or a reaper, a late second reaper and a new holder. `MaxHazards = 1` keeps the
first state after a hazard, where the conditional properties stop. An instance of four processes without hazards
(symmetric, 22 k states) agrees.

*Messaging.* `mail` has one message, because receipts, consumption and expiry of different messages are independent
but for the order, and two consumers to race; `route` has two messages and two spellings, the least for an
order and for chains that overlap, an inbox of capacity one, so that refusals happen, and no receipts
beyond answers. `MaxLate = 1` and `MaxNotes = 1` bound requests after their timeout and receipts in flight.

*Team.* Two teammates and two tasks, the second waiting for the first until `task_update` frees it (`NewDeps`); two
workspaces; two attempts per task, so that a task can return to pending and be given to the other teammate; one nested-thread request
beside a limit of two, so that acquisitions are refused. `MaxEvents = 2` bounds together what disturbs the normal course: each `task_update`, `task_stop`,
change of workspace, thread request, crash and kill, and the first call of `shutdown`, counts once. Any two of them meet at any
point: two requests to stop one task, a task put in progress by hand and then stopped, a cancellation and a death, a
shutdown and a thread request. What takes three is not in the run. In
particular the exception of `NeverBusy` needs a failed task put in progress by hand, stopped, and a shutdown before; with two events it never
occurs, and the clause rests on the theorem `MatesNeverBusy`.

*Agent run.* Two iterations (`MaxLoops = 2`, the code's ten), so that what comes late in the first is seen in
the second; an inbox of one (the code's 32), so that it can be full; one message of the user beside those of the hooks.
The progress event of a cancellation and those that a team worker reports can wait at once, so that one replaces another.

No constraint cuts the state graph: all runs are exhaustive.

## Fairness

`CommandGate!FairSpec` assumes weak fairness of `Gate(l)`, all steps of one launch, and nothing else. The
code justifies it: every wait before the spawn has a deadline (a timer in `waitForGrant`, 2 s for
the file lock), the promise chain of a launch continues in a process that lives, and `drain()`
re-arms its timer every 100 ms until nothing is pending. Nothing is assumed of controllers (they
may never grant), of tool calls, of policies, or of how long a command runs. That every preparation ends is not
checked: in the model it is the deadline itself, an action that is always enabled. What the order of the visits adds, that
nobody waits in a circle for that deadline, is the safety property `WaitsInOrder`.

`FileLock!FairSpec`: a live process goes on with what it has begun (its file operations return, its
retry timer fires), the operation under the lock ends, and time passes. No one has to ask for the
lock or to die. `LockProgress` is about a process whose own timeout does not elapse (`Patient`); it does not say
that this process gets the lock, since the code has no queue and a process may be overtaken for ever.

`PeerMessaging!FairSpec`: a submit, a request and a consumption that have begun go on, because the transport
rejects a request after its timeout; deadlines pass; and the recipient's process has further
transactions (`flushEvents` runs on every notification and poll). Sending, reading, replying and the end of a run are
optional, receipts may all be lost.

`Team!FairSpec`: both sides read their pipes, exit events arrive, and a run whose signal was aborted ends.
A run that is left alone may go on for ever, and no tool call has to happen. `Kill` is not fair: `CancelEnds` does not rest on it.

`AgentRun!FairSpec`: hooks end, since each has a timeout, and so do requests to a worker; both sides read their pipes; a
worker whose gate is open goes on. Models and tools may run for ever, and `GatesOpen` does not rest on the 30 s timeout of
a team worker's gate.

## Proofs

Every theorem holds for all values of the constants that satisfy the assumptions of the model's own modules,
which TLC evaluates in every run: `ConstantsAssumption`, `StoreAssumption`, `GateAssumption` (coordination), the
assumptions of `FileLock` and `PeerMessaging`, `LeadAssumption` and `TeamAssumption` (teams), `RunAssumption` (agent runs). They say that sets are
sets of the right kind, bounds are numbers, and `None` is no one's name. So the theorems are about any number of resources,
principals, launches, processes, messages, chains, teammates, workspaces, tasks, requests, iterations and lifecycle events, every subset of the
faults and every set of statuses and dependencies the lead sets. `CleansUp` and `CleansUpAlways` are about the system without faults, as their statements say.

### Coordination

| theorem | states | run |
|---|---|---|
| `GateInvariant` | the inductive invariant `GateInv` | |
| `TypeCorrect` | `[]TypeOK` | `gate` |
| `HolderTicketAgreement` | `[]SlotAgreement` | `ending` |
| `CommandsHoldUntilGone` | `[]HoldsUntilGone` | `faults`, `ending` |
| `AtMostOne` | `[]CapacityOne` | `two` |
| `PolicyInvariant` | the inductive invariant `PolicyInv` | |
| `GrantsWait` | `[]GrantsFollowBlockers` | `gate` |
| `ClosedForGood` | `ClosedStaysClosed` | `ending` |
| `EveryCommandGoverned` | `[]NoUngovernedCommand` | `faults`, `two` |
| `SlotRefinement` | `ImplementsSlot` | `faults` |
| `ClaimsInOrder` | `[]WaitsInOrder` | `two` |
| `CleansUp`, `CleansUpAlways` | `[]NothingLeaks` without faults, while ticket IDs are distinct, and where they always are | `gate` |

`HoldsUntilGone` is not inductive: a step of `complete` by one launch may only be
ignored by another because their holders differ, and an admitted launch holds its resources only
because it armed them earlier and nobody else can end the state `starting`. `GateInv` therefore adds

- `RecordOk` for each record: `SlotAgrees`, and a holder in state
  `running` that has a spawner runs that spawner's process. Each edit of `ResourceState` has a lemma that it preserves `RecordOk`;
- `MustBeArmed`: at each phase, the resources a launch has armed and not yet recorded are in
  state `starting` with this launch as spawner;
- that a live process tree belongs to a launch in a phase after the spawn, which is why the error
  paths may free what they armed.

The frame relation is `Keeps(before, after, gone)`: a started holder is unchanged unless it runs
a process that is gone. Every edit other than the launch's own `Run`, `complete` and
`confirmSpawnFailure` keeps all holders (`LaunchFrame`), and those three touch a holder with that
launch as spawner (`CommitOwnOk`). `NextOk` has one lemma per action.

`PolicyInv` adds what ties a launch to the ledger and to the tickets that bear its ID: a launch that lives, or may still
spawn, is in the ledger; a ticket is assigned to a launch, or armed by it, only for a resource that its survey found. The first
conjunct is why a policy that is installed now counts every command that the older rules let through; the second why a launch that did
not find a resource never occupies it. One relation, `Moves(r, e)`, says what any step may make of a record: closed
tickets stay closed, grants follow blockers, a policy is kept with its live blockers or replaced by one that waits for all live launches,
and only `beforeSpawn` lets in an occupant. All four properties follow from it. `NoUngovernedCommand` is proved from the
previous state rather than from an invariant: a launch that lives was an admitted one, it held what it needed and was governed or blocked, and
no step takes both away (`GovernedNext`). For the refinement the steps are sorted by what they do to the mapped slots: let in the
occupant, fill one slot, vacate, or nothing.

`WaitsInOrder` rests on `OrderOk`: while a launch claims, it has tickets only for resources it has visited, and before the survey none; a ticket of
its that is still queued is for the one it waits for, or waited for when it gave up, and no ticket is for a later one. A
launch gets a ticket by `Claim` only, for the least resource that is left; all other steps keep a ticket's launch and never queue it again.

`NothingLeaks` is about the system without faults (`Faults = {}`, as in run `gate`), and there every call of the gate succeeds or is refused.
`Tidy` says of each state of a ticket in which phases its launch may be, and whether it has still to visit the resource (`InPhase`):
unused while the launch claims, waits and arms, and in `cancel` until visited; `starting` once armed, and in `unwind`, `abort` and `record`
until visited; `running` once recorded, and in `drain` until visited. So no phase ends with a ticket that the next does not visit. `LedgerOk` does the same for
the ledger entry. Steps of others, and most of the launch's own, are `Tame`: a ticket stays assigned and starts nothing. Only three are not:
`Claim`, `BeforeSpawn` and `RecordSpawn`. The gate's `cancel_request` names a ticket by its ID alone, so it finds it only if
no other resource has a ticket with the same ID (`TicketsDistinct`). `CleansUp` assumes that; `CleansUpAlways` proves it with the rest of the invariant
where there is one resource or clients make no tickets by hand. In the remaining case it is false ([divergences](#divergences-met-while-modelling)).

### File lock

| theorem | states | run |
|---|---|---|
| `LockInvariant` | the inductive invariant `LockInv` | |
| `LockTypes` | `[]TypeOK` | `lock` |
| `LockExclusion` | `[]MutualExclusion` | `lock` |
| `LocksPreserved` | `[]SoundLocksPreserved` | `lock` |
| `ReapersAlone` | `[]OneReaper` | `lock` |
| `MutexRefinement` | `ImplementsMutex` | `lock` |

The lock and its reaper lock are treated alike. A directory has an *occupant*, from its `mkdir` to its `rmdir`, and may have a
*remover*, which has found it stale; never both, and never two of either. The occupant's own file says how far it is (`Marked`), so
that a check by someone else that reads this file cannot take it for stale; a directory found stale has no occupant
(`Doomed`) and gets none, since nobody can create a directory that exists. The remover of the lock is the
occupant of the reaper lock, hence single; the remover of the reaper lock is single as long as `sound` says so, and this is
where the condition is needed. What holds after a hazard too is `Shape`. The condition is part of the properties, as it is in the
run; no theorem assumes that hazards do not happen.

### Peer messaging

| theorem | states | run |
|---|---|---|
| `MailInvariant` | the inductive invariant `MailInv` | |
| `MailTypes` | `[]TypeOK` | `mail` |
| `ReceiptsTrue` | `[]ReceiptsAreTrue` | `mail` |
| `OneReaderOnly` | `[]OneReader` | `mail` |
| `ProgressKept` | `ProgressIsKept` | `mail` |
| `MailboxRefinement` | `ImplementsMailbox` | `route` |

`MailInv` has a part per hand-over. `Custody`: a message is in the outbox and in the inbox at most once. `Askers`: a chain has one
request or one answer on its way. `Receipts`: every receipt, also one in flight, is `Credible`: what it says has happened. `Readers`: the messages
tied to a consumer are its batch, which gives `OneReader`. `Order`: whatever was submitted before a message on its way has arrived or
has been refused, or is still to be sent by the same chain first. `Order` is what the refinement rests on. That the inbox
admits a message only after its predecessors of *any* spelling is not written anywhere in the code; it follows because a chain takes
all pending messages of the recipient in outbox order.

The code's listing of pending messages is a set here (`PendingOutbox`), of which a chain sends the one that comes first in the outbox (`First`);
a chain's order of work is then a choice of a least element, for which the proof needs one lemma and no induction over sequences.

### Teams

| theorem | states | run |
|---|---|---|
| `TeamInvariant` | the invariant `TeamInv` (shapes, and who has what) | |
| `TeamTypes` | `[]TypeOK` | `team` |
| `ThreadInvariant` | the inductive invariant `TeamInv /\ ThreadInv` | |
| `ThreadLimit` | `[]LimitHolds` | `team` |
| `NoThreadLeaks` | `[]NoLeakedLease` | `team` |
| `RunInvariant` | the inductive invariant `TeamInv /\ RunInv` | |
| `RunsOwned` | `[]RunsAreOwned` | `team` |
| `MatesNeverBusy` | `[]NeverBusy` | `team` |
| `RecordsAgree` | `[]RecordsMatch` | `team` |
| `RequestsKept` | `RequestKept` | `team` |

*Threads.* `ThreadOk` follows one request through both pipes: as long as its `acquire` is unread the lead does not count it and has said nothing
of it; when the lead counts it, the teammate waits for it, has it, or has a `release` on the way;
after a refusal nothing is counted. The timeout, the late grant and the exit of the process each move the request to another of
these places. `LimitHolds` is then a cardinality argument: what live processes use is a subset of what the lead counts, and the
lead counts no more than its limit.

*Runs.* `RunInv` relates four places. At the lead, a record is `running` only for the latest attempt of a task in progress
whose owner has a process, and no teammate owns two of these (`Tracked`, `Single`, `Spare`). On the way down there is at most one assignment, of the
attempt in progress, and nothing but late lines after the order to shut down (`Orders`). At the teammate, what executes is
the attempt in progress, and then no assignment is on the way (`MateRuns`). On the way up, an update that ends an attempt means that the teammate does not execute it
and will not be told to. The handlers are compositions, so the proof is one as well: `Settle`, which ends attempts and may
open tasks again, leaves a state in which teammates are `Spare`; `TryAssign` hands out from there and appends
the assignments. `Handout` needs a lemma of its own (`HandoutFacts`): different tasks have different takers, because the rank of a task among the available
ones and the rank of a teammate among the idle ones are injective. `Keeps` and `Fulfils` say what a step does to requests to stop; `RequestsKept` follows from them.

All of them hold whatever statuses the lead sets with `task_update`, `in_progress` included, and whatever dependencies. A task
that the lead puts in progress itself has no attempt that is recorded as running, and to cancel it may send a `cancel` line to a
process that closes ([divergences](#divergences-met-while-modelling)). The invariant therefore follows `byHand`: a task in progress without
a running attempt is in it (`Tracked`), and what is sent to a closing process is a thread result or the cancellation of such a task (`IsLate`).
A task leaves `byHand` only when it is handed out, which the closing team does not do; so a late line stays excused.

### Agent runs

| theorem | states | run |
|---|---|---|
| `AgentRunInvariant` | the inductive invariant `RunInv` | |
| `AgentRunTypes` | `[]TypeOK` | `agentrun` |
| `VetoesHonoured` | `[]VetoHonoured` | `agentrun` |
| `ContextSeen` | `[]ContextIsSeen` | `agentrun` |
| `FeedRefinement` | `ImplementsFeed` | `agentrun` |

A *rein* is an event that was emitted with the right to control the run and whose hooks have not answered (`Reins`). The
invariant says that a rein in the queue keeps a gate of the worker shut, so that what its hooks decide comes before the next step.
For a delegate this is short (`DelegateInv`): its gates wait for all events that were pending when they were reached, and
none that may control the run is emitted behind them. A team worker waits at its gate for the answer to one
`ready` line. `OneQuestion` says that there is never a second: the question is on its way, or the lead holds it (`asked`), or an answer is
on its way back. `HeldBack` says that with a rein in the queue the answer is not yes: either the lead has still to read the
question, or what it holds waits for that rein, or it has refused. A progress line is always in front of
the question that follows it, so that the question finds the rein in the queue.
`HooksFirst` is the same for what a hook says: its message to the worker is never behind a yes, which is why the worker reads it at
the next step. `Obeyed` then follows a veto from the lead to the end of the run.

For the refinement the invariant gains `Ranked`: events are numbered in the order of the queue, and an entry that serves more than one event
serves progress only. What the hooks are owed, in the abstract module, is the sum of what the entries behind the head
serve, a fold; that it grows at its end when an event arrives and loses its beginning when an entry ends
is induction over the queue, which is done here by hand, as an argument about a least counterexample (`SumsExist`, `FlatFacts` in
`LineProofs`, `EnqueueOwed`, `ShiftOwed`).

## Findings

`ended`. `src/docs/peer-resource-coordination.md:138` says that ending an agent run "cancels its queued tickets
and unused reservations". Run `ended` shows one that is not: a command of the run is being prepared; `endRun` visits
the resource; the gate's `claimCommand` then creates a ticket, since the coordinator is not closed
yet; `close` follows. The gate's own `cancel_request` fails with `PEER_OFFLINE`, an error that
`prepareCommandCoordination` ignores. No one is left who may cancel the ticket. It is harmless to
exclusion (`ending` and the theorems cover it) but stays in the queue, also beyond the 24 hour sweep,
and counts towards `QUEUE_FULL`.

`torn`. `src/docs/peer-communication-design.md:41` says of the file lock that "its stale check preserves locks held
by live PIDs". `createOwnerFile` creates the owner file and writes it afterwards. A process that reads it in between
gets an empty text, which is not JSON; `Number('')` is 0, a finite number, so the text counts as a lock
file of the old format from the year 1970, and the live lock as stale. The trace has two processes and no crash:
one opens its owner file, the other lists, reads and reaps the directory.

## Divergences met while modelling

Places where the code does something its documents, or its own other parts, do not lead one to expect. The
models follow the code; where a property had to be conditional because of one, its comment says so.

*Command coordination.* A caller of `request` may choose the ticket's ID (`ResourceCoordinator.ts:16`), and only the tickets of
the same resource are searched for it (`:166`). If it is in use at another resource, `resourceForTicket` finds two and throws
(`:548`) for every call that names the ticket, the gate's `cancel_request` included. A launch that gives up then leaves its ticket in
the queue. With two resources and a client that makes tickets by hand, TLC finds `NothingLeaks` violated in this way; run `gate` has one resource, the theorem names the condition.

*File lock.* Exclusion is conditional on three events that nothing in the code excludes (`sound`):
the torn read above; a live process that pauses for the stale time, five minutes, between `mkdir` and `open` or
inside a removal, so that its empty directory counts as abandoned; and two processes that both remove the lock
of a dead reaper. The last removal is not guarded by any lock: with two deaths and two live processes, the slower
one can remove the reaper lock that a third has just taken. Each needs rare timing. One more order is not in the model: a directory
that is old by the time its owner file vanishes between a process's `readdir` and its `read`; `Age` makes only empty directories old.

*Messaging.*
- `markConsumed` does not look at the message's state: a reply or the end of the run between the two transactions
  of `consume` is overwritten at the recipient (`PeerMessageStore.ts:397-403`). The sender's `Obsolete` hides it.
- A refusal is final at the sender, also `RATE_LIMITED` and also when an earlier copy, late, is accepted afterwards.
- `acceptEnvelope` asks whether the run is active and then awaits: a message may be accepted by a run that has ended,
  after `endRecipient` marked the others, and gets no `TARGET_ENDED`.
- When the transaction that releases a failed consumer throws too, its error is swallowed and the
  message stays tied to a consumer that no longer exists: it is neither readable nor ever expired
  (`PeerMessageStore.ts:210-212`). `AcceptedSettles` excepts it (`Lost`).
- `prune`, `reconcileConsumption` and `recordedContext` are not called by the program.
- A chain belongs to a spelling of the target, so two spellings of one recipient have two chains. `route` shows that the
  order holds nevertheless, since each sends what is pending in outbox order.

*Teams.*
- `src/docs/teams.md:296` says that a task one already asked to cancel keeps the state one requested; a shutdown
  cancels it all the same. `RequestKept` is about teams that are not closing.
- A task that the lead itself sets to completed unblocks others, and so does new `blocked_by`, but no idle teammate is
  given them until the next event (`TeamManager.ts:493-494`). `WorkIsHandedOut` excepts these tasks (`passedOver`).
- `task_update` to `in_progress` marks a task as in progress without a run; what it leaves is in `byHand`. If such a
  task has an owner with a process (a failed task keeps its owner) and is asked to stop, the `cancel` line finds no run there, or a
  process that closes and ignores it; the request is fulfilled only when the process exits. And while it lasts
  the idle lines of that owner are ignored (`TeamManager.ts:322-325`), so that it gets no work.
- A task belongs to the workspace it was created in. After a change of workspace it waits for a teammate of the old one.
- The peer host of a run is not closed when its task returns to pending.

*Agent runs.*
- `sendMessage` emits its event after the await, also when the run has ended meanwhile: hooks can
  see `subagent-message` after `subagent-stop`.
- A message that a worker has accepted can still be lost: its run may fail before the next model step. (`docs/hooks.md`
  says as much: queued does not mean read.)

## Only model-checked

By TLC on the instances above: liveness (`FreedAfterExit`, `LockProgress`, `SendsReturn`, `AcceptedSettles`,
`CancelEnds`, `WorkIsHandedOut`, `GatesOpen`), and the two violations. Every safety property, action property and refinement of
a passing run is a theorem, `NothingLeaks` under the conditions stated with it. Liveness stays with TLC for good: fairness and ENABLED are outside the
prover. Liveness of the gate is checked with one resource and without faults only.

## Not modelled

Of modelled parts: event journals and notices of the resource store; event cursors, waits and pruning
of messages; tool authorisation and hooks of teams; nested and squad runs; the per-platform parsing of a
process identity; atomic writes themselves (a rename is one step everywhere). Planned: the journal,
decisions and goals. Not planned: transport, directory and presence
(I/O; what they do to a request is in `PeerMessaging`), front ends, providers,
memory, skills, extensions, import, research, browser and computer control (I/O and conversion);
permissions and hooks (sequential rule matching over strings); MCP, sync and mobile relay
(protocols whose other half is outside the repository); telemetry, auth, billing, i18n.
`PROJECT.json` lists each with its reason.

## Plan

1. **Coordination core** (done): `ResourceState`, `ResourceCoordinator`, `CommandGate`, `ExclusiveSlot`.
2. **FileLock** (done) with `Mutex`; **PeerMessageStore** and **PeerMessaging** (done) with `Mailbox`;
   **TeamLead** and **Team** (done); **AgentRun** (done) with `EventFeed`.
3. **Proofs about the core** (done): `ClosedStaysClosed`, `GrantsFollowBlockers`, `NoUngovernedCommand`, `NothingLeaks` and
   the refinement of `ExclusiveSlot`.
4. **Proofs about the rest** (done): messaging and the refinement of `Mailbox`; the file lock under `sound` and the refinement of
   `Mutex`; threads and runs of teams; hooks of agent runs and the refinement of `EventFeed`.
5. **ResourceJournal**: events, the window of 1024, cursors and retries. **Decisions** and **Goals** as room allows.
