------------------------------ MODULE AgentRun ------------------------------
(***************************************************************************)
(* One run of an agent: its record in AgentRunStore.ts, the queue of hooks *)
(* of AgentRunLifecycle.ts that observe it and may message or stop it, and *)
(* the worker, which waits at gates for the hooks of its own events.       *)
(*                                                                         *)
(* A "delegate" runs in the session's process (AgentDelegator.ts). A       *)
(* "team" worker is a process of its own (modes/teammate.ts): its events,  *)
(* its requests to go on and its replies are lines to the lead, which      *)
(* answers by lines (TeamManager.ts). Both run the loop of SubAgent.ts:    *)
(*                                                                         *)
(*   start, before, after, call, result   a gate: before the first step,   *)
(*       before and after the model, before and after the tools            *)
(*   model, tools                         a step                           *)
(*   stopping                             the stop event's hooks           *)
(***************************************************************************)
EXTENDS Naturals, SequencesExt

CONSTANTS
  Kinds,     \* kinds of run to explore
  MaxLoops,  \* maxIterations
  MaxInbox,  \* bound of the worker's inbox
  MaxSends,  \* bound on the messages of the user
  None

VARIABLES
  kind,
  status, cancel, outcome,  \* the run's record: status, cancelRequested, how it ended
  tasks,                    \* lifecycleTasks: numbers of the events not handled yet
  queue, stage,             \* the handler's queue, and where execute stands with its head
  pending, accepted,        \* sendMessage of each sender: the request it waits for, or 0; its handler said yes
  sends,                    \* messages of the user
  pc, aborted, inbox, loops,  \* the worker: its place, its signal, its instructions, its iteration
  waits, asked,             \* the events a gate still waits for; the lead owes the team worker an answer
  toLead, toMate,           \* lines on their way
  vetoed                    \* history: hooks of the active run have answered "stop"

record == <<status, cancel, outcome>>
feed == <<tasks, queue, stage>>
messages == <<pending, accepted, sends>>
worker == <<pc, aborted, inbox, loops>>
gate == <<waits, asked>>
vars == <<kind, record, feed, messages, worker, gate, toLead, toMate, vetoed>>

Gates == {"start", "before", "after", "call", "result", "stopping"}
Senders == {"hook", "user"}
Types == {"start", "progress", "message", "cancel-requested", "stop"}
Event == [id : Nat \ {0}, type : Types, control : BOOLEAN]
Ids(es) == {es[i].id : i \in DOMAIN es}

ASSUME RunAssumption ==
  /\ Kinds \subseteq {"delegate", "team"}
  /\ {MaxLoops, MaxInbox, MaxSends} \subseteq Nat
  /\ None \notin Event \union {"completed", "failed", "cancelled"}

TypeOK ==
  /\ kind \in {"delegate", "team"}
  /\ status \in {"none", "active", "done"} /\ cancel \in BOOLEAN
  /\ outcome \in {None, "completed", "failed", "cancelled"} /\ (outcome # None <=> status = "done")
  /\ \A i \in DOMAIN queue : queue[i].event \in Event /\ queue[i].event = Last(queue[i].served)
  /\ tasks = UNION {Ids(queue[i].served) : i \in DOMAIN queue}
  /\ stage \in {"hook", "sending", "acted"}
  /\ pending \in [Senders -> Nat] /\ accepted \subseteq Senders /\ sends \in 0 .. MaxSends
  /\ pc \in Gates \union {"idle", "model", "tools", "ended"}
  /\ aborted \in BOOLEAN /\ asked \in BOOLEAN /\ vetoed \in BOOLEAN
  /\ inbox \in Seq(Senders) /\ Len(inbox) <= MaxInbox
  /\ loops \in 0 .. MaxLoops
  /\ waits \subseteq tasks

Init ==
  /\ kind \in Kinds
  /\ status = "none" /\ cancel = FALSE /\ outcome = None
  /\ tasks = {} /\ queue = <<>> /\ stage = "hook"
  /\ pending = [s \in Senders |-> 0] /\ accepted = {} /\ sends = 0
  /\ pc = "idle" /\ aborted = FALSE /\ inbox = <<>> /\ loops = 0
  /\ waits = {} /\ asked = FALSE
  /\ toLead = <<>> /\ toMate = <<>>
  /\ vetoed = FALSE

-----------------------------------------------------------------------------
(* AgentRunStore: emitLifecycle, waitForLifecycle, finish. The handler gets an event in a     *)
(* microtask; here it does in the step that emits it.                                        *)

\* Mutant of Coalesces: a waiting event of any type is replaced by a later progress event.
CoalescesAll(q, e) == Len(q) > 1 /\ e.type = "progress"

Coalesces(q, e) == Len(q) > 1 /\ e.type = "progress" /\ Last(q).event.type = "progress"

Enqueue(q, e) ==
  IF Coalesces(q, e)
  THEN [q EXCEPT ![Len(q)] = [event |-> e, served |-> Append(@.served, e)]]
  ELSE Append(q, [event |-> e, served |-> <<e>>])

\* One event or two are emitted at once, numbered in their order; the numbers of events long
\* handled come again. Only hooks of start and progress events of a run that was active and not
\* asked to cancel when the event was emitted may control it.
AddEvents(types, mayControl) ==
  LET first == Max(tasks \union {0}) + 1
      new == [i \in DOMAIN types |->
        [id |-> first + i - 1, type |-> types[i], control |-> mayControl /\ types[i] \in {"start", "progress"}]]
  IN  /\ tasks' = tasks \union Ids(new)
      /\ queue' = LET one == Enqueue(queue, new[1]) IN IF Len(types) = 1 THEN one ELSE Enqueue(one, new[2])

Emit(types, mayControl) == AddEvents(types, mayControl) /\ UNCHANGED stage

\* The events that were pending when the wait began have been handled.
Settled == waits = {}

FinishRun(own) ==
  IF status = "active"
  THEN /\ status' = "done" /\ cancel' = FALSE
       /\ outcome' = own
       /\ Emit(<<"stop">>, FALSE)
  ELSE UNCHANGED <<record, feed>>

-----------------------------------------------------------------------------
(* The worker: SubAgent.runTask inside AgentDelegator or teammate.ts. *)

Start ==
  /\ pc = "idle"
  /\ status' = "active"
  /\ Emit(<<"start">>, TRUE)
  /\ pc' = "start"
  /\ IF kind = "delegate" THEN waits' = tasks' /\ UNCHANGED toLead
     ELSE toLead' = <<[kind |-> "ready"]>> /\ UNCHANGED waits
  /\ UNCHANGED <<kind, cancel, outcome, messages, aborted, inbox, loops, asked, toMate, vetoed>>

\* onProgress: the worker reports and waits.
Report(place) ==
  /\ pc' = place
  /\ IF kind = "delegate"
     THEN Emit(<<"progress">>, ~cancel) /\ waits' = tasks' /\ UNCHANGED <<record, toLead>>
     ELSE /\ toLead' = toLead \o <<[kind |-> "progress"], [kind |-> "ready"]>>
          /\ UNCHANGED <<record, feed, waits>>

\* The run ends: by its result, by an error, or because its signal was aborted.
End(own) ==
  /\ IF kind = "delegate"
     THEN FinishRun(own) /\ pc' = "stopping" /\ waits' = tasks' /\ UNCHANGED toLead
     ELSE /\ toLead' = Append(toLead, [kind |-> "end", own |-> own])
          /\ pc' = "ended"
          /\ UNCHANGED <<record, feed, waits>>
  /\ UNCHANGED <<inbox, loops>>

Iterate ==
  IF loops = MaxLoops THEN End("failed")
  ELSE loops' = loops + 1 /\ inbox' = <<>> /\ Report("before")

\* Mutant of Proceed: the instructions that came while the worker waited are left for later.
ProceedAtOnce ==
  \/ pc = "start" /\ Iterate
  \/ pc = "before" /\ pc' = "model" /\ UNCHANGED <<record, feed, waits, toLead, inbox, loops>>
  \/ pc = "after" /\ (End("completed") \/ Iterate)
  \/ pc = "after" /\ Report("call") /\ UNCHANGED <<inbox, loops>>
  \/ pc = "call" /\ pc' = "tools" /\ UNCHANGED <<record, feed, waits, toLead, inbox, loops>>
  \/ pc = "result" /\ Iterate

\* After a gate. An answer of the model is final if nothing was said meanwhile; one that calls
\* tools leads to them; any other is repaired by another iteration, or ends the run.
Proceed ==
  \/ pc = "start" /\ Iterate
  \/ /\ pc = "before"
     /\ inbox' = <<>> /\ pc' = "model"
     /\ UNCHANGED <<record, feed, waits, toLead, loops>>
  \/ pc = "after" /\ IF inbox = <<>> THEN End("completed") \/ Iterate ELSE Iterate
  \/ pc = "after" /\ End("failed")
  \/ pc = "after" /\ Report("call") /\ UNCHANGED <<inbox, loops>>
  \/ /\ pc = "call"
     /\ pc' = "tools"
     /\ UNCHANGED <<record, feed, waits, toLead, inbox, loops>>
  \/ pc = "result" /\ Iterate

\* Mutant of PassGate: the signal is not looked at.
PassGateBlindly ==
  /\ kind = "delegate" /\ pc \in Gates \ {"stopping"}
  /\ Settled
  /\ Proceed
  /\ UNCHANGED <<kind, messages, aborted, asked, toMate, vetoed>>

PassGate ==
  /\ kind = "delegate" /\ pc \in Gates \ {"stopping"}
  /\ Settled
  /\ IF aborted THEN End("cancelled") ELSE Proceed
  /\ UNCHANGED <<kind, messages, aborted, asked, toMate, vetoed>>

\* A step ends with a result, an error or the abort of its signal.
StepEnds ==
  /\ pc \in {"model", "tools"}
  /\ \/ Report(IF pc = "model" THEN "after" ELSE "result") /\ UNCHANGED <<inbox, loops>>
     \/ End(IF aborted THEN "cancelled" ELSE "failed")
  /\ UNCHANGED <<kind, messages, aborted, asked, toMate, vetoed>>

StopHandled ==
  /\ pc = "stopping" /\ Settled
  /\ pc' = "ended"
  /\ UNCHANGED <<kind, record, feed, messages, aborted, inbox, loops, gate, toLead, toMate, vetoed>>

\* The signal of the parent is aborted.
ParentAborts ==
  /\ kind = "delegate" /\ pc \notin {"idle", "stopping", "ended"} /\ ~aborted
  /\ aborted' = TRUE
  /\ UNCHANGED <<kind, record, feed, messages, pc, inbox, loops, gate, toLead, toMate, vetoed>>

-----------------------------------------------------------------------------
(* requestCancel, sendMessage *)

Cancellable == status = "active" /\ ~cancel

\* The cancel handler of a delegate aborts its signal. That of a team run is stopTask, which
\* rejects the messages without an answer, reports progress and writes to the worker.
Cancel(types) ==
  /\ cancel' = TRUE
  /\ pending' = [s \in Senders |-> 0]
  /\ IF kind = "delegate"
     THEN aborted' = TRUE /\ AddEvents(<<"cancel-requested">>, FALSE) /\ UNCHANGED toMate
     ELSE /\ AddEvents(types, FALSE)
          /\ toMate' = Append(toMate, [kind |-> "cancel"])
          /\ UNCHANGED aborted
  /\ UNCHANGED <<status, outcome>>

RequestCancel ==
  /\ Cancellable
  /\ Cancel(<<"cancel-requested", "progress">>)
  /\ UNCHANGED <<kind, stage, accepted, sends, pc, inbox, loops, gate, toLead, vetoed>>

\* task_stop of the lead, without the store's requestCancel.
StopTask ==
  /\ kind = "team" /\ Cancellable
  /\ Cancel(<<"cancel-requested">>)
  /\ UNCHANGED <<kind, stage, accepted, sends, pc, inbox, loops, gate, toLead, vetoed>>

\* A request of a team run differs from those of which a line is still on its way.
FreshRequest(s) ==
  LET lines == {l \in ToSet(toLead \o toMate) : l.kind \in {"message", "accepted"} /\ l.from = s}
  IN  Max({l.id : l \in lines} \union {0}) + 1

\* The handler of a delegate answers at once, that of a team run asks the worker.
Send(s) ==
  IF kind = "delegate"
  THEN /\ IF aborted \/ Len(inbox) = MaxInbox THEN UNCHANGED <<inbox, accepted>>
          ELSE inbox' = Append(inbox, s) /\ accepted' = accepted \union {s}
       /\ UNCHANGED <<pending, toMate>>
  ELSE /\ pending' = [pending EXCEPT ![s] = FreshRequest(s)]
       /\ toMate' = Append(toMate, [kind |-> "message", from |-> s, id |-> FreshRequest(s)])
       /\ UNCHANGED <<inbox, accepted>>

Sending(s) == pending[s] # 0 \/ s \in accepted

UserSends ==
  /\ Cancellable
  /\ ~Sending("user")
  /\ sends < MaxSends /\ sends' = sends + 1
  /\ Send("user")
  /\ UNCHANGED <<kind, record, feed, pc, aborted, loops, gate, toLead, vetoed>>

\* sendMessage goes on after its await: the run may have ended since.
Delivered(s) ==
  /\ s \in accepted /\ accepted' = accepted \ {s}
  /\ Emit(<<"message">>, FALSE)
  /\ UNCHANGED <<kind, record, pending, sends, worker, gate, toLead, toMate, vetoed>>

SendTimesOut(s) ==
  /\ pending[s] # 0 /\ pending' = [pending EXCEPT ![s] = 0]
  /\ UNCHANGED <<kind, record, feed, accepted, sends, worker, gate, toLead, toMate, vetoed>>

-----------------------------------------------------------------------------
(* createAgentRunLifecycleHandler: execute, drain *)

\* One answered that the run must stop.
HooksStop ==
  /\ queue # <<>> /\ stage = "hook" /\ Head(queue).event.control
  /\ stage' = "acted"
  /\ vetoed' = (vetoed \/ status = "active")
  /\ IF Cancellable THEN Cancel(<<"cancel-requested", "progress">>)
     ELSE UNCHANGED <<record, tasks, queue, pending, aborted, toMate>>
  /\ UNCHANGED <<kind, accepted, sends, pc, inbox, loops, gate, toLead>>

\* One answered with context for the worker, which is sent and waited for.
HooksInform ==
  /\ queue # <<>> /\ stage = "hook" /\ Head(queue).event.control
  /\ Cancellable
  /\ stage' = "sending"
  /\ Send("hook")
  /\ UNCHANGED <<kind, record, tasks, queue, sends, pc, aborted, loops, gate, toLead, vetoed>>

\* Mutant of Acted: sending waits for the hooks of the message, which wait for it.
ActedAndHandled ==
  stage \in {"hook", "acted"} \/ (stage = "sending" /\ ~Sending("hook") /\ Len(queue) = 1)

\* The hooks said nothing or failed, or what they said has been done.
Acted == stage \in {"hook", "acted"} \/ (stage = "sending" /\ ~Sending("hook"))

\* Mutant of Shift: only the caller of the event that was run is resolved.
ShiftOne ==
  /\ queue # <<>> /\ Acted
  /\ queue' = Tail(queue)
  /\ stage' = "hook"
  /\ tasks' = tasks \ {Head(queue).event.id} /\ waits' = waits \ {Head(queue).event.id}
  /\ UNCHANGED <<kind, record, messages, worker, asked, toLead, toMate, vetoed>>

Shift ==
  /\ queue # <<>> /\ Acted
  /\ queue' = Tail(queue)
  /\ stage' = "hook"
  /\ tasks' = tasks \ Ids(Head(queue).served) /\ waits' = waits \ Ids(Head(queue).served)
  /\ UNCHANGED <<kind, record, messages, worker, asked, toLead, toMate, vetoed>>

-----------------------------------------------------------------------------
(* The lead of a team run reads a line: handleTeammateMessage, authorizeRunStart. *)

Line(lines, what) == lines # <<>> /\ Head(lines).kind = what

LeadTakes == toLead' = Tail(toLead) /\ UNCHANGED <<kind, sends, worker, vetoed>>

OnProgress ==
  /\ Line(toLead, "progress") /\ LeadTakes
  /\ IF status = "active" THEN Emit(<<"progress">>, ~cancel) ELSE UNCHANGED feed
  /\ UNCHANGED <<record, pending, accepted, gate, toMate>>

Answer(allowed) == toMate' = Append(toMate, [kind |-> IF allowed THEN "allowed" ELSE "denied"])

OnRunReady ==
  /\ Line(toLead, "ready") /\ LeadTakes
  /\ IF Cancellable THEN asked' = TRUE /\ waits' = tasks /\ UNCHANGED toMate
     ELSE Answer(FALSE) /\ UNCHANGED gate
  /\ UNCHANGED <<record, feed, pending, accepted>>

OnRunMessageResult ==
  LET m == Head(toLead)
  IN  /\ Line(toLead, "accepted") /\ LeadTakes
      /\ IF pending[m.from] # m.id THEN UNCHANGED <<pending, accepted>>
         ELSE /\ pending' = [pending EXCEPT ![m.from] = 0]
              /\ accepted' = IF m.ok THEN accepted \union {m.from} ELSE accepted
      /\ UNCHANGED <<record, feed, gate, toMate>>

\* The task ends; what the lead asked for wins over the run's own outcome.
OnEnd ==
  /\ Line(toLead, "end") /\ LeadTakes
  /\ FinishRun(IF cancel THEN "cancelled" ELSE Head(toLead).own)
  /\ pending' = [s \in Senders |-> 0]
  /\ UNCHANGED <<accepted, gate, toMate>>

AuthorizeRunStart ==
  /\ asked /\ Settled
  /\ asked' = FALSE
  /\ Answer(Cancellable)
  /\ UNCHANGED <<kind, record, feed, messages, worker, waits, toLead, vetoed>>

-----------------------------------------------------------------------------
(* The team worker reads a line. *)

Waiting == kind = "team" /\ pc \in Gates
MateTakes == toMate' = Tail(toMate) /\ UNCHANGED <<kind, messages, asked, vetoed>>

OnAllowed ==
  /\ Line(toMate, "allowed") /\ MateTakes
  /\ IF Waiting THEN Proceed ELSE UNCHANGED <<record, feed, waits, toLead, pc, inbox, loops>>
  /\ UNCHANGED aborted

OnDenied ==
  /\ Line(toMate, "denied") /\ MateTakes
  /\ IF Waiting THEN End("failed") ELSE UNCHANGED <<record, feed, waits, toLead, pc, inbox, loops>>
  /\ UNCHANGED aborted

\* Who waits at a gate stops waiting.
OnCancel ==
  /\ Line(toMate, "cancel") /\ MateTakes
  /\ aborted' = (pc # "ended")
  /\ IF Waiting THEN End("cancelled") ELSE UNCHANGED <<record, feed, waits, toLead, pc, inbox, loops>>

OnRunMessage ==
  LET m == Head(toMate)
      ok == pc # "ended" /\ ~aborted /\ Len(inbox) < MaxInbox
  IN  /\ Line(toMate, "message") /\ MateTakes
      /\ inbox' = IF ok THEN Append(inbox, m.from) ELSE inbox
      /\ toLead' = Append(toLead, [kind |-> "accepted", from |-> m.from, id |-> m.id, ok |-> ok])
      /\ UNCHANGED <<record, feed, waits, pc, aborted, loops>>

\* The lead has not answered for 30 seconds.
GateTimesOut ==
  /\ Waiting
  /\ End("failed")
  /\ UNCHANGED <<kind, messages, aborted, asked, toMate, vetoed>>

-----------------------------------------------------------------------------
Handle == HooksStop \/ HooksInform \/ Shift
LeadReads == OnProgress \/ OnRunReady \/ OnRunMessageResult \/ OnEnd
MateReads == OnAllowed \/ OnDenied \/ OnCancel \/ OnRunMessage

Next ==
  \/ Start \/ PassGate \/ StepEnds \/ StopHandled \/ ParentAborts \/ GateTimesOut
  \/ RequestCancel \/ StopTask \/ UserSends
  \/ \E s \in Senders : Delivered(s) \/ SendTimesOut(s)
  \/ Handle
  \/ LeadReads \/ AuthorizeRunStart \/ MateReads

Spec == Init /\ [][Next]_vars

\* Hooks end (each has a timeout), sends end (so have they), both sides read
\* their lines, and a worker whose gate is open goes on. Nothing is assumed of models and
\* tools, nor that a team worker's gate ever times out.
FairSpec ==
  /\ Spec
  /\ WF_vars(Handle)
  /\ \A s \in Senders : WF_vars(Delivered(s)) /\ WF_vars(SendTimesOut(s))
  /\ WF_vars(LeadReads) /\ WF_vars(AuthorizeRunStart) /\ WF_vars(MateReads)
  /\ WF_vars(PassGate) /\ WF_vars(StopHandled)

-----------------------------------------------------------------------------
(* Properties. *)

\* docs/hooks.md: a start or progress hook that answers "continue: false" stops that worker.
\* No step of a model or a tool follows, whatever else happens to the run, and it ends as
\* cancelled, unless it had ended before.
VetoHonoured ==
  vetoed => pc \notin {"model", "tools"} /\ outcome \in {None, "cancelled"}

\* Context from a hook is before the worker's eyes at its next model step, and a run does not
\* complete without having seen it.
ContextIsSeen ==
  "hook" \in ToSet(inbox) => pc # "model" /\ outcome # "completed"

\* Events are fed to the hooks in order, and only progress is ever skipped.
Owed == FlattenSeq([i \in DOMAIN queue |-> IF i = 1 THEN <<>> ELSE queue[i].served])
Feed == INSTANCE EventFeed WITH
  due <- Owed,
  current <- IF queue = <<>> THEN None ELSE Head(queue).event,
  awaited <- tasks
ImplementsFeed == Feed!FeedSpec

\* Every gate opens: a hook that messages or stops the very run whose worker waits for it does
\* not wait for that worker in turn.
GatesOpen == \A g \in Gates : (pc = g) ~> (pc # g)
=============================================================================
