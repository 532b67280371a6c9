-------------------------------- MODULE Team --------------------------------
(***************************************************************************)
(* A lead and its teammate processes (TeammateProcess.ts, modes/           *)
(* teammate.ts, TeammateThreadBudget.ts), joined by two pipes each. Lines  *)
(* arrive in order. A process may exit at any time; the lead hears of it   *)
(* later, and may have read all, some or none of the lines before that.    *)
(***************************************************************************)
EXTENDS TeamLead

CONSTANTS
  LeadStatuses, \* statuses the lead sets with task_update
  NewDeps,      \* for each task, the sets of tasks it makes the task depend on
  MaxTries,     \* bound on the attempts at a task
  MaxEvents,    \* bound on all of these together: the lead's task_update, task_stop, first
                \* shutdown and change of workspace; thread requests; crashes and kills
  MaxTeams

ASSUME TeamAssumption ==
  /\ LeadStatuses \subseteq Requestable \union {"in_progress"}
  /\ NewDeps \in [Tasks -> SUBSET SUBSET Tasks]
  /\ MaxTries \in Nat \ {0}
  /\ {MaxEvents, MaxTeams} \subseteq Nat

VARIABLES
  lead,     \* see LeadInit
  up,       \* lines on the way from each teammate
  proc,     \* each process: "none", "live", "closing" or "exited" and not yet noticed
  active,   \* the run it executes, or None
  aborted,  \* whether that run's signal is aborted
  pending,  \* TeammateThreadBudget: requests without an answer,
  granted,  \* and leases it holds
  events, teams

procVars == <<up, proc, active, aborted, pending, granted>>
bounds == <<events, teams>>
vars == <<lead, procVars, bounds>>

Runs == [task : Tasks, try : 0 .. MaxTries]

TypeOK ==
  /\ lead.team \in {"none", "active", "completed"}
  /\ lead.status \in [Mates -> {"none", "spawning", "idle", "working", "shutdown"}]
  /\ lead.task \in [Tasks -> [status : Requestable \union {"absent", "in_progress"}, owner : Mates \union {None},
                              try : 0 .. MaxTries, cancel : BOOLEAN]]
  /\ lead.requested \in [Tasks -> Requestable \union {None}]
  /\ lead.running \in [Tasks -> 0 .. MaxTries]
  /\ lead.deps \in [Tasks -> SUBSET Tasks] /\ lead.root \in [Tasks -> Workspaces \union {None}]
  /\ lead.home \in [Mates -> Workspaces \union {None}] /\ lead.workspace \in Workspaces
  /\ proc \in [Mates -> {"none", "live", "closing", "exited"}]
  /\ \A n \in Mates :
       /\ lead.last[n] \in Runs \union {None} /\ active[n] \in Runs \union {None}
       /\ lead.nested[n] \union pending[n] \union granted[n] \subseteq Requests
       /\ lead.lease[n] <=> proc[n] # "none"
       /\ ~lead.lease[n] => lead.last[n] = None /\ lead.nested[n] = {} /\ lead.sent[n] = <<>>
       /\ aborted[n] => active[n] # None

Init ==
  /\ lead = LeadInit
  /\ up = [n \in Mates |-> <<>>]
  /\ proc = [n \in Mates |-> "none"]
  /\ active = [n \in Mates |-> None]
  /\ aborted = [n \in Mates |-> FALSE]
  /\ pending = [n \in Mates |-> {}]
  /\ granted = [n \in Mates |-> {}]
  /\ events = 0 /\ teams = 0

Counted == events < MaxEvents /\ events' = events + 1

-----------------------------------------------------------------------------
(* What the lead's tools and commands do. *)

CreateTeam ==
  /\ teams < MaxTeams
  /\ ~lead.closing /\ lead.team # "active"
  /\ \A n \in Mates : ~lead.lease[n]
  /\ lead' = [lead EXCEPT !.team = "active",
                !.task = LeadInit.task, !.running = LeadInit.running, !.requested = LeadInit.requested,
                !.record = LeadInit.record, !.deps = LeadInit.deps, !.root = LeadInit.root,
                !.byHand = {}, !.passedOver = {}]
  /\ teams' = teams + 1
  /\ UNCHANGED <<procVars, events>>

\* The order of the map is that of the first additions.
AddTeammate(n) ==
  /\ ~lead.closing /\ lead.team = "active"
  /\ ~lead.lease[n]
  /\ \A i, j \in DOMAIN Roster : Roster[j] = n /\ i < j => lead.status[Roster[i]] # "none"
  /\ Used(lead) < MaxChildren
  /\ lead' = [lead EXCEPT !.lease[n] = TRUE, !.status[n] = "spawning", !.home[n] = lead.workspace]
  /\ proc' = [proc EXCEPT ![n] = "live"]
  /\ up' = [up EXCEPT ![n] = <<[kind |-> "ready"]>>]
  /\ UNCHANGED <<active, aborted, pending, granted, bounds>>

CreateTask(t) ==
  /\ lead.task[t].status = "absent"
  /\ \A u \in 1 .. t - 1 : lead.task[u].status # "absent"
  /\ lead' = TryAssign([lead EXCEPT !.task[t].status = "pending", !.deps[t] = Deps[t], !.root[t] = lead.workspace])
  /\ UNCHANGED <<procVars, bounds>>

\* The update changes the dependencies and, unless st is None, the status: of a task in progress
\* a new status is asked for, any other task gets it at once.
Edited(t, st, deps) ==
  LET s == [lead EXCEPT !.deps[t] = deps]
  IN  CASE st = None -> s
        [] st # None /\ lead.task[t].status = "in_progress" ->
             IF st = "in_progress" THEN s ELSE RequestState(s, {t}, st)
        [] OTHER -> [SetStatus(s, t, st) EXCEPT !.byHand = IF st = "in_progress" THEN @ \union {t} ELSE @]

\* updateTask looks for a teammate only after the status "pending" of a task not in progress.
UpdateTask(t, st, deps) ==
  /\ Counted
  /\ lead.task[t].status # "absent"
  /\ st = "pending" => lead.task[t].try < MaxTries
  /\ LET s == Edited(t, st, deps)
     IN  lead' = IF st = "pending" /\ lead.task[t].status # "in_progress" THEN TryAssign(s)
                 ELSE [s EXCEPT !.passedOver = @ \union (Available(s) \ Available(lead))]
  /\ UNCHANGED <<procVars, teams>>

StopTask(t) ==
  /\ Counted
  /\ lead.task[t].status # "absent"
  /\ lead' = RequestState(lead, {t}, "cancelled")
  /\ UNCHANGED <<procVars, teams>>

\* The session enters or leaves a worktree; no child thread may run then.
SwitchWorkspace(w) ==
  /\ Counted
  /\ w # lead.workspace /\ Used(lead) = 0
  /\ lead' = [lead EXCEPT !.workspace = w]
  /\ UNCHANGED <<procVars, teams>>

-----------------------------------------------------------------------------
(* shutdown *)

Stop == [kind |-> "shutdown"]

\* When it is called again after a failure, only processes that are gone are left to write to.
Shutdown ==
  /\ lead.team = "active" /\ ~lead.stopping
  /\ IF lead.closing THEN UNCHANGED events ELSE Counted
  /\ LET stopped == RequestState([lead EXCEPT !.closing = TRUE, !.stopping = TRUE], Tasks, "cancelled")
     IN  lead' = [stopped EXCEPT
                   !.sent = [n \in Mates |-> IF proc[n] = "live" THEN Append(stopped.sent[n], Stop) ELSE stopped.sent[n]]]
  /\ UNCHANGED <<procVars, teams>>

\* The last resort of terminate: SIGKILL.
Kill(n) ==
  /\ lead.stopping
  /\ proc[n] \in {"live", "closing"}
  /\ Counted
  /\ proc' = [proc EXCEPT ![n] = "exited"]
  /\ UNCHANGED <<lead, up, active, aborted, pending, granted, teams>>

ShutdownDone ==
  /\ lead.stopping
  /\ \A n \in Mates : ~lead.lease[n]
  /\ lead' = [lead EXCEPT !.team = "completed", !.closing = FALSE, !.stopping = FALSE,
                          !.status = LeadInit.status]
  /\ UNCHANGED <<procVars, bounds>>

\* Its time is longer than terminate's three, so every process was sent SIGKILL, but some
\* exit was not noticed in time: the team stays closing, with its leases.
ShutdownFails ==
  /\ lead.stopping
  /\ \A n \in Mates : proc[n] \in {"none", "exited"}
  /\ \E n \in Mates : lead.lease[n]
  /\ lead' = [lead EXCEPT !.stopping = FALSE]
  /\ UNCHANGED <<procVars, bounds>>

-----------------------------------------------------------------------------
(* handleTeammateMessage: one action for each method. *)

Line(n, kind) == lead.lease[n] /\ up[n] # <<>> /\ Head(up[n]).kind = kind

Taken(n) ==
  /\ up' = [up EXCEPT ![n] = Tail(@)]
  /\ UNCHANGED <<proc, active, aborted, pending, granted, bounds>>

OnReady(n) ==
  /\ Line(n, "ready") /\ Taken(n)
  /\ lead' = IF lead.closing \/ lead.status[n] # "spawning" THEN lead
             ELSE TryAssign([lead EXCEPT !.status[n] = "idle"])

\* Mutant: the end of a run whose cancellation was requested is taken for a late one.
CurrentUnlessCancelled(n, run) ==
  LET task == lead.task[run.task]
  IN  task.owner = n /\ task.status = "in_progress" /\ task.try = run.try /\ ~task.cancel

\* The update is of the run that the lead takes to be in progress at this teammate.
Current(n, run) ==
  LET task == lead.task[run.task]
  IN  task.owner = n /\ task.status = "in_progress" /\ task.try = run.try

OnTaskUpdate(n) ==
  LET m == Head(up[n])
  IN  /\ Line(n, "update") /\ Taken(n)
      /\ lead' = CASE ~Current(n, m.run) -> lead
                   [] Current(n, m.run) /\ m.status = "in_progress" -> [lead EXCEPT !.status[n] = "working"]
                   [] OTHER -> [Settle(lead, {m.run.task}, m.status, [t \in Tasks |-> Asked(lead, t)]) EXCEPT !.status[n] = "idle"]

\* Mutant: an idle line is taken at its word, whichever run it is about.
OnIdleOfAnyRun(n) ==
  /\ Line(n, "idle") /\ Taken(n)
  /\ lead' = IF lead.closing THEN lead ELSE TryAssign([lead EXCEPT !.status[n] = "idle"])

\* Mutant: the idle teammate is not given work.
OnIdleNoWork(n) ==
  /\ Line(n, "idle") /\ Taken(n)
  /\ lead' = IF \/ lead.closing
                \/ Head(up[n]).run # lead.last[n]
                \/ \E t \in Tasks : lead.task[t].owner = n /\ lead.task[t].status = "in_progress"
             THEN lead ELSE [lead EXCEPT !.status[n] = "idle"]

OnIdle(n) ==
  /\ Line(n, "idle") /\ Taken(n)
  /\ lead' = IF \/ lead.closing
                \/ Head(up[n]).run # lead.last[n]
                \/ \E t \in Tasks : lead.task[t].owner = n /\ lead.task[t].status = "in_progress"
             THEN lead ELSE TryAssign([lead EXCEPT !.status[n] = "idle"])

OnShutdownAck(n) ==
  /\ Line(n, "ack") /\ Taken(n)
  /\ lead' = [lead EXCEPT !.status[n] = "shutdown"]

OnThreadAcquire(n) ==
  LET r == Head(up[n]).req
      ok == ~lead.closing /\ r \notin lead.nested[n] /\ Used(lead) < MaxChildren
  IN  /\ Line(n, "acquire") /\ Taken(n)
      /\ lead' = Write(IF ok THEN [lead EXCEPT !.nested[n] = @ \union {r}] ELSE lead,
                       n, [kind |-> "result", req |-> r, ok |-> ok])

OnThreadRelease(n) ==
  /\ Line(n, "release") /\ Taken(n)
  /\ lead' = [lead EXCEPT !.nested[n] = @ \ {Head(up[n]).req}]

\* handleTeammateExit. What the process wrote and the lead has not read is dropped.
OnExit(n) ==
  /\ proc[n] = "exited"
  /\ lead' = TryAssign(Exited(lead, n))
  /\ proc' = [proc EXCEPT ![n] = "none"]
  /\ up' = [up EXCEPT ![n] = <<>>]
  /\ active' = [active EXCEPT ![n] = None]
  /\ aborted' = [aborted EXCEPT ![n] = FALSE]
  /\ pending' = [pending EXCEPT ![n] = {}]
  /\ granted' = [granted EXCEPT ![n] = {}]
  /\ UNCHANGED bounds

-----------------------------------------------------------------------------
(* The teammate process: lines from the lead, handled in order. *)

Alive(n) == proc[n] \in {"live", "closing"}
Order(n, kind) == Alive(n) /\ lead.sent[n] # <<>> /\ Head(lead.sent[n]).kind = kind

Heard(n) ==
  /\ lead' = [lead EXCEPT !.sent[n] = Tail(@)]
  /\ UNCHANGED bounds

Say(n, lines) == up' = [up EXCEPT ![n] = @ \o lines]
Update(run, st) == [kind |-> "update", run |-> run, status |-> st]
Releases(S) == SetToSeq({[kind |-> "release", req |-> r] : r \in S})

OnAssign(n) ==
  LET run == Head(lead.sent[n]).run
  IN  /\ proc[n] = "live" /\ Order(n, "assign") /\ Heard(n)
      /\ IF active[n] = None
         THEN active' = [active EXCEPT ![n] = run] /\ Say(n, <<Update(run, "in_progress")>>)
         ELSE UNCHANGED active /\ Say(n, IF active[n] = run THEN <<>> ELSE <<Update(run, "failed")>>)
      /\ UNCHANGED <<proc, aborted, pending, granted>>

OnCancel(n) ==
  /\ Order(n, "cancel") /\ Heard(n)
  /\ aborted' = [aborted EXCEPT ![n] = @ \/ (proc[n] = "live" /\ active[n] = Head(lead.sent[n]).run)]
  /\ UNCHANGED <<up, proc, active, pending, granted>>

OnThreadResult(n) ==
  LET m == Head(lead.sent[n])
  IN  /\ Order(n, "result") /\ Heard(n)
      /\ pending' = [pending EXCEPT ![n] = @ \ {m.req}]
      /\ granted' = IF m.ok /\ m.req \in pending[n] THEN [granted EXCEPT ![n] = @ \union {m.req}] ELSE granted
      /\ UNCHANGED <<up, proc, active, aborted>>

OnShutdown(n) ==
  /\ proc[n] = "live" /\ Order(n, "shutdown") /\ Heard(n)
  /\ proc' = [proc EXCEPT ![n] = "closing"]
  /\ aborted' = [aborted EXCEPT ![n] = active[n] # None]
  /\ Say(n, Releases(pending[n]))
  /\ pending' = [pending EXCEPT ![n] = {}]
  /\ UNCHANGED <<active, granted>>

-----------------------------------------------------------------------------
(* The teammate process: its run, its nested threads, its end. *)

\* An aborted run may still report the result it was about to send.
Outcomes(n) == {"completed", IF aborted[n] THEN "cancelled" ELSE "failed"}

Finish(n) ==
  /\ Alive(n) /\ active[n] # None
  /\ \E st \in Outcomes(n) :
       Say(n, <<Update(active[n], st)>> \o IF proc[n] = "live" THEN <<[kind |-> "idle", run |-> active[n]]>> ELSE <<>>)
  /\ active' = [active EXCEPT ![n] = None]
  /\ aborted' = [aborted EXCEPT ![n] = FALSE]
  /\ UNCHANGED <<lead, proc, pending, granted, bounds>>

\* Request IDs are random: one that nobody remembers any more stands for a new one.
Fresh(r) ==
  \A n \in Mates :
    /\ r \notin lead.nested[n] \union pending[n] \union granted[n]
    /\ \A m \in ToSet(up[n]) \union ToSet(lead.sent[n]) : "req" \in DOMAIN m => m.req # r

Acquire(n, r) ==
  /\ Counted
  /\ proc[n] = "live" /\ active[n] # None
  /\ Fresh(r)
  /\ pending' = [pending EXCEPT ![n] = @ \union {r}]
  /\ Say(n, <<[kind |-> "acquire", req |-> r]>>)
  /\ UNCHANGED <<lead, proc, active, aborted, granted, teams>>

\* Mutant: the request is forgotten without a word to the lead.
AcquireForgotten(n, r) ==
  /\ Alive(n) /\ r \in pending[n]
  /\ pending' = [pending EXCEPT ![n] = @ \ {r}]
  /\ UNCHANGED <<lead, up, proc, active, aborted, granted, bounds>>

AcquireTimesOut(n, r) ==
  /\ Alive(n) /\ r \in pending[n]
  /\ pending' = [pending EXCEPT ![n] = @ \ {r}]
  /\ Say(n, Releases({r}))
  /\ UNCHANGED <<lead, proc, active, aborted, granted, bounds>>

ReleaseThread(n, r) ==
  /\ Alive(n) /\ r \in granted[n]
  /\ granted' = [granted EXCEPT ![n] = @ \ {r}]
  /\ Say(n, Releases({r}))
  /\ UNCHANGED <<lead, proc, active, aborted, pending, bounds>>

\* The end of runTeammateModeWithStreams, after the run has drained.
Exit(n) ==
  /\ proc[n] = "closing" /\ active[n] = None
  /\ proc' = [proc EXCEPT ![n] = "exited"]
  /\ Say(n, Append(Releases(granted[n]), [kind |-> "ack"]))
  /\ UNCHANGED <<lead, active, aborted, pending, granted, bounds>>

Crash(n) ==
  /\ Alive(n)
  /\ Counted
  /\ proc' = [proc EXCEPT ![n] = "exited"]
  /\ UNCHANGED <<lead, up, active, aborted, pending, granted, teams>>

-----------------------------------------------------------------------------
LeadReads(n) ==
  OnReady(n) \/ OnTaskUpdate(n) \/ OnIdle(n) \/ OnShutdownAck(n) \/ OnThreadAcquire(n) \/ OnThreadRelease(n)

MateReads(n) == OnAssign(n) \/ OnCancel(n) \/ OnThreadResult(n) \/ OnShutdown(n)

Next ==
  \/ CreateTeam \/ Shutdown \/ ShutdownDone \/ ShutdownFails
  \/ \E t \in Tasks : CreateTask(t) \/ StopTask(t)
  \/ \E t \in Tasks, st \in LeadStatuses \union {None} :
       \E deps \in NewDeps[t] \union {lead.deps[t]} : UpdateTask(t, st, deps)
  \/ \E w \in Workspaces : SwitchWorkspace(w)
  \/ \E n \in Mates : AddTeammate(n) \/ Kill(n) \/ LeadReads(n) \/ OnExit(n) \/ MateReads(n)
                      \/ Finish(n) \/ Exit(n) \/ Crash(n)
  \/ \E n \in Mates, r \in Requests : Acquire(n, r) \/ AcquireTimesOut(n, r) \/ ReleaseThread(n, r)

Spec == Init /\ [][Next]_vars

\* The lead's event loop serves the lines and then the exit of every process, a process reads
\* its pipe, and a run that was aborted ends. Nothing is assumed of runs that are left alone,
\* nor of the user.
FairSpec ==
  /\ Spec
  /\ \A n \in Mates :
       /\ WF_vars(LeadReads(n) \/ OnExit(n)) /\ WF_vars(MateReads(n))
       /\ WF_vars(aborted[n] /\ Finish(n))

-----------------------------------------------------------------------------
(* Properties. *)

\* A process never executes a run that the lead does not take to be in progress there: a task
\* is not given out again while the previous attempt at it still runs somewhere.
RunsAreOwned == \A n \in Mates : Alive(n) /\ active[n] # None => Current(n, active[n])

\* A teammate is never given a run while it has one, so it never has to refuse; and a process
\* that is closing, which listens for thread results alone, misses no line but the cancellation
\* of a task that has no run, because the lead put it in progress itself (task_update).
NeverBusy ==
  \A n \in Mates :
    /\ Alive(n) /\ Order(n, "assign") => active[n] = None
    /\ proc[n] = "closing" =>
         \A m \in ToSet(lead.sent[n]) :
           m.kind = "result" \/ (m.kind = "cancel" /\ m.run.task \in lead.byHand)

\* The lead counts a nested thread only while the teammate has or wants it, or its release
\* or the exit of the process is on the way.
NoLeakedLease ==
  \A n \in Mates : \A r \in lead.nested[n] :
    \/ proc[n] = "exited"
    \/ r \in pending[n] \union granted[n]
    \/ [kind |-> "release", req |-> r] \in ToSet(up[n])

\* Processes that really run, and nested threads they really use, stay within the limit.
LimitHolds ==
  LET live == {n \in Mates : Alive(n)}
  IN  Cardinality(live) + Cardinality({p \in live \X Requests : p[2] \in granted[p[1]]}) <= MaxChildren

\* The run inspector shows an attempt as running exactly while it is the attempt in progress at
\* its task. A task in progress without such a record is one the lead put in progress itself,
\* with task_update, since it was last handed out.
RecordsMatch ==
  \A t \in Tasks :
    /\ lead.running[t] # 0 => lead.task[t].status = "in_progress" /\ lead.running[t] = lead.task[t].try
    /\ (lead.record[t] = "running") <=> (lead.running[t] # 0)
    /\ lead.task[t].status = "in_progress" /\ lead.running[t] = 0 => t \in lead.byHand

\* A task whose cancellation was requested ends in the state the lead asked for last, however
\* the run itself ended; only a shutdown overrides that.
RequestKept ==
  [][\A t \in Tasks :
       lead.task[t].cancel /\ ~lead'.task[t].cancel /\ ~lead.closing
         => \/ lead'.task[t].status = lead.requested[t]
            \/ lead.requested[t] = "pending" /\ lead'.task[t].try = lead.task[t].try + 1]_vars

\* A requested cancellation of a task that was handed out takes effect, whatever the teammate
\* was doing and also if it dies. That of a task the lead put in progress itself does not: such
\* a task may name a live owner (a failed task keeps it), whose process has no run to abort.
CancelEnds == []<>(\A t \in Tasks \ lead.byHand : ~lead.task[t].cancel)

\* A task that is ready does not wait beside an idle teammate of its workspace, with two
\* exceptions, both for task_update. It may wait if the update itself made it ready, by new
\* dependencies or by the status of this or another task, and nothing has looked for work since;
\* and while a task is in progress by the lead's own word, the idle lines of its owner are ignored.
Waiting(n, t) ==
  /\ lead.team = "active" /\ ~lead.closing
  /\ lead.lease[n] /\ lead.status[n] = "idle"
  /\ t \in Available(lead) \ lead.passedOver /\ lead.root[t] = lead.home[n]
  /\ \A u \in lead.byHand : lead.task[u].status # "in_progress"
WorkIsHandedOut == []<>(\A n \in Mates, t \in Tasks : ~Waiting(n, t))
=============================================================================
