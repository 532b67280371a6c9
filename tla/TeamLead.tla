------------------------------ MODULE TeamLead ------------------------------
(***************************************************************************)
(* TeamManager.ts and TaskManager.ts: what the lead of a team keeps, and   *)
(* the operations its handlers are built from, as functions from one state *)
(* s of the lead to the next. They nest as the calls of the code do.       *)
(***************************************************************************)
EXTENDS Naturals, SequencesExt

CONSTANTS
  Roster,       \* names of teammates, in the order of the teammates map
  NumTasks,     \* tasks are numbered by createTask's counter
  Deps,         \* blockedBy of each task when it is created
  Workspaces,   \* directories the session may work in
  Requests,     \* IDs of nested thread requests
  MaxChildren,  \* the session's thread limit without the lead
  None

Mates == {Roster[i] : i \in DOMAIN Roster}
Tasks == 1 .. NumTasks

Terminal == {"completed", "failed", "cancelled"}
Requestable == Terminal \union {"pending"}

ASSUME LeadAssumption ==
  /\ NumTasks \in Nat /\ MaxChildren \in Nat
  /\ Roster \in Seq(Mates)
  /\ Deps \in [Tasks -> SUBSET Tasks]
  /\ Workspaces # {}
  /\ IsFiniteSet(Requests)
  /\ None \notin Mates /\ None \notin Requestable /\ None \notin [task : Tasks, try : Nat]

\* An attempt at a task: runId. Attempts of one task are numbered.
Run(t, k) == [task |-> t, try |-> k]

NoTask == [status |-> "absent", owner |-> None, try |-> 0, cancel |-> FALSE]

LeadInit ==
  [workspace |-> CHOOSE w \in Workspaces : TRUE, \* the session's runtime.workspaceRoot
   team |-> "none",                        \* team.status
   closing |-> FALSE,
   stopping |-> FALSE,                     \* shutdownPromise is pending
   status |-> [n \in Mates |-> "none"],    \* of each TeammateProcess
   lease |-> [n \in Mates |-> FALSE],      \* processLeases
   nested |-> [n \in Mates |-> {}],        \* nestedLeases
   last |-> [n \in Mates |-> None],        \* lastAssignedRuns
   home |-> [n \in Mates |-> None],        \* teammateWorkspaces
   task |-> [t \in Tasks |-> NoTask],
   deps |-> [t \in Tasks |-> {}],          \* blockedBy
   root |-> [t \in Tasks |-> None],        \* workspaceRoot of each task
   requested |-> [t \in Tasks |-> None],   \* requestedTaskStates
   running |-> [t \in Tasks |-> 0],        \* taskRuns: the attempt, 0 if there is none
   record |-> [t \in Tasks |-> "none"],    \* run store: the status of the latest attempt
   byHand |-> {},                          \* history: tasks the lead put in progress itself
   passedOver |-> {},                      \* history: tasks it made ready, not looked at since
   sent |-> [n \in Mates |-> <<>>]]        \* written to the stdin of each process

\* Mutant: nested threads are not counted.
UsedByProcesses(s) == Cardinality({n \in Mates : s.lease[n]})

\* SessionThreadBudget: threads in use besides the lead.
Used(s) ==
  Cardinality({n \in Mates : s.lease[n]}) + Cardinality({p \in Mates \X Requests : p[2] \in s.nested[p[1]]})

\* TaskManager.updateTask with a status, as a function on one task and on the lead's state.
WithStatus(task, st) ==
  CASE st \in Terminal -> [task EXCEPT !.status = st, !.cancel = FALSE]
    [] st = "pending" -> [task EXCEPT !.status = st, !.owner = None, !.cancel = FALSE]
    [] OTHER -> [task EXCEPT !.status = st]

SetStatus(s, t, st) == [s EXCEPT !.task[t] = WithStatus(@, st)]

Available(s) ==
  {t \in Tasks : s.task[t].status = "pending" /\ \A d \in s.deps[t] : s.task[d].status = "completed"}

Write(s, n, m) == [s EXCEPT !.sent[n] = Append(@, m)]

-----------------------------------------------------------------------------
(* tryAssignIdleTeammate *)

Idle(s) == {n \in Mates : s.status[n] = "idle" /\ s.lease[n]}
Place(n) == CHOOSE i \in DOMAIN Roster : Roster[i] = n

\* The loop gives each idle teammate the first task left that belongs to its workspace, so in
\* each workspace the i-th of them takes the i-th available task. Tasks have a workspace: the
\* tools that create them set it.
Handout(s) ==
  LET before(t) == Cardinality({u \in Available(s) : s.root[u] = s.root[t] /\ u < t})
      ahead(n) == Cardinality({m \in Idle(s) : s.home[m] = s.home[n] /\ Place(m) < Place(n)})
      takers(t) == {n \in Idle(s) : s.home[n] = s.root[t] /\ ahead(n) = before(t)}
  IN  [t \in {u \in Available(s) : takers(u) # {}} |-> CHOOSE n \in takers(t) : TRUE]

\* The tasks in the domain of to are assigned, with new runs, to the teammates it names.
Assign(s, to) ==
  LET given == DOMAIN to
      next(t) == Run(t, s.task[t].try + 1)
      busy == {to[t] : t \in given}
      runOf(n) == next(CHOOSE t \in given : to[t] = n)
  IN  [s EXCEPT
        !.task = [t \in Tasks |-> IF t \in given THEN [s.task[t] EXCEPT !.status = "in_progress", !.owner = to[t],
                                                                        !.try = @ + 1] ELSE s.task[t]],
        !.running = [t \in Tasks |-> IF t \in given THEN next(t).try ELSE s.running[t]],
        !.record = [t \in Tasks |-> IF t \in given THEN "running" ELSE s.record[t]],
        !.last = [n \in Mates |-> IF n \in busy THEN runOf(n) ELSE s.last[n]],
        !.status = [n \in Mates |-> IF n \in busy THEN "working" ELSE s.status[n]],
        !.sent = [n \in Mates |-> IF n \in busy THEN Append(s.sent[n], [kind |-> "assign", run |-> runOf(n)])
                                  ELSE s.sent[n]],
        !.byHand = @ \ given, !.passedOver = {}]

TryAssign(s) == IF s.closing \/ s.team # "active" THEN s ELSE Assign(s, Handout(s))

-----------------------------------------------------------------------------
(* requestTaskState, for each of a set of tasks *)

Asked(s, t) == IF s.requested[t] = None THEN "cancelled" ELSE s.requested[t]

Cancel(s, t) == [kind |-> "cancel", run |-> Run(t, s.task[t].try)]

\* Mutant: the requested state is set at once, without waiting for the run to end.
StopAtOnce(s, S, st) ==
  LET open == {t \in S : s.task[t].status \notin Terminal \union {"absent"}}
      told == {t \in open : s.task[t].status = "in_progress"}
      ended == {t \in open : s.running[t] # 0 /\ st \in Terminal}
  IN  [s EXCEPT
        !.task = [t \in Tasks |-> IF t \in open THEN WithStatus(s.task[t], st) ELSE s.task[t]],
        !.record = [t \in Tasks |-> IF t \in ended THEN st ELSE s.record[t]],
        !.running = [t \in Tasks |-> IF t \in ended THEN 0 ELSE s.running[t]],
        !.sent = [n \in Mates |-> s.sent[n] \o SetToSeq({Cancel(s, t) : t \in {u \in told : s.task[u].owner = n}})]]

\* A task that runs in a live process is cancelled there first; one that was cancelled before
\* keeps its run and gets the new request; any other that has not ended gets the state at once.
RequestState(s, S, st) ==
  LET open == {t \in S : s.task[t].status \notin Terminal \union {"absent"}}
      fresh == {t \in open : ~s.task[t].cancel}
      told == {t \in fresh : s.task[t].status = "in_progress" /\ s.task[t].owner # None /\ s.lease[s.task[t].owner]}
      atOnce == fresh \ told
      ended == {t \in atOnce : s.running[t] # 0 /\ st \in Terminal}
  IN  [s EXCEPT
        !.task = [t \in Tasks |-> IF t \in told THEN [s.task[t] EXCEPT !.cancel = TRUE]
                                  ELSE IF t \in atOnce THEN WithStatus(s.task[t], st) ELSE s.task[t]],
        !.requested = [t \in Tasks |-> IF t \in atOnce THEN None ELSE IF t \in open THEN st ELSE s.requested[t]],
        !.record = [t \in Tasks |-> IF t \in ended THEN st ELSE s.record[t]],
        !.running = [t \in Tasks |-> IF t \in ended THEN 0 ELSE s.running[t]],
        !.sent = [n \in Mates |-> s.sent[n] \o SetToSeq({Cancel(s, t) : t \in {u \in told : s.task[u].owner = n}})]]

\* Mutant: the run's own outcome wins over the state the lead asked for.
SettleOwn(s, S, own, asked) ==
  [s EXCEPT
    !.task = [t \in Tasks |-> IF t \in S THEN WithStatus(s.task[t], own) ELSE s.task[t]],
    !.requested = [t \in Tasks |-> IF t \in S THEN None ELSE s.requested[t]],
    !.record = [t \in Tasks |-> IF t \in S /\ s.running[t] # 0 THEN own ELSE s.record[t]],
    !.running = [t \in Tasks |-> IF t \in S THEN 0 ELSE s.running[t]]]

\* What runs that end leave behind, each with the terminal status own: the state the lead
\* asked for, or that outcome; and the end of the run in the run store.
Settle(s, S, own, asked) ==
  [s EXCEPT
    !.task = [t \in Tasks |-> IF t \in S THEN WithStatus(s.task[t], IF s.task[t].cancel THEN asked[t] ELSE own)
                              ELSE s.task[t]],
    !.requested = [t \in Tasks |-> IF t \in S THEN None ELSE s.requested[t]],
    !.record = [t \in Tasks |-> IF t \in S /\ s.running[t] # 0 THEN IF s.task[t].cancel THEN "cancelled" ELSE own
                                ELSE s.record[t]],
    !.running = [t \in Tasks |-> IF t \in S THEN 0 ELSE s.running[t]]]

-----------------------------------------------------------------------------
(* releaseProcessLeases and the rest of handleTeammateExit *)

\* Mutant: the last run assigned to the process is kept.
ReleaseLeases(s, n) ==
  [s EXCEPT !.lease[n] = FALSE, !.nested[n] = {}, !.sent[n] = <<>>]

Release(s, n) ==
  [s EXCEPT !.lease[n] = FALSE, !.nested[n] = {}, !.last[n] = None, !.sent[n] = <<>>]

\* Mutant: the tasks of the process fail, their records stay.
ExitedTasksOnly(s, n) ==
  LET mine == {t \in Tasks : s.task[t].owner = n /\ s.task[t].status = "in_progress"}
  IN  [Release(s, n) EXCEPT
        !.status[n] = "shutdown",
        !.task = [t \in Tasks |-> IF t \in mine THEN WithStatus(s.task[t], "failed") ELSE s.task[t]],
        !.requested = [t \in Tasks |-> IF t \in mine THEN None ELSE s.requested[t]]]

Exited(s, n) ==
  LET mine == {t \in Tasks : s.task[t].owner = n /\ s.task[t].status = "in_progress"}
      asked == [t \in Tasks |-> IF s.closing THEN "cancelled" ELSE Asked(s, t)]
  IN  Settle([Release(s, n) EXCEPT !.status[n] = "shutdown"], mine, IF s.closing THEN "cancelled" ELSE "failed", asked)
=============================================================================
