----------------------------- MODULE TeamProofs -----------------------------
(***************************************************************************)
(* Theorems about Team: its types, the thread limit, and that no nested    *)
(* thread stays counted when nobody uses it.                               *)
(***************************************************************************)
EXTENDS Team, LineProofs, FiniteSetTheorems

-----------------------------------------------------------------------------
(* Finite sets put in some order. *)

\* The elements of a finite set in some order.
LEMMA SetToSeqFacts ==
  ASSUME NEW S, NEW A \in SUBSET S, IsFiniteSet(A)
  PROVE  /\ SetToSeq(A) \in Seq(S)
         /\ ToSet(SetToSeq(A)) = A
         /\ \A x, y : Before(SetToSeq(A), x, y) => x \in A /\ y \in A
<1> DEFINE n == Cardinality(A)
           f == SetToSeq(A)
<1>1. n \in Nat /\ ExistsBijection(1 .. n, A)
  BY FS_CardinalityType
<1>2. PICK b : b \in Bijection(1 .. n, A)
  BY <1>1 DEF ExistsBijection
<1>3. b \in [1 .. n -> A] /\ IsInjective(b)
  BY <1>2 DEF Bijection, Injection
<1>4. f \in [1 .. n -> A] /\ IsInjective(f)
  BY <1>3 DEF SetToSeq
<1>5. f \in Injection(1 .. n, A)
  BY <1>4 DEF Injection
<1>6. Cardinality(1 .. n) = n
  BY <1>1, FS_Interval
<1> HIDE DEF f
<1>7. f \in Surjection(1 .. n, A)
  BY <1>5, <1>6, FS_Injection
<1>8. \A x \in A : \E i \in 1 .. n : f[i] = x
  BY <1>7 DEF Surjection
<1>9. DOMAIN f = 1 .. n /\ f \in Seq(S)
  BY <1>1, <1>4
<1>10. ToSet(f) = A
  BY <1>4, <1>8, <1>9 DEF ToSet
<1>11. \A x, y : Before(f, x, y) => x \in A /\ y \in A
  BY <1>4, <1>9 DEF Before
<1> QED
  BY <1>9, <1>10, <1>11 DEF f

-----------------------------------------------------------------------------
(* Types. *)

Task == [status : Requestable \union {"absent", "in_progress"}, owner : Mates \union {None},
         try : 0 .. MaxTries, cancel : BOOLEAN]

LeadMsg ==
  [kind : {"assign", "cancel"}, run : Runs] \union [kind : {"result"}, req : Requests, ok : BOOLEAN]
  \union [kind : {"shutdown"}]

MateMsg ==
  [kind : {"ready", "ack"}] \union [kind : {"idle"}, run : Runs]
  \union [kind : {"update"}, run : Runs, status : Terminal \union {"in_progress"}]
  \union [kind : {"acquire", "release"}, req : Requests]

Lead ==
  [workspace : Workspaces, team : {"none", "active", "completed"}, closing : BOOLEAN, stopping : BOOLEAN,
   status : [Mates -> {"none", "spawning", "idle", "working", "shutdown"}],
   lease : [Mates -> BOOLEAN], nested : [Mates -> SUBSET Requests], last : [Mates -> Runs \union {None}],
   home : [Mates -> Workspaces \union {None}], task : [Tasks -> Task], deps : [Tasks -> SUBSET Tasks],
   root : [Tasks -> Workspaces \union {None}], requested : [Tasks -> Requestable \union {None}], running : [Tasks -> 0 .. MaxTries],
   record : [Tasks -> Terminal \union {"none", "running"}], byHand : SUBSET Tasks,
   passedOver : SUBSET Tasks, sent : [Mates -> Seq(LeadMsg)]]

\* A task that may be given out, now or when the lead's request is granted, has an attempt
\* left; and only of a task in progress anything is asked.
TaskOk(s, t) ==
  /\ s.task[t].status \in {"absent", "pending"} \/ s.requested[t] = "pending" => s.task[t].try < MaxTries
  /\ s.task[t].status # "in_progress" => s.requested[t] = None /\ ~s.task[t].cancel

TasksOk(s) == \A t \in Tasks : TaskOk(s, t)

\* The lead remembers nothing about a process that it does not hold a lease for.
Forgotten(s, n) == s.last[n] = None /\ s.nested[n] = {} /\ s.sent[n] = <<>>

LeadOk(s) == s \in Lead /\ TasksOk(s) /\ \A n \in Mates : ~s.lease[n] => Forgotten(s, n)

\* The parts of the lead's state that work on tasks leaves alone.
SameTeam(s, z) ==
  /\ z.team = s.team /\ z.closing = s.closing /\ z.stopping = s.stopping
  /\ z.lease = s.lease /\ z.nested = s.nested

MatesTyped ==
  /\ up \in [Mates -> Seq(MateMsg)]
  /\ proc \in [Mates -> {"none", "live", "closing", "exited"}]
  /\ active \in [Mates -> Runs \union {None}] /\ aborted \in [Mates -> BOOLEAN]
  /\ pending \in [Mates -> SUBSET Requests] /\ granted \in [Mates -> SUBSET Requests]

MateOk(n) ==
  /\ lead.lease[n] <=> proc[n] # "none"
  /\ proc[n] = "none" => up[n] = <<>> /\ active[n] = None /\ pending[n] = {} /\ granted[n] = {}
  /\ aborted[n] => active[n] # None

\* What every state of the system looks like.
TeamInv == LeadOk(lead) /\ MatesTyped /\ \A n \in Mates : MateOk(n)

-----------------------------------------------------------------------------
(* What the operations of TeamLead do. *)

LEMMA Finiteness ==
  /\ IsFiniteSet(Mates) /\ IsFiniteSet(Tasks) /\ Tasks \subseteq Nat
  /\ MaxTries \in Nat \ {0} /\ MaxChildren \in Nat /\ IsFiniteSet(Requests)
<1>1. Roster \in Seq(Mates) /\ NumTasks \in Nat
  BY LeadAssumption
<1>2. DOMAIN Roster = 1 .. Len(Roster) /\ Len(Roster) \in Nat
  BY <1>1, LenProperties
<1>3. IsFiniteSet(DOMAIN Roster)
  BY <1>2, FS_Interval
<1>4. Roster \in Surjection(DOMAIN Roster, Mates)
  BY <1>1 DEF Surjection, Mates
<1>5. IsFiniteSet(Mates)
  BY <1>3, <1>4, FS_Surjection
<1>6. IsFiniteSet(Tasks) /\ Tasks \subseteq Nat
  BY <1>1, FS_Interval DEF Tasks
<1> QED
  BY <1>5, <1>6, LeadAssumption, TeamAssumption

LEMMA NoneApart ==
  /\ None \notin Mates /\ None \notin Requestable /\ None \notin Runs
  /\ Terminal \subseteq Requestable /\ "pending" \in Requestable /\ "cancelled" \in Terminal /\ "failed" \in Terminal
  /\ "in_progress" \notin Requestable /\ "absent" \notin Requestable
  /\ LeadStatuses \subseteq Requestable \union {"in_progress"}
<1>1. Runs \subseteq [task : Tasks, try : Nat]
  BY Finiteness DEF Runs
<1> QED
  BY <1>1, LeadAssumption, TeamAssumption DEF Requestable, Terminal

\* updateTask.
LEMMA StatusFacts ==
  ASSUME NEW task \in Task, NEW st \in Requestable \union {"in_progress"}
  PROVE  /\ WithStatus(task, st) \in Task
         /\ WithStatus(task, st).status = st /\ WithStatus(task, st).try = task.try
         /\ st \in Requestable => ~WithStatus(task, st).cancel
         /\ st = "in_progress" => WithStatus(task, st) = [task EXCEPT !.status = "in_progress"]
  BY DEF Task, WithStatus, Requestable, Terminal

\* tryAssignIdleTeammate: which tasks go to whom.
LEMMA HandoutFacts ==
  ASSUME NEW s
  PROVE  /\ DOMAIN Handout(s) \subseteq Available(s)
         /\ \A t \in DOMAIN Handout(s) : Handout(s)[t] \in Idle(s)
         /\ \A t, u \in DOMAIN Handout(s) : Handout(s)[t] = Handout(s)[u] => t = u
<1> DEFINE before(t) == Cardinality({u \in Available(s) : s.root[u] = s.root[t] /\ u < t})
           ahead(n) == Cardinality({m \in Idle(s) : s.home[m] = s.home[n] /\ Place(m) < Place(n)})
           takers(t) == {n \in Idle(s) : s.home[n] = s.root[t] /\ ahead(n) = before(t)}
<1>1. Handout(s) = [t \in {u \in Available(s) : takers(u) # {}} |-> CHOOSE n \in takers(t) : TRUE]
  BY DEF Handout
<1>2. Available(s) \subseteq Tasks
  BY DEF Available
<1>3. ASSUME NEW t \in Available(s), NEW u \in Available(s), s.root[t] = s.root[u], t < u PROVE before(t) # before(u)
  <2> DEFINE A == {v \in Available(s) : s.root[v] = s.root[t] /\ v < t}
             B == {v \in Available(s) : s.root[v] = s.root[u] /\ v < u}
  <2>0. Available(s) \subseteq Nat
    BY <1>2, Finiteness
  <2>1. A \in SUBSET B /\ t \in B /\ t \notin A
    BY <2>0, <1>3
  <2>2. IsFiniteSet(B)
    BY <1>2, Finiteness, FS_Subset
  <2>3. Cardinality(B) = Cardinality(A) => B = A
    BY <2>1, <2>2, FS_Subset
  <2> QED
    BY <2>1, <2>3
<1> HIDE DEF before, ahead
<1>4. ASSUME NEW t \in DOMAIN Handout(s)
      PROVE  /\ t \in Available(s) /\ Handout(s)[t] \in Idle(s)
             /\ s.home[Handout(s)[t]] = s.root[t] /\ ahead(Handout(s)[t]) = before(t)
  <2>1. t \in Available(s) /\ takers(t) # {} /\ Handout(s)[t] = CHOOSE n \in takers(t) : TRUE
    BY <1>1, <1>4
  <2>2. Handout(s)[t] \in takers(t)
    BY <2>1
  <2> QED
    BY <2>1, <2>2
<1>5. ASSUME NEW t \in DOMAIN Handout(s), NEW u \in DOMAIN Handout(s), Handout(s)[t] = Handout(s)[u] PROVE t = u
  <2>1. before(t) = before(u) /\ s.root[t] = s.root[u] /\ t \in Tasks /\ u \in Tasks
    BY <1>2, <1>4, <1>5
  <2>2. t \in Nat /\ u \in Nat
    BY <2>1, Finiteness
  <2>3. ~(t < u) /\ ~(u < t)
    BY <2>1, <1>3, <1>4
  <2> QED
    BY <2>2, <2>3
<1> QED
  BY <1>4, <1>5

LEMMA LeadFields ==
  ASSUME NEW s \in Lead
  PROVE  /\ s.closing \in BOOLEAN /\ s.stopping \in BOOLEAN
         /\ s.byHand \in SUBSET Tasks /\ s.passedOver \in SUBSET Tasks
         /\ \A t \in Tasks : /\ s.task[t] \in Task /\ s.requested[t] \in Requestable \union {None}
                             /\ s.running[t] \in 0 .. MaxTries /\ s.record[t] \in Terminal \union {"none", "running"}
         /\ \A n \in Mates : /\ s.status[n] \in {"none", "spawning", "idle", "working", "shutdown"}
                             /\ s.lease[n] \in BOOLEAN /\ s.nested[n] \in SUBSET Requests
                             /\ s.last[n] \in Runs \union {None} /\ s.sent[n] \in Seq(LeadMsg)
  BY DEF Lead


\* Task t, which is ready, goes to the idle teammate n with a new run.
Gives(s, z, t, n) ==
  LET run == Run(t, s.task[t].try + 1)
  IN  /\ ~s.closing /\ s.team = "active"
      /\ s.task[t].status = "pending" /\ s.task[t].try < MaxTries /\ s.status[n] = "idle" /\ s.lease[n]
      /\ z.task[t] = [s.task[t] EXCEPT !.status = "in_progress", !.owner = n, !.try = @ + 1]
      /\ z.running[t] = run.try /\ z.record[t] = "running"
      /\ z.last[n] = run /\ z.status[n] = "working"
      /\ z.sent[n] = Append(s.sent[n], [kind |-> "assign", run |-> run])

SameTask(s, z, t) == z.task[t] = s.task[t] /\ z.running[t] = s.running[t] /\ z.record[t] = s.record[t]
SameMate(s, z, n) == z.last[n] = s.last[n] /\ z.status[n] = s.status[n] /\ z.sent[n] = s.sent[n]

\* tryAssignIdleTeammate: a matching of ready tasks with idle teammates, and nothing else.
LEMMA TryAssignFacts ==
  ASSUME NEW s, s \in Lead, TasksOk(s), NEW z, z = TryAssign(s)
  PROVE  /\ z \in Lead /\ SameTeam(s, z) /\ z.requested = s.requested
         /\ \A t \in s.byHand \ z.byHand : \E n \in Mates : Gives(s, z, t, n)
         /\ \A t \in Tasks : SameTask(s, z, t) \/ \E n \in Mates : Gives(s, z, t, n)
         /\ \A n \in Mates : SameMate(s, z, n) \/ \E t \in Tasks : Gives(s, z, t, n)
<1>1. CASE s.closing \/ s.team # "active"
  BY <1>1 DEF TryAssign, SameTeam, SameTask, SameMate
<1>2. CASE ~(s.closing \/ s.team # "active")
  <2> DEFINE to == Handout(s)
             given == DOMAIN to
             busy == {to[t] : t \in given}
             next(t) == Run(t, s.task[t].try + 1)
             runOf(n) == next(CHOOSE t \in given : to[t] = n)
  <2>1. z = Assign(s, to)
    BY <1>2 DEF TryAssign
  <2>2. ASSUME NEW t \in given
        PROVE  /\ t \in Tasks /\ s.task[t].status = "pending" /\ s.task[t].try < MaxTries
               /\ s.status[to[t]] = "idle" /\ s.lease[to[t]] /\ to[t] \in Mates
               /\ runOf(to[t]) = next(t)
    <3>1. t \in Available(s) /\ to[t] \in Idle(s) /\ \A u \in given : to[u] = to[t] => u = t
      BY HandoutFacts
    <3>2. t \in Tasks /\ s.task[t].status = "pending"
      BY <3>1 DEF Available
    <3>3. s.task[t].try < MaxTries
      BY <3>2 DEF TasksOk, TaskOk
    <3>4. (CHOOSE u \in given : to[u] = to[t]) = t
      BY <3>1
    <3> QED
      BY <3>1, <3>2, <3>3, <3>4 DEF Idle
  <2>3. ASSUME NEW t \in given
        PROVE  /\ next(t) \in Runs /\ next(t).try \in 0 .. MaxTries
               /\ [s.task[t] EXCEPT !.status = "in_progress", !.owner = to[t], !.try = @ + 1] \in Task
    <3>1. t \in Tasks /\ s.task[t] \in Task /\ s.task[t].try < MaxTries /\ MaxTries \in Nat /\ to[t] \in Mates
      BY <2>2, LeadFields, Finiteness
    <3> HIDE DEF to
    <3>2. s.task[t].try + 1 \in 0 .. MaxTries
      BY <3>1 DEF Task
    <3> QED
      BY <3>1, <3>2 DEF Run, Runs, Task
  <2>4. ASSUME NEW n \in busy PROVE \E t \in given : to[t] = n /\ n \in Mates /\ runOf(n) = next(t)
    BY <2>2
  <2> DEFINE task == [t \in Tasks |-> IF t \in given THEN [s.task[t] EXCEPT !.status = "in_progress", !.owner = to[t],
                                                                          !.try = @ + 1] ELSE s.task[t]]
             running == [t \in Tasks |-> IF t \in given THEN next(t).try ELSE s.running[t]]
             record == [t \in Tasks |-> IF t \in given THEN "running" ELSE s.record[t]]
             last == [n \in Mates |-> IF n \in busy THEN runOf(n) ELSE s.last[n]]
             status == [n \in Mates |-> IF n \in busy THEN "working" ELSE s.status[n]]
             sent == [n \in Mates |-> IF n \in busy THEN Append(s.sent[n], [kind |-> "assign", run |-> runOf(n)])
                                    ELSE s.sent[n]]
  <2>5. z = [s EXCEPT !.task = task, !.running = running, !.record = record, !.last = last, !.status = status, !.sent = sent,
                   !.byHand = @ \ given, !.passedOver = {}]
    BY <2>1 DEF Assign
  <2> HIDE DEF to, given, busy, next, runOf
  <2>6. /\ task \in [Tasks -> Task] /\ running \in [Tasks -> 0 .. MaxTries]
        /\ record \in [Tasks -> Terminal \union {"none", "running"}]
    BY <2>3, LeadFields
  <2>7. last \in [Mates -> Runs \union {None}] /\ status \in [Mates -> {"none", "spawning", "idle", "working", "shutdown"}]
    <3>1. \A n \in busy : runOf(n) \in Runs
      BY <2>3, <2>4
    <3> QED
      BY <3>1, LeadFields
  <2>8. sent \in [Mates -> Seq(LeadMsg)]
    <3>1. ASSUME NEW n \in busy PROVE [kind |-> "assign", run |-> runOf(n)] \in LeadMsg
      BY <2>3, <2>4 DEF LeadMsg
    <3>2. ASSUME NEW n \in Mates PROVE s.sent[n] \in Seq(LeadMsg)
      BY LeadFields
    <3> QED
      BY <3>1, <3>2
  <2> HIDE DEF task, running, record, last, status, sent
  <2>9. /\ z \in Lead /\ SameTeam(s, z) /\ z.requested = s.requested /\ z.byHand = s.byHand \ given
        /\ z.task = task /\ z.running = running /\ z.record = record /\ z.last = last /\ z.status = status /\ z.sent = sent
    <3>1. /\ SameTeam(s, z) /\ z.requested = s.requested /\ z.byHand = s.byHand \ given
          /\ z.task = task /\ z.running = running /\ z.record = record /\ z.last = last /\ z.status = status /\ z.sent = sent
      BY <2>5 DEF Lead, SameTeam
    <3>2. z = [workspace |-> s.workspace, team |-> s.team, closing |-> s.closing, stopping |-> s.stopping,
               status |-> status, lease |-> s.lease, nested |-> s.nested, last |-> last, home |-> s.home,
               task |-> task, deps |-> s.deps, root |-> s.root, requested |-> s.requested, running |-> running,
               record |-> record, byHand |-> s.byHand \ given, passedOver |-> {}, sent |-> sent]
      BY <2>5 DEF Lead
    <3>3. z \in Lead
      BY <3>2, <2>6, <2>7, <2>8 DEF Lead
    <3> QED
      BY <3>1, <3>3
  <2>10. ASSUME NEW t \in given PROVE Gives(s, z, t, to[t])
    <3>1. /\ z.task[t] = [s.task[t] EXCEPT !.status = "in_progress", !.owner = to[t], !.try = @ + 1]
          /\ z.running[t] = next(t).try /\ z.record[t] = "running"
      BY <2>2, <2>9 DEF task, running, record
    <3>2. to[t] \in busy /\ to[t] \in Mates /\ runOf(to[t]) = next(t)
      BY <2>2 DEF busy
    <3>3. /\ z.last[to[t]] = next(t) /\ z.status[to[t]] = "working"
          /\ z.sent[to[t]] = Append(s.sent[to[t]], [kind |-> "assign", run |-> next(t)])
      BY <2>9, <3>2 DEF last, status, sent
    <3> QED
      BY <1>2, <2>2, <3>1, <3>3 DEF Gives, next
  <2>11. ASSUME NEW t \in Tasks PROVE SameTask(s, z, t) \/ \E n \in Mates : Gives(s, z, t, n)
    <3>1. CASE t \in given
      BY <3>1, <2>2, <2>10
    <3>2. CASE t \notin given
      BY <3>2, <2>9 DEF SameTask, task, running, record
    <3> QED
      BY <3>1, <3>2
  <2>12. ASSUME NEW n \in Mates PROVE SameMate(s, z, n) \/ \E t \in Tasks : Gives(s, z, t, n)
    <3>1. CASE n \in busy
      BY <3>1, <2>2, <2>4, <2>10
    <3>2. CASE n \notin busy
      BY <3>2, <2>9 DEF SameMate, last, status, sent
    <3> QED
      BY <3>1, <3>2
  <2>13. \A t \in s.byHand \ z.byHand : \E n \in Mates : Gives(s, z, t, n)
    BY <2>2, <2>9, <2>10
  <2> QED
    BY <2>9, <2>11, <2>12, <2>13
<1> QED
  BY <1>1, <1>2

LEMMA NoLines ==
  ASSUME NEW S, NEW s \in Seq(S), ToSet(s) = {}
  PROVE  s = <<>>
<1>1. DOMAIN s = 1 .. Len(s) /\ Len(s) \in Nat
  BY LenProperties
<1>2. DOMAIN s = {}
  BY DEF ToSet
<1>3. Len(s) = 0
  BY <1>1, <1>2
<1> QED
  BY <1>3, EmptySeq

\* The tasks of S that are cancelled in a live process first.
Open(s, t) == s.task[t].status \notin Terminal \union {"absent"}
Told(s, t) ==
  Open(s, t) /\ ~s.task[t].cancel /\ s.task[t].status = "in_progress" /\ s.task[t].owner # None /\ s.lease[s.task[t].owner]

\* What requestTaskState makes of a task.
Requested(s, z, t, st) ==
  \/ /\ Told(s, t)
     /\ z.task[t] = [s.task[t] EXCEPT !.cancel = TRUE] /\ z.requested[t] = st
     /\ z.running[t] = s.running[t] /\ z.record[t] = s.record[t]
  \/ Open(s, t) /\ s.task[t].cancel /\ SameTask(s, z, t) /\ z.requested[t] = st
  \/ /\ Open(s, t) /\ ~s.task[t].cancel /\ ~Told(s, t)
     /\ z.task[t] = WithStatus(s.task[t], st) /\ z.requested[t] = None
     /\ IF s.running[t] # 0 /\ st \in Terminal
        THEN z.running[t] = 0 /\ z.record[t] = st
        ELSE z.running[t] = s.running[t] /\ z.record[t] = s.record[t]
  \/ ~Open(s, t) /\ SameTask(s, z, t) /\ z.requested[t] = s.requested[t]

\* Lines of cancellation are all that is written, and only to processes that run such a task.
Cancels(s, z, S, n) ==
  /\ ~s.lease[n] => z.sent[n] = s.sent[n]
  /\ \E w \in Seq(LeadMsg) :
       /\ z.sent[n] = s.sent[n] \o w
       /\ \A m \in ToSet(w) : m.kind = "cancel" /\ \E t \in S : Told(s, t) /\ s.task[t].owner = n /\ m.run.task = t

\* What is asked can be granted.
Grantable(s, S, st) == st = "pending" => \A t \in S : s.task[t].try < MaxTries

AllRequested(s, z, S, st) ==
  /\ z.last = s.last /\ z.status = s.status /\ z.byHand = s.byHand
  /\ \A t \in S : Requested(s, z, t, st)
  /\ \A t \in Tasks \ S : SameTask(s, z, t) /\ z.requested[t] = s.requested[t]
  /\ \A n \in Mates : Cancels(s, z, S, n)

\* requestTaskState.
LEMMA RequestFacts ==
  ASSUME NEW s, s \in Lead, TasksOk(s), NEW S \in SUBSET Tasks, NEW st \in Requestable,
         Grantable(s, S, st), NEW z, z = RequestState(s, S, st)
  PROVE  z \in Lead /\ TasksOk(z) /\ SameTeam(s, z) /\ AllRequested(s, z, S, st)
<1> DEFINE open == {t \in S : s.task[t].status \notin Terminal \union {"absent"}}
           fresh == {t \in open : ~s.task[t].cancel}
           told == {t \in fresh : s.task[t].status = "in_progress" /\ s.task[t].owner # None /\ s.lease[s.task[t].owner]}
           atOnce == fresh \ told
           ended == {t \in atOnce : s.running[t] # 0 /\ st \in Terminal}
           lines(n) == SetToSeq({Cancel(s, t) : t \in {u \in told : s.task[u].owner = n}})
           task == [t \in Tasks |-> IF t \in told THEN [s.task[t] EXCEPT !.cancel = TRUE]
                                    ELSE IF t \in atOnce THEN WithStatus(s.task[t], st) ELSE s.task[t]]
           requested == [t \in Tasks |-> IF t \in atOnce THEN None ELSE IF t \in open THEN st ELSE s.requested[t]]
           record == [t \in Tasks |-> IF t \in ended THEN st ELSE s.record[t]]
           running == [t \in Tasks |-> IF t \in ended THEN 0 ELSE s.running[t]]
           sent == [n \in Mates |-> s.sent[n] \o lines(n)]
<1>1. z = [s EXCEPT !.task = task, !.requested = requested, !.record = record, !.running = running, !.sent = sent]
  BY DEF RequestState
<1>2. \A t \in S : /\ t \in told <=> Told(s, t)
                   /\ t \in open <=> Open(s, t)
                   /\ t \in atOnce <=> Open(s, t) /\ ~s.task[t].cancel /\ ~Told(s, t)
                   /\ t \in ended <=> t \in atOnce /\ s.running[t] # 0 /\ st \in Terminal
  BY DEF Told, Open
<1>3. told \subseteq S /\ open \subseteq S /\ atOnce \subseteq S /\ ended \subseteq S
  OBVIOUS
<1>4. ASSUME NEW n \in Mates
      PROVE  /\ lines(n) \in Seq(LeadMsg)
             /\ \A m \in ToSet(lines(n)) :
                  m.kind = "cancel" /\ \E t \in S : Told(s, t) /\ s.task[t].owner = n /\ m.run.task = t
             /\ ~s.lease[n] => lines(n) = <<>>
  <2> DEFINE own == {u \in told : s.task[u].owner = n}
             A == {Cancel(s, t) : t \in own}
  <2>1. A \subseteq LeadMsg
    <3>1. ASSUME NEW t \in own PROVE Cancel(s, t) \in LeadMsg
      <4>1. t \in Tasks /\ s.task[t].try \in 0 .. MaxTries
        BY LeadFields DEF Task
      <4> QED
        BY <4>1 DEF Cancel, Run, Runs, LeadMsg
    <3> QED
      BY <3>1
  <2>2. IsFiniteSet(A)
    <3> DEFINE f == [t \in own |-> Cancel(s, t)]
    <3>1. IsFiniteSet(own)
      BY <1>3, Finiteness, FS_Subset
    <3>2. f \in Surjection(own, A)
      BY DEF Surjection
    <3> HIDE DEF f, own, A
    <3> QED
      BY <3>1, <3>2, FS_Surjection
  <2>3. lines(n) = SetToSeq(A)
    OBVIOUS
  <2>4. A \in SUBSET LeadMsg
    BY <2>1
  <2>5. \A m \in A : m.kind = "cancel" /\ \E t \in S : Told(s, t) /\ s.task[t].owner = n /\ m.run.task = t
    BY <1>2, <1>3 DEF Cancel, Run
  <2>6. ~s.lease[n] => A = {}
    BY <1>2, <1>3 DEF Told
  <2> HIDE DEF A
  <2>7. lines(n) \in Seq(LeadMsg) /\ ToSet(lines(n)) = A
    BY <2>2, <2>3, <2>4, SetToSeqFacts
  <2> QED
    BY <2>5, <2>6, <2>7, NoLines
<1> HIDE DEF open, told, atOnce, ended, lines
<1>5. /\ task \in [Tasks -> Task] /\ requested \in [Tasks -> Requestable \union {None}]
      /\ running \in [Tasks -> 0 .. MaxTries] /\ record \in [Tasks -> Terminal \union {"none", "running"}]
  <2>1. ASSUME NEW t \in Tasks PROVE [s.task[t] EXCEPT !.cancel = TRUE] \in Task /\ WithStatus(s.task[t], st) \in Task
    <3>1. s.task[t] \in Task
      BY LeadFields
    <3> QED
      BY <3>1, StatusFacts DEF Task
  <2>2. 0 \in 0 .. MaxTries
    BY Finiteness
  <2>3. ended # {} => st \in Terminal
    BY <1>2, <1>3
  <2> QED
    BY <2>1, <2>2, <2>3, LeadFields
<1>6. sent \in [Mates -> Seq(LeadMsg)]
  <2>1. \A n \in Mates : s.sent[n] \o lines(n) \in Seq(LeadMsg)
    BY <1>4, LeadFields, ConcatFacts
  <2> QED
    BY <2>1
<1> HIDE DEF task, requested, record, running, sent
<1>7. /\ SameTeam(s, z) /\ z.last = s.last /\ z.status = s.status /\ z.byHand = s.byHand /\ z.task = task /\ z.requested = requested
      /\ z.record = record /\ z.running = running /\ z.sent = sent
  BY <1>1 DEF Lead, SameTeam
<1>8. z = [workspace |-> s.workspace, team |-> s.team, closing |-> s.closing, stopping |-> s.stopping,
           status |-> s.status, lease |-> s.lease, nested |-> s.nested, last |-> s.last, home |-> s.home,
           task |-> task, deps |-> s.deps, root |-> s.root, requested |-> requested, running |-> running,
           record |-> record, byHand |-> s.byHand, passedOver |-> s.passedOver, sent |-> sent]
  BY <1>1 DEF Lead
<1>9. z \in Lead
  BY <1>8, <1>5, <1>6 DEF Lead
<1>10. ASSUME NEW t \in S PROVE Requested(s, z, t, st)
  BY <1>2, <1>7 DEF Requested, SameTask, task, requested, record, running, Told
<1>11. ASSUME NEW t \in Tasks \ S PROVE SameTask(s, z, t) /\ z.requested[t] = s.requested[t]
  BY <1>3, <1>7 DEF SameTask, task, requested, record, running
<1>12. TasksOk(z)
  <2>1. ASSUME NEW t \in S PROVE TaskOk(z, t)
    <3>1. s.task[t] \in Task /\ s.requested[t] \in Requestable \union {None}
      BY LeadFields
    <3>2. /\ WithStatus(s.task[t], st).status = st /\ WithStatus(s.task[t], st).try = s.task[t].try
          /\ ~WithStatus(s.task[t], st).cancel
      BY <3>1, StatusFacts
    <3>3. [s.task[t] EXCEPT !.cancel = TRUE].status = s.task[t].status /\ [s.task[t] EXCEPT !.cancel = TRUE].try = s.task[t].try
      BY <3>1 DEF Task
    <3>4. TaskOk(s, t)
      BY DEF TasksOk
    <3> QED
      BY <1>10, <3>2, <3>3, <3>4, NoneApart DEF Requested, SameTask, Told, TaskOk, Grantable
  <2>2. ASSUME NEW t \in Tasks \ S PROVE TaskOk(z, t)
    BY <1>11 DEF TasksOk, TaskOk, SameTask
  <2> QED
    BY <2>1, <2>2 DEF TasksOk
<1>13. ASSUME NEW n \in Mates PROVE Cancels(s, z, S, n)
  <2>1. z.sent[n] = s.sent[n] \o lines(n)
    BY <1>7 DEF sent
  <2>2. s.sent[n] \o <<>> = s.sent[n]
    BY LeadFields, ConcatEmptySeq
  <2> QED
    BY <1>4, <2>1, <2>2 DEF Cancels
<1> QED
  BY <1>7, <1>9, <1>10, <1>11, <1>12, <1>13 DEF AllRequested

\* Runs of S end with the outcome own, or with what was asked; the other tasks are left alone.
Settled(s, z, S, own, asked) ==
  /\ \A t \in S : /\ z.task[t] = WithStatus(s.task[t], IF s.task[t].cancel THEN asked[t] ELSE own)
                  /\ z.requested[t] = None /\ z.running[t] = 0
                  /\ z.record[t] = IF s.running[t] # 0 THEN IF s.task[t].cancel THEN "cancelled" ELSE own
                                   ELSE s.record[t]
  /\ \A t \in Tasks \ S : SameTask(s, z, t) /\ z.requested[t] = s.requested[t]

\* The end of runs.
LEMMA SettleFacts ==
  ASSUME NEW s, s \in Lead, TasksOk(s), NEW S \in SUBSET Tasks, NEW own \in Terminal, NEW asked \in [Tasks -> Requestable],
         \A t \in S : s.task[t].cancel /\ asked[t] = "pending" => s.task[t].try < MaxTries,
         NEW z, z = Settle(s, S, own, asked)
  PROVE  /\ z \in Lead /\ TasksOk(z) /\ SameTeam(s, z) /\ z.last = s.last /\ z.status = s.status /\ z.sent = s.sent
         /\ z.byHand = s.byHand /\ Settled(s, z, S, own, asked)
<1> DEFINE to(t) == IF s.task[t].cancel THEN asked[t] ELSE own
           task == [t \in Tasks |-> IF t \in S THEN WithStatus(s.task[t], to(t)) ELSE s.task[t]]
           requested == [t \in Tasks |-> IF t \in S THEN None ELSE s.requested[t]]
           record == [t \in Tasks |-> IF t \in S /\ s.running[t] # 0 THEN IF s.task[t].cancel THEN "cancelled" ELSE own
                                      ELSE s.record[t]]
           running == [t \in Tasks |-> IF t \in S THEN 0 ELSE s.running[t]]
<1>1. z = [s EXCEPT !.task = task, !.requested = requested, !.record = record, !.running = running]
  BY DEF Settle
<1>2. \A t \in Tasks : to(t) \in Requestable
  BY NoneApart
<1> HIDE DEF to
<1>3. \A t \in Tasks : /\ s.task[t] \in Task /\ WithStatus(s.task[t], to(t)) \in Task
                       /\ WithStatus(s.task[t], to(t)).status = to(t) /\ WithStatus(s.task[t], to(t)).try = s.task[t].try
                       /\ ~WithStatus(s.task[t], to(t)).cancel
  <2>1. ASSUME NEW t \in Tasks
        PROVE  /\ s.task[t] \in Task /\ WithStatus(s.task[t], to(t)) \in Task
               /\ WithStatus(s.task[t], to(t)).status = to(t) /\ WithStatus(s.task[t], to(t)).try = s.task[t].try
               /\ ~WithStatus(s.task[t], to(t)).cancel
    <3>1. s.task[t] \in Task
      BY LeadFields
    <3> QED
      BY <3>1, <1>2, StatusFacts
  <2> QED
    BY <2>1
<1>4. /\ task \in [Tasks -> Task] /\ requested \in [Tasks -> Requestable \union {None}]
      /\ running \in [Tasks -> 0 .. MaxTries] /\ record \in [Tasks -> Terminal \union {"none", "running"}]
  <2>1. 0 \in 0 .. MaxTries /\ "cancelled" \in Terminal
    BY Finiteness, NoneApart
  <2> QED
    BY <1>3, <2>1, LeadFields
<1> HIDE DEF task, requested, record, running
<1>5. /\ SameTeam(s, z) /\ z.last = s.last /\ z.status = s.status /\ z.sent = s.sent /\ z.byHand = s.byHand
      /\ z.task = task /\ z.requested = requested /\ z.record = record /\ z.running = running
  BY <1>1 DEF Lead, SameTeam
<1>6. z = [workspace |-> s.workspace, team |-> s.team, closing |-> s.closing, stopping |-> s.stopping,
           status |-> s.status, lease |-> s.lease, nested |-> s.nested, last |-> s.last, home |-> s.home,
           task |-> task, deps |-> s.deps, root |-> s.root, requested |-> requested, running |-> running,
           record |-> record, byHand |-> s.byHand, passedOver |-> s.passedOver, sent |-> s.sent]
  BY <1>1 DEF Lead
<1>7. z \in Lead
  BY <1>4, <1>6 DEF Lead
<1>8. ASSUME NEW t \in S
      PROVE  /\ z.task[t] = WithStatus(s.task[t], to(t)) /\ z.requested[t] = None /\ z.running[t] = 0
             /\ z.record[t] = IF s.running[t] # 0 THEN IF s.task[t].cancel THEN "cancelled" ELSE own ELSE s.record[t]
  BY <1>5 DEF task, requested, record, running
<1>9. ASSUME NEW t \in Tasks \ S PROVE SameTask(s, z, t) /\ z.requested[t] = s.requested[t]
  BY <1>5 DEF SameTask, task, requested, record, running
<1>10. TasksOk(z)
  <2>1. ASSUME NEW t \in S PROVE TaskOk(z, t)
    <3>1. TaskOk(s, t)
      BY DEF TasksOk
    <3> QED
      BY <1>2, <1>3, <1>8, <3>1, NoneApart DEF TaskOk, to, Terminal
  <2>2. ASSUME NEW t \in Tasks \ S PROVE TaskOk(z, t)
    BY <1>9 DEF TasksOk, TaskOk, SameTask
  <2> QED
    BY <2>1, <2>2 DEF TasksOk
<1> QED
  BY <1>5, <1>7, <1>8, <1>9, <1>10 DEF to, Settled

\* What the lead asked for can be granted.
LEMMA AskedFacts ==
  ASSUME NEW s, s \in Lead, TasksOk(s)
  PROVE  /\ [t \in Tasks |-> Asked(s, t)] \in [Tasks -> Requestable]
         /\ \A t \in Tasks : Asked(s, t) = "pending" => s.task[t].try < MaxTries
<1>1. ASSUME NEW t \in Tasks PROVE Asked(s, t) \in Requestable /\ (Asked(s, t) = "pending" => s.task[t].try < MaxTries)
  BY LeadFields, NoneApart DEF Asked, TasksOk, TaskOk
<1> QED
  BY <1>1

RunsOn(s, n) == {t \in Tasks : s.task[t].owner = n /\ s.task[t].status = "in_progress"}
ExitOutcome(s) == IF s.closing THEN "cancelled" ELSE "failed"
ExitAsked(s) == [t \in Tasks |-> IF s.closing THEN "cancelled" ELSE Asked(s, t)]

\* The lead hears that a process is gone.
LEMMA ExitFacts ==
  ASSUME NEW s, s \in Lead, TasksOk(s), NEW n \in Mates, NEW z, z = Exited(s, n)
  PROVE  /\ z \in Lead /\ TasksOk(z)
         /\ z.team = s.team /\ z.closing = s.closing /\ z.stopping = s.stopping /\ z.byHand = s.byHand
         /\ ~z.lease[n] /\ z.status[n] = "shutdown" /\ Forgotten(z, n)
         /\ \A m \in Mates \ {n} : SameMate(s, z, m) /\ z.lease[m] = s.lease[m] /\ z.nested[m] = s.nested[m]
         /\ Settled(s, z, RunsOn(s, n), ExitOutcome(s), ExitAsked(s))
<1> DEFINE mine == {t \in Tasks : s.task[t].owner = n /\ s.task[t].status = "in_progress"}
           own == IF s.closing THEN "cancelled" ELSE "failed"
           asked == [t \in Tasks |-> IF s.closing THEN "cancelled" ELSE Asked(s, t)]
           y == [Release(s, n) EXCEPT !.status[n] = "shutdown"]
<1>1. z = Settle(y, mine, own, asked)
  BY DEF Exited
<1> DEFINE status == [s.status EXCEPT ![n] = "shutdown"]
           lease == [s.lease EXCEPT ![n] = FALSE]
           nested == [s.nested EXCEPT ![n] = {}]
           last == [s.last EXCEPT ![n] = None]
           sent == [s.sent EXCEPT ![n] = <<>>]
<1>0. y = [s EXCEPT !.lease = lease, !.nested = nested, !.last = last, !.sent = sent, !.status = status]
  BY DEF Release, Lead
<1>a. /\ status \in [Mates -> {"none", "spawning", "idle", "working", "shutdown"}] /\ lease \in [Mates -> BOOLEAN]
      /\ nested \in [Mates -> SUBSET Requests] /\ last \in [Mates -> Runs \union {None}]
      /\ sent \in [Mates -> Seq(LeadMsg)]
  BY EmptySeq DEF Lead
<1>b. /\ status[n] = "shutdown" /\ ~lease[n] /\ nested[n] = {} /\ last[n] = None /\ sent[n] = <<>>
      /\ \A m \in Mates \ {n} : /\ status[m] = s.status[m] /\ lease[m] = s.lease[m] /\ nested[m] = s.nested[m]
                                /\ last[m] = s.last[m] /\ sent[m] = s.sent[m]
  BY DEF Lead
<1> HIDE DEF y, status, lease, nested, last, sent
<1>2. /\ y.team = s.team /\ y.closing = s.closing /\ y.stopping = s.stopping /\ y.byHand = s.byHand
      /\ y.task = s.task /\ y.requested = s.requested /\ y.running = s.running /\ y.record = s.record
      /\ y.status = status /\ y.lease = lease /\ y.nested = nested /\ y.last = last /\ y.sent = sent
  BY <1>0 DEF Lead
<1>3. y = [workspace |-> s.workspace, team |-> s.team, closing |-> s.closing, stopping |-> s.stopping,
           status |-> status, lease |-> lease, nested |-> nested, last |-> last, home |-> s.home,
           task |-> s.task, deps |-> s.deps, root |-> s.root, requested |-> s.requested, running |-> s.running,
           record |-> s.record, byHand |-> s.byHand, passedOver |-> s.passedOver, sent |-> sent]
  BY <1>0 DEF Lead
<1>4. y \in Lead
  BY <1>3, <1>a DEF Lead
<1>5. TasksOk(y)
  BY <1>2 DEF TasksOk, TaskOk
<1>6. asked \in [Tasks -> Requestable] /\ own \in Terminal
      /\ \A t \in mine : s.task[t].cancel /\ asked[t] = "pending" => s.task[t].try < MaxTries
  <2>1. \A t \in Tasks : Asked(s, t) \in Requestable /\ (Asked(s, t) = "pending" => s.task[t].try < MaxTries)
    BY AskedFacts
  <2> QED
    BY <2>1, NoneApart
<1>7. /\ y.lease[n] = FALSE /\ y.status[n] = "shutdown" /\ Forgotten(y, n)
      /\ \A m \in Mates \ {n} : SameMate(s, y, m) /\ y.lease[m] = s.lease[m] /\ y.nested[m] = s.nested[m]
  BY <1>2, <1>b DEF Forgotten, SameMate
<1>8. mine \in SUBSET Tasks
  OBVIOUS
<1> HIDE DEF mine, own, asked
<1>9. /\ z \in Lead /\ TasksOk(z) /\ SameTeam(y, z) /\ z.last = y.last /\ z.status = y.status /\ z.sent = y.sent
      /\ z.byHand = y.byHand /\ Settled(y, z, mine, own, asked)
  <2>1. \A t \in mine : y.task[t].cancel /\ asked[t] = "pending" => y.task[t].try < MaxTries
    BY <1>2, <1>6
  <2>2. own \in Terminal /\ asked \in [Tasks -> Requestable]
    BY <1>6
  <2> QED
    BY <1>1, <1>4, <1>5, <1>8, <2>1, <2>2, SettleFacts
<1>10. /\ z.team = s.team /\ z.closing = s.closing /\ z.stopping = s.stopping /\ z.byHand = s.byHand
       /\ ~z.lease[n] /\ z.status[n] = "shutdown" /\ Forgotten(z, n)
       /\ \A m \in Mates \ {n} : SameMate(s, z, m) /\ z.lease[m] = s.lease[m] /\ z.nested[m] = s.nested[m]
  BY <1>2, <1>7, <1>9 DEF SameTeam, Forgotten, SameMate
<1>11. Settled(s, z, mine, own, asked)
  BY <1>2, <1>8, <1>9 DEF Settled, SameTask
<1> QED
  BY <1>9, <1>10, <1>11 DEF mine, own, asked, RunsOn, ExitOutcome, ExitAsked

-----------------------------------------------------------------------------
(* Every step keeps the types. *)

LEMMA TryAssignOk ==
  ASSUME NEW s, LeadOk(s)
  PROVE  LeadOk(TryAssign(s)) /\ SameTeam(s, TryAssign(s))
<1> DEFINE z == TryAssign(s)
<1>1. s \in Lead /\ TasksOk(s) /\ \A n \in Mates : ~s.lease[n] => Forgotten(s, n)
  BY DEF LeadOk
<1>2. /\ z \in Lead /\ SameTeam(s, z) /\ z.requested = s.requested
      /\ \A t \in Tasks : SameTask(s, z, t) \/ \E n \in Mates : Gives(s, z, t, n)
      /\ \A n \in Mates : SameMate(s, z, n) \/ \E t \in Tasks : Gives(s, z, t, n)
  BY <1>1, TryAssignFacts
<1> HIDE DEF z
<1>3. TasksOk(z)
  <2>1. ASSUME NEW t \in Tasks, SameTask(s, z, t) PROVE TaskOk(z, t)
    BY <1>1, <1>2, <2>1 DEF SameTask, TasksOk, TaskOk
  <2>2. ASSUME NEW t \in Tasks, NEW n \in Mates, Gives(s, z, t, n) PROVE TaskOk(z, t)
    <3>1. s.task[t] \in Task /\ TaskOk(s, t)
      BY <1>1, LeadFields DEF TasksOk
    <3>2. z.task[t].status = "in_progress"
      BY <2>2, <3>1 DEF Gives, Task
    <3>3. s.task[t].status = "pending"
      BY <2>2 DEF Gives
    <3>4. z.requested = s.requested
      BY <1>2
    <3>5. z.requested[t] = None
      BY <3>1, <3>3, <3>4 DEF TaskOk
    <3> QED
      BY <3>2, <3>5, NoneApart DEF TaskOk
  <2> QED
    BY <1>2, <2>1, <2>2 DEF TasksOk
<1>4. ASSUME NEW n \in Mates, ~z.lease[n] PROVE Forgotten(z, n)
  <2>1. ~s.lease[n] /\ z.nested[n] = s.nested[n]
    BY <1>2, <1>4 DEF SameTeam
  <2>2. \A t \in Tasks : ~Gives(s, z, t, n)
    BY <2>1 DEF Gives
  <2> QED
    BY <1>1, <1>2, <2>1, <2>2 DEF Forgotten, SameMate
<1> QED
  BY <1>2, <1>3, <1>4 DEF LeadOk, z

LEMMA RequestOk ==
  ASSUME NEW s, LeadOk(s), NEW S \in SUBSET Tasks, NEW st \in Requestable,
         Grantable(s, S, st)
  PROVE  LeadOk(RequestState(s, S, st)) /\ SameTeam(s, RequestState(s, S, st))
<1> DEFINE z == RequestState(s, S, st)
<1>0. z = RequestState(s, S, st) /\ s \in Lead /\ TasksOk(s)
  BY DEF LeadOk
<1> HIDE DEF z
<1>1. z \in Lead /\ TasksOk(z) /\ SameTeam(s, z) /\ AllRequested(s, z, S, st)
  BY <1>0, RequestFacts
<1>2. \A n \in Mates : ~z.lease[n] => Forgotten(z, n)
  BY <1>1 DEF LeadOk, Forgotten, SameTeam, Cancels, AllRequested
<1> QED
  BY <1>1, <1>2 DEF LeadOk, z

LEMMA SettleOk ==
  ASSUME NEW s, LeadOk(s), NEW S \in SUBSET Tasks, NEW own \in Terminal
  PROVE  LET z == Settle(s, S, own, [t \in Tasks |-> Asked(s, t)])
         IN  LeadOk(z) /\ SameTeam(s, z)
<1> DEFINE asked == [t \in Tasks |-> Asked(s, t)]
           z == Settle(s, S, own, asked)
<1>1. s \in Lead /\ TasksOk(s)
  BY DEF LeadOk
<1>2. asked \in [Tasks -> Requestable] /\ \A t \in S : s.task[t].cancel /\ asked[t] = "pending" => s.task[t].try < MaxTries
  BY <1>1, AskedFacts
<1> HIDE DEF asked
<1>3. z \in Lead /\ TasksOk(z) /\ SameTeam(s, z) /\ z.last = s.last /\ z.sent = s.sent
  BY <1>1, <1>2, SettleFacts
<1>4. \A n \in Mates : ~z.lease[n] => Forgotten(z, n)
  BY <1>3 DEF LeadOk, Forgotten, SameTeam
<1> QED
  BY <1>3, <1>4 DEF LeadOk, asked

LEMMA ExitOk ==
  ASSUME NEW s, LeadOk(s), NEW n \in Mates
  PROVE  /\ LeadOk(Exited(s, n)) /\ ~Exited(s, n).lease[n]
         /\ \A m \in Mates \ {n} : Exited(s, n).lease[m] = s.lease[m] /\ Exited(s, n).nested[m] = s.nested[m]
<1> DEFINE z == Exited(s, n)
<1>1. z = Exited(s, n) /\ s \in Lead /\ TasksOk(s)
  BY DEF LeadOk
<1> HIDE DEF z
<1>2. /\ z \in Lead /\ TasksOk(z) /\ ~z.lease[n] /\ Forgotten(z, n)
      /\ \A m \in Mates \ {n} : SameMate(s, z, m) /\ z.lease[m] = s.lease[m] /\ z.nested[m] = s.nested[m]
  BY <1>1, ExitFacts
<1>3. \A m \in Mates : ~z.lease[m] => Forgotten(z, m)
  BY <1>2 DEF LeadOk, Forgotten, SameMate
<1> QED
  BY <1>2, <1>3 DEF LeadOk, z

\* One field of one teammate changes.
LEMMA StatusOk ==
  ASSUME NEW s, LeadOk(s), NEW n \in Mates, NEW st \in {"none", "spawning", "idle", "working", "shutdown"}
  PROVE  LeadOk([s EXCEPT !.status[n] = st]) /\ SameTeam(s, [s EXCEPT !.status[n] = st])
<1> DEFINE z == [s EXCEPT !.status[n] = st]
<1>1. s \in Lead
  BY DEF LeadOk
<1>2. z \in Lead
  BY <1>1 DEF Lead
<1>3. SameTeam(s, z) /\ z.task = s.task /\ z.requested = s.requested /\ z.last = s.last /\ z.sent = s.sent
  BY <1>1 DEF Lead, SameTeam
<1> HIDE DEF z
<1>4. LeadOk(z)
  BY <1>2, <1>3 DEF LeadOk, TasksOk, TaskOk, Forgotten, SameTeam
<1> QED
  BY <1>3, <1>4 DEF z

LEMMA SentOk ==
  ASSUME NEW s, LeadOk(s), NEW n \in Mates, NEW w \in Seq(LeadMsg), s.lease[n],
         NEW z, z = [s EXCEPT !.sent[n] = w]
  PROVE  /\ LeadOk(z) /\ z.lease = s.lease /\ z.nested = s.nested
         /\ z.sent[n] = w /\ \A m \in Mates \ {n} : z.sent[m] = s.sent[m]
<1>1. s \in Lead
  BY DEF LeadOk
<1>2. z \in Lead
  BY <1>1 DEF Lead
<1>3. /\ z.lease = s.lease /\ z.task = s.task /\ z.requested = s.requested /\ z.last = s.last /\ z.nested = s.nested
      /\ z.sent[n] = w /\ \A m \in Mates \ {n} : z.sent[m] = s.sent[m]
  BY <1>1 DEF Lead
<1>4. LeadOk(z)
  BY <1>2, <1>3 DEF LeadOk, TasksOk, TaskOk, Forgotten
<1> QED
  BY <1>3, <1>4

LEMMA NestedOk ==
  ASSUME NEW s, LeadOk(s), NEW n \in Mates, NEW A \in SUBSET Requests, s.lease[n],
         NEW z, z = [s EXCEPT !.nested[n] = A]
  PROVE  /\ LeadOk(z) /\ z.lease = s.lease /\ z.sent = s.sent
         /\ z.nested[n] = A /\ \A m \in Mates \ {n} : z.nested[m] = s.nested[m]
<1>1. s \in Lead
  BY DEF LeadOk
<1>2. z \in Lead
  BY <1>1 DEF Lead
<1>3. /\ z.lease = s.lease /\ z.task = s.task /\ z.requested = s.requested /\ z.last = s.last /\ z.sent = s.sent
      /\ z.nested[n] = A /\ \A m \in Mates \ {n} : z.nested[m] = s.nested[m]
  BY <1>1 DEF Lead
<1>4. LeadOk(z)
  BY <1>2, <1>3 DEF LeadOk, TasksOk, TaskOk, Forgotten
<1> QED
  BY <1>3, <1>4

-----------------------------------------------------------------------------
\* The lead acts, and no process is started or noticed to be gone.
LEMMA LeadStep ==
  ASSUME TeamInv, LeadOk(lead'), lead'.lease = lead.lease, UNCHANGED procVars
  PROVE  TeamInv'
  BY DEF TeamInv, MatesTyped, MateOk, procVars

\* The lead takes a line from the pipe of a teammate.
LEMMA ReadStep ==
  ASSUME TeamInv, NEW n \in Mates, LeadOk(lead'), lead'.lease = lead.lease, Taken(n), up[n] # <<>>
  PROVE  TeamInv'
<1>1. up[n] \in Seq(MateMsg) /\ up \in [Mates -> Seq(MateMsg)] /\ lead.lease[n]
  BY DEF TeamInv, MatesTyped, MateOk
<1>2. Tail(up[n]) \in Seq(MateMsg)
  BY <1>1, TailFacts
<1>3. up' = [up EXCEPT ![n] = Tail(up[n])]
  BY DEF Taken
<1> QED
  BY <1>1, <1>2, <1>3 DEF TeamInv, MatesTyped, MateOk, Taken

\* A living teammate writes lines.
LEMMA SayOk ==
  ASSUME TeamInv, NEW n \in Mates, NEW w \in Seq(MateMsg), Say(n, w)
  PROVE  /\ up' \in [Mates -> Seq(MateMsg)] /\ up'[n] = up[n] \o w
         /\ \A m \in Mates \ {n} : up'[m] = up[m]
<1>1. up \in [Mates -> Seq(MateMsg)]
  BY DEF TeamInv, MatesTyped
<1>2. up[n] \o w \in Seq(MateMsg)
  BY <1>1, ConcatFacts
<1>3. up' = [up EXCEPT ![n] = up[n] \o w]
  BY DEF Say
<1> QED
  BY <1>1, <1>2, <1>3

\* It takes a line from the lead.
LEMMA HeardOk ==
  ASSUME TeamInv, NEW n \in Mates, lead.sent[n] # <<>>, Heard(n)
  PROVE  /\ LeadOk(lead') /\ lead'.lease = lead.lease /\ lead'.nested = lead.nested
         /\ Head(lead.sent[n]) \in LeadMsg /\ lead.sent[n] \in Seq(LeadMsg)
         /\ lead'.sent[n] = Tail(lead.sent[n]) /\ \A m \in Mates \ {n} : lead'.sent[m] = lead.sent[m]
<1>1. lead \in Lead /\ lead.lease[n]
  BY DEF TeamInv, LeadOk, Forgotten
<1>2. lead.sent[n] \in Seq(LeadMsg) /\ lead.nested[n] \in SUBSET Requests
  BY <1>1, LeadFields
<1>3. Head(lead.sent[n]) \in LeadMsg /\ Tail(lead.sent[n]) \in Seq(LeadMsg)
  BY <1>2, TailFacts
<1>4. lead' = [lead EXCEPT !.sent[n] = Tail(lead.sent[n])] /\ LeadOk(lead)
  BY DEF Heard, TeamInv
<1>5. LeadOk(lead')
  BY <1>1, <1>3, <1>4, SentOk
<1>6. /\ lead'.lease = lead.lease /\ lead'.nested = lead.nested
      /\ lead'.sent[n] = Tail(lead.sent[n]) /\ \A m \in Mates \ {n} : lead'.sent[m] = lead.sent[m]
  BY <1>1, <1>4 DEF Lead
<1> QED
  BY <1>2, <1>3, <1>5, <1>6

\* A line tells what it carries.
LEMMA UpLines ==
  ASSUME NEW m \in MateMsg
  PROVE  /\ m.kind = "update" => m.run \in Runs /\ m.run.task \in Tasks /\ m.status \in Terminal \union {"in_progress"}
                                 /\ m = Update(m.run, m.status)
         /\ m.kind = "idle" => m.run \in Runs
         /\ m.kind \in {"acquire", "release"} => m.req \in Requests /\ m = [kind |-> m.kind, req |-> m.req]
  BY DEF MateMsg, Update, Runs

LEMMA DownLines ==
  ASSUME NEW m \in LeadMsg
  PROVE  /\ m.kind \in {"assign", "cancel"} => m.run \in Runs /\ m = [kind |-> m.kind, run |-> m.run]
         /\ m.kind = "result" => m.req \in Requests /\ m.ok \in BOOLEAN /\ m = [kind |-> "result", req |-> m.req, ok |-> m.ok]
         /\ m.kind = "shutdown" => m = Stop
         /\ m.kind \in {"assign", "cancel", "result", "shutdown"}
  BY DEF LeadMsg, Stop

LEMMA ReleasesFacts ==
  ASSUME NEW S \in SUBSET Requests
  PROVE  /\ Releases(S) \in Seq(MateMsg)
         /\ ToSet(Releases(S)) = {[kind |-> "release", req |-> r] : r \in S}
         /\ \A x, y : Before(Releases(S), x, y) => x \in ToSet(Releases(S)) /\ y \in ToSet(Releases(S))
<1> DEFINE A == {[kind |-> "release", req |-> r] : r \in S}
           f == [r \in S |-> [kind |-> "release", req |-> r]]
<1>1. A \in SUBSET MateMsg
  BY DEF MateMsg
<1>2. IsFiniteSet(S)
  BY Finiteness, FS_Subset
<1>3. f \in Surjection(S, A)
  BY DEF Surjection
<1>4. Releases(S) = SetToSeq(A)
  BY DEF Releases
<1> HIDE DEF A, f
<1>5. IsFiniteSet(A)
  BY <1>2, <1>3, FS_Surjection
<1>6. Releases(S) \in Seq(MateMsg) /\ ToSet(Releases(S)) = A
      /\ \A x, y : Before(Releases(S), x, y) => x \in A /\ y \in A
  BY <1>1, <1>4, <1>5, SetToSeqFacts
<1> QED
  BY <1>6 DEF A

-----------------------------------------------------------------------------
(* Work on tasks answers no requests for nested threads. *)

Res(r, ok) == [kind |-> "result", req |-> r, ok |-> ok]

\* The lead answers nothing new about r.
FewerAnswers(r, sent, rest) == \A ok \in BOOLEAN : Res(r, ok) \in ToSet(rest) => Res(r, ok) \in ToSet(sent)

NoAnswers(s, z) == \A n \in Mates, r \in Requests : FewerAnswers(r, s.sent[n], z.sent[n])

LEMMA TryAssignQuiet ==
  ASSUME NEW s, LeadOk(s)
  PROVE  NoAnswers(s, TryAssign(s))
<1> DEFINE z == TryAssign(s)
<1>1. s \in Lead /\ TasksOk(s) /\ z = TryAssign(s)
  BY DEF LeadOk
<1> HIDE DEF z
<1>2. \A n \in Mates : SameMate(s, z, n) \/ \E t \in Tasks : Gives(s, z, t, n)
  BY <1>1, TryAssignFacts
<1>3. ASSUME NEW n \in Mates, NEW r \in Requests PROVE FewerAnswers(r, s.sent[n], z.sent[n])
  <2>1. CASE SameMate(s, z, n)
    BY <2>1 DEF SameMate, FewerAnswers
  <2>2. ASSUME NEW t \in Tasks, Gives(s, z, t, n) PROVE FewerAnswers(r, s.sent[n], z.sent[n])
    <3> DEFINE m == [kind |-> "assign", run |-> Run(t, s.task[t].try + 1)]
    <3>1. z.sent[n] = Append(s.sent[n], m) /\ s.sent[n] \in Seq(LeadMsg) /\ s.task[t] \in Task
          /\ s.task[t].try < MaxTries
      BY <1>1, <2>2, LeadFields DEF Gives
    <3>2. m \in LeadMsg
      <4>1. s.task[t].try + 1 \in 0 .. MaxTries
        BY <3>1, Finiteness DEF Task
      <4> QED
        BY <4>1 DEF LeadMsg, Run, Runs
    <3>3. \A ok : m # Res(r, ok)
      BY DEF Res
    <3> HIDE DEF m
    <3>4. ToSet(z.sent[n]) = ToSet(s.sent[n]) \union {m}
      BY <3>1, <3>2, AppendFacts
    <3> QED
      BY <3>3, <3>4 DEF FewerAnswers
  <2> QED
    BY <1>2, <2>1, <2>2
<1> QED
  BY <1>3 DEF NoAnswers, z

LEMMA RequestQuiet ==
  ASSUME NEW s, s \in Lead, NEW z, NEW S, NEW st, AllRequested(s, z, S, st)
  PROVE  NoAnswers(s, z)
<1>1. ASSUME NEW n \in Mates, NEW r \in Requests PROVE FewerAnswers(r, s.sent[n], z.sent[n])
  <2>1. Cancels(s, z, S, n)
    BY DEF AllRequested
  <2>2. PICK w \in Seq(LeadMsg) : z.sent[n] = s.sent[n] \o w /\ \A m \in ToSet(w) : m.kind = "cancel"
    BY <2>1 DEF Cancels
  <2>3. s.sent[n] \in Seq(LeadMsg)
    BY LeadFields
  <2>4. ToSet(z.sent[n]) = ToSet(s.sent[n]) \union ToSet(w)
    BY <2>2, <2>3, ConcatFacts
  <2>5. \A ok : Res(r, ok) \notin ToSet(w)
    BY <2>2 DEF Res
  <2> QED
    BY <2>4, <2>5 DEF FewerAnswers
<1> QED
  BY <1>1 DEF NoAnswers

LEMMA NoAnswersChain ==
  ASSUME NEW s, NEW y, NEW z, NoAnswers(s, y), NoAnswers(y, z)
  PROVE  NoAnswers(s, z)
  BY DEF NoAnswers, FewerAnswers

LEMMA NoAnswersSame ==
  ASSUME NEW s, NEW z, z.sent = s.sent
  PROVE  NoAnswers(s, z)
  BY DEF NoAnswers, FewerAnswers

\* Leases and nested threads are as before, and no request is answered.
Quiet == lead'.lease = lead.lease /\ lead'.nested = lead.nested /\ NoAnswers(lead, lead')

-----------------------------------------------------------------------------
LEMMA LeadInitFacts ==
  LeadInit \in Lead /\ TasksOk(LeadInit)
<1>1. NoTask \in Task /\ (CHOOSE w \in Workspaces : TRUE) \in Workspaces
  BY Finiteness, LeadAssumption DEF NoTask, Task, Requestable
<1>2. 0 \in 0 .. MaxTries /\ <<>> \in Seq(LeadMsg)
  BY Finiteness, EmptySeq
<1>4. LeadInit \in Lead
  BY <1>1, <1>2 DEF LeadInit, Lead
<1>5. TasksOk(LeadInit)
  BY Finiteness, NoneApart DEF LeadInit, NoTask, TasksOk, TaskOk
<1> QED
  BY <1>4, <1>5

LEMMA InitTyped ==
  ASSUME Init
  PROVE  TeamInv
<1>1. LeadInit \in Lead /\ TasksOk(LeadInit)
  BY LeadInitFacts
<1>3. \A n \in Mates : Forgotten(LeadInit, n) /\ ~LeadInit.lease[n]
  BY DEF LeadInit, Forgotten
<1>4. LeadOk(lead) /\ \A n \in Mates : ~lead.lease[n]
  BY <1>1, <1>3 DEF LeadOk, Init
<1>5. MatesTyped
  BY EmptySeq DEF Init, MatesTyped
<1>6. \A n \in Mates : MateOk(n)
  BY <1>4 DEF Init, MateOk
<1> QED
  BY <1>4, <1>5, <1>6 DEF TeamInv

LEMMA CreateTeamTyped ==
  ASSUME TeamInv, CreateTeam
  PROVE  TeamInv' /\ Quiet
<1>1. lead \in Lead /\ LeadInit \in Lead /\ TasksOk(LeadInit)
  BY LeadInitFacts DEF TeamInv, LeadOk
<1>2. lead' = [lead EXCEPT !.team = "active", !.task = LeadInit.task, !.running = LeadInit.running,
                           !.requested = LeadInit.requested, !.record = LeadInit.record, !.deps = LeadInit.deps,
                           !.root = LeadInit.root, !.byHand = {}, !.passedOver = {}]
  BY DEF CreateTeam
<1> HIDE DEF LeadInit
<1>3. /\ lead'.lease = lead.lease /\ lead'.task = LeadInit.task /\ lead'.requested = LeadInit.requested
      /\ lead'.last = lead.last /\ lead'.nested = lead.nested /\ lead'.sent = lead.sent
  BY <1>1, <1>2 DEF Lead
<1>4. lead' \in Lead
  BY <1>1, <1>2 DEF Lead
<1>5. LeadOk(lead')
  BY <1>1, <1>3, <1>4 DEF LeadOk, TasksOk, TaskOk, Forgotten, TeamInv
<1>6. Quiet
  BY <1>3, NoAnswersSame DEF Quiet
<1> QED
  BY <1>3, <1>5, <1>6, LeadStep DEF CreateTeam

LEMMA AddTeammateTyped ==
  ASSUME TeamInv, NEW n \in Mates, AddTeammate(n)
  PROVE  TeamInv'
<1>1. LeadOk(lead) /\ lead \in Lead /\ ~lead.lease[n] /\ MateOk(n) /\ MatesTyped
  BY DEF TeamInv, LeadOk, AddTeammate
<1>2. lead' = [lead EXCEPT !.lease[n] = TRUE, !.status[n] = "spawning", !.home[n] = lead.workspace]
  BY DEF AddTeammate
<1>3. /\ lead'.task = lead.task /\ lead'.requested = lead.requested
      /\ lead'.last = lead.last /\ lead'.nested = lead.nested /\ lead'.sent = lead.sent
      /\ lead'.lease[n] /\ \A m \in Mates \ {n} : lead'.lease[m] = lead.lease[m]
  BY <1>1, <1>2 DEF Lead
<1>4. lead' \in Lead
  BY <1>1, <1>2 DEF Lead
<1>5. LeadOk(lead')
  BY <1>1, <1>3, <1>4 DEF LeadOk, TasksOk, TaskOk, Forgotten
<1>6. MatesTyped'
  <2>1. <<[kind |-> "ready"]>> \in Seq(MateMsg)
    <3>1. [kind |-> "ready"] \in MateMsg
      BY DEF MateMsg
    <3> QED
      BY <3>1, ShortFacts
  <2> QED
    BY <1>1, <2>1 DEF MatesTyped, AddTeammate
<1>7. ASSUME NEW m \in Mates PROVE MateOk(m)'
  <2>1. CASE m = n
    BY <1>1, <1>3, <2>1 DEF MateOk, MatesTyped, AddTeammate
  <2>2. CASE m # n
    <3>1. proc'[m] = proc[m] /\ up'[m] = up[m]
      BY <1>1, <2>2 DEF MatesTyped, AddTeammate
    <3> QED
      BY <1>3, <2>2, <3>1 DEF MateOk, TeamInv, AddTeammate
  <2> QED
    BY <2>1, <2>2
<1> QED
  BY <1>5, <1>6, <1>7 DEF TeamInv

LEMMA CreateTaskTyped ==
  ASSUME TeamInv, NEW t \in Tasks, CreateTask(t)
  PROVE  TeamInv' /\ Quiet
<1> DEFINE s == [lead EXCEPT !.task[t].status = "pending", !.deps[t] = Deps[t], !.root[t] = lead.workspace]
           deps == [lead.deps EXCEPT ![t] = Deps[t]]
           root == [lead.root EXCEPT ![t] = lead.workspace]
<1>1. LeadOk(lead) /\ lead \in Lead /\ TasksOk(lead)
  BY DEF TeamInv, LeadOk
<1>2. /\ s.lease = lead.lease /\ s.last = lead.last /\ s.nested = lead.nested /\ s.sent = lead.sent
      /\ s.requested = lead.requested /\ s.task = [lead.task EXCEPT ![t].status = "pending"]
  BY <1>1 DEF Lead
<1>3. lead.task[t] \in Task /\ lead.task \in [Tasks -> Task]
  BY <1>1 DEF Lead
<1>4. [lead.task[t] EXCEPT !.status = "pending"] \in Task
  BY <1>3 DEF Task, Requestable
<1>5. s.task \in [Tasks -> Task] /\ s.task[t] = [lead.task[t] EXCEPT !.status = "pending"]
      /\ \A u \in Tasks \ {t} : s.task[u] = lead.task[u]
  BY <1>2, <1>3, <1>4
<1>6. s = [lead EXCEPT !.task = s.task, !.deps = deps, !.root = root]
  BY <1>1 DEF Lead
<1>a. deps \in [Tasks -> SUBSET Tasks] /\ root \in [Tasks -> Workspaces \union {None}]
  BY <1>1, LeadAssumption DEF Lead
<1> HIDE DEF s, deps, root
<1>7. s \in Lead
  BY <1>1, <1>5, <1>6, <1>a DEF Lead
<1>8. TasksOk(s)
  <2>1. TaskOk(s, t)
    <3>1. s.task[t].try = lead.task[t].try /\ s.task[t].cancel = lead.task[t].cancel
      BY <1>3, <1>5 DEF Task
    <3>2. lead.task[t].status = "absent" /\ TaskOk(lead, t)
      BY <1>1 DEF CreateTask, TasksOk
    <3> QED
      BY <1>2, <3>1, <3>2, NoneApart DEF TaskOk
  <2>2. \A u \in Tasks \ {t} : TaskOk(s, u)
    BY <1>1, <1>2, <1>5 DEF TasksOk, TaskOk
  <2> QED
    BY <2>1, <2>2 DEF TasksOk
<1>9. LeadOk(s)
  BY <1>1, <1>2, <1>7, <1>8 DEF LeadOk, Forgotten
<1>10. LeadOk(TryAssign(s)) /\ SameTeam(s, TryAssign(s))
  BY <1>9, TryAssignOk
<1>11. lead' = TryAssign(s) /\ UNCHANGED procVars
  BY DEF CreateTask, s
<1>12. LeadOk(lead') /\ lead'.lease = lead.lease /\ lead'.nested = lead.nested
  BY <1>2, <1>10, <1>11 DEF SameTeam
<1>13. NoAnswers(lead, lead')
  BY <1>2, <1>9, <1>11, TryAssignQuiet DEF NoAnswers
<1> QED
  BY <1>11, <1>12, <1>13, LeadStep DEF Quiet

\* Only dependencies, workspaces and what is passed over differ.
Alike(s, z) ==
  /\ z.team = s.team /\ z.closing = s.closing /\ z.stopping = s.stopping /\ z.status = s.status
  /\ z.lease = s.lease /\ z.nested = s.nested /\ z.last = s.last /\ z.sent = s.sent
  /\ z.task = s.task /\ z.requested = s.requested /\ z.running = s.running /\ z.record = s.record
  /\ z.byHand = s.byHand

LEMMA AlikeOk ==
  ASSUME NEW s, LeadOk(s), NEW z, z \in Lead, Alike(s, z)
  PROVE  LeadOk(z)
  BY DEF Alike, LeadOk, TasksOk, TaskOk, Forgotten

LEMMA DepsAlike ==
  ASSUME NEW s, LeadOk(s), NEW t \in Tasks, NEW A \in SUBSET Tasks, NEW z, z = [s EXCEPT !.deps[t] = A]
  PROVE  LeadOk(z) /\ Alike(s, z)
<1>1. s \in Lead
  BY DEF LeadOk
<1>2. z \in Lead /\ Alike(s, z)
  BY <1>1 DEF Lead, Alike
<1> QED
  BY <1>2, AlikeOk

LEMMA PassedAlike ==
  ASSUME NEW s, LeadOk(s), NEW A, NEW z, z = [s EXCEPT !.passedOver = @ \union (Available(s) \ A)]
  PROVE  LeadOk(z) /\ Alike(s, z)
<1>1. s \in Lead /\ Available(s) \subseteq Tasks
  BY DEF LeadOk, Available
<1>2. s.passedOver \union (Available(s) \ A) \in SUBSET Tasks
  BY <1>1, LeadFields
<1>3. z \in Lead /\ Alike(s, z)
  BY <1>1, <1>2 DEF Lead, Alike
<1> QED
  BY <1>3, AlikeOk

\* Task t gets the status st, and nothing else but byHand changes.
StatusSet(s, z, t, st) ==
  /\ z.lease = s.lease /\ z.last = s.last /\ z.nested = s.nested /\ z.sent = s.sent
  /\ z.closing = s.closing /\ z.stopping = s.stopping /\ z.team = s.team /\ z.status = s.status
  /\ z.requested = s.requested /\ z.record = s.record /\ z.running = s.running
  /\ z.task = [s.task EXCEPT ![t] = WithStatus(s.task[t], st)]
  /\ z.byHand = IF st = "in_progress" THEN s.byHand \union {t} ELSE s.byHand

\* updateTask of a task that does not run.
LEMMA SetStatusOk ==
  ASSUME NEW s, LeadOk(s), NEW t \in Tasks, NEW st \in Requestable \union {"in_progress"},
         Grantable(s, {t}, st), s.task[t].status # "in_progress",
         NEW z, z = [SetStatus(s, t, st) EXCEPT !.byHand = IF st = "in_progress" THEN @ \union {t} ELSE @]
  PROVE  LeadOk(z) /\ StatusSet(s, z, t, st)
<1> DEFINE task == [s.task EXCEPT ![t] = WithStatus(s.task[t], st)]
           B == IF st = "in_progress" THEN s.byHand \union {t} ELSE s.byHand
<1>1. s \in Lead /\ TasksOk(s)
  BY DEF LeadOk
<1>b. B \in SUBSET Tasks
  BY <1>1, LeadFields
<1>2. s.task[t] \in Task /\ s.task \in [Tasks -> Task]
  BY <1>1 DEF Lead
<1>3. /\ WithStatus(s.task[t], st) \in Task /\ WithStatus(s.task[t], st).status = st
      /\ WithStatus(s.task[t], st).try = s.task[t].try /\ (st \in Requestable => ~WithStatus(s.task[t], st).cancel)
  BY <1>2, StatusFacts
<1>4. task \in [Tasks -> Task] /\ task[t] = WithStatus(s.task[t], st) /\ \A u \in Tasks \ {t} : task[u] = s.task[u]
  BY <1>2, <1>3
<1>5. z = [s EXCEPT !.task = task, !.byHand = B]
  BY <1>1 DEF SetStatus, Lead
<1> HIDE DEF task, B
<1>6. /\ z.lease = s.lease /\ z.last = s.last /\ z.nested = s.nested /\ z.sent = s.sent
      /\ z.closing = s.closing /\ z.stopping = s.stopping /\ z.team = s.team /\ z.status = s.status
      /\ z.requested = s.requested /\ z.record = s.record /\ z.running = s.running /\ z.task = task
      /\ z.byHand = B
  BY <1>1, <1>5 DEF Lead
<1>7. z \in Lead
  BY <1>1, <1>4, <1>5, <1>b DEF Lead
<1>8. TasksOk(z)
  <2>1. TaskOk(z, t)
    <3>1. TaskOk(s, t)
      BY <1>1 DEF TasksOk
    <3>2. z.task[t].status = st /\ z.task[t].try = s.task[t].try /\ (st \in Requestable => ~z.task[t].cancel)
          /\ z.requested[t] = s.requested[t]
      BY <1>3, <1>4, <1>6
    <3>3. s.task[t].try < MaxTries \/ st # "pending"
      BY DEF Grantable
    <3> QED
      BY <3>1, <3>2, <3>3, NoneApart DEF TaskOk
  <2>2. \A u \in Tasks \ {t} : TaskOk(z, u)
    BY <1>1, <1>4, <1>6 DEF TasksOk, TaskOk
  <2> QED
    BY <2>1, <2>2 DEF TasksOk
<1>9. LeadOk(z)
  BY <1>6, <1>7, <1>8 DEF LeadOk, Forgotten
<1> QED
  BY <1>6, <1>9 DEF task, B, StatusSet

\* task_update: y has the new dependencies, and e the new status or the request for it.
Edit(y, e, t, st) ==
  \/ e = y
  \/ st \in Requestable /\ Grantable(y, {t}, st) /\ e = RequestState(y, {t}, st)
  \/ /\ st \in Requestable \union {"in_progress"} /\ Grantable(y, {t}, st) /\ y.task[t].status # "in_progress"
     /\ e = [SetStatus(y, t, st) EXCEPT !.byHand = IF st = "in_progress" THEN @ \union {t} ELSE @]

Updated(y, e, t, st) ==
  /\ LeadOk(y) /\ Alike(lead, y) /\ LeadOk(e) /\ Edit(y, e, t, st)
  /\ LeadOk(lead') /\ (lead' = TryAssign(e) \/ Alike(e, lead'))

LEMMA UpdateTaskFacts ==
  ASSUME TeamInv, NEW t \in Tasks, NEW st \in LeadStatuses \union {None}, NEW deps \in NewDeps[t] \union {lead.deps[t]},
         UpdateTask(t, st, deps)
  PROVE  UNCHANGED procVars /\ \E y, e : Updated(y, e, t, st)
<1> DEFINE y == [lead EXCEPT !.deps[t] = deps]
           e == Edited(t, st, deps)
<1>1. LeadOk(lead) /\ lead \in Lead /\ UNCHANGED procVars /\ (st = "pending" => lead.task[t].try < MaxTries)
  BY DEF TeamInv, UpdateTask, LeadOk
<1>2. deps \in SUBSET Tasks
  BY <1>1, TeamAssumption DEF Lead
<1>3. LeadOk(y) /\ Alike(lead, y)
  BY <1>1, <1>2, DepsAlike
<1>4. /\ st = None => e = y
      /\ st # None /\ lead.task[t].status = "in_progress" =>
           e = IF st = "in_progress" THEN y ELSE RequestState(y, {t}, st)
      /\ st # None /\ lead.task[t].status # "in_progress" =>
           e = [SetStatus(y, t, st) EXCEPT !.byHand = IF st = "in_progress" THEN @ \union {t} ELSE @]
  BY DEF Edited
<1>5. \/ lead' = TryAssign(e)
      \/ lead' = [e EXCEPT !.passedOver = @ \union (Available(e) \ Available(lead))]
  BY DEF UpdateTask
<1> HIDE DEF y, e
<1>6. st # None => st \in Requestable \union {"in_progress"} /\ Grantable(y, {t}, st)
  BY <1>1, <1>3, NoneApart DEF Alike, Grantable
<1>7. y.task[t].status = lead.task[t].status
  BY <1>3 DEF Alike
<1>8. LeadOk(e) /\ Edit(y, e, t, st)
  <2>1. CASE st = None
    BY <1>3, <1>4, <2>1 DEF Edit
  <2>2. CASE st # None /\ lead.task[t].status = "in_progress" /\ st = "in_progress"
    BY <1>3, <1>4, <2>2 DEF Edit
  <2>3. CASE st # None /\ lead.task[t].status = "in_progress" /\ st # "in_progress"
    <3>1. st \in Requestable /\ {t} \in SUBSET Tasks /\ e = RequestState(y, {t}, st)
      BY <1>4, <1>6, <2>3
    <3> QED
      BY <1>3, <1>6, <2>3, <3>1, RequestOk DEF Edit
  <2>4. CASE st # None /\ lead.task[t].status # "in_progress"
    <3>1. e = [SetStatus(y, t, st) EXCEPT !.byHand = IF st = "in_progress" THEN @ \union {t} ELSE @]
      BY <1>4, <2>4
    <3>2. LeadOk(e)
      BY <1>3, <1>6, <1>7, <2>4, <3>1, SetStatusOk
    <3> QED
      BY <1>6, <1>7, <2>4, <3>1, <3>2 DEF Edit
  <2> QED
    BY <2>1, <2>2, <2>3, <2>4
<1>9. LeadOk(lead') /\ (lead' = TryAssign(e) \/ Alike(e, lead'))
  <2>1. LeadOk(TryAssign(e))
    BY <1>8, TryAssignOk
  <2>2. CASE lead' = [e EXCEPT !.passedOver = @ \union (Available(e) \ Available(lead))]
    BY <1>8, <2>2, PassedAlike
  <2> QED
    BY <1>5, <2>1, <2>2
<1> QED
  BY <1>1, <1>3, <1>8, <1>9 DEF Updated

\* Nothing of the threads changes in z.
QuietStep(s, z) == z.lease = s.lease /\ z.nested = s.nested /\ NoAnswers(s, z)

LEMMA EditQuiet ==
  ASSUME NEW y, LeadOk(y), NEW e, LeadOk(e), NEW t \in Tasks, NEW st, Edit(y, e, t, st)
  PROVE  QuietStep(y, e)
<1>1. y \in Lead /\ TasksOk(y)
  BY DEF LeadOk
<1>2. CASE e = y
  BY <1>2, NoAnswersSame DEF QuietStep
<1>3. CASE st \in Requestable /\ Grantable(y, {t}, st) /\ e = RequestState(y, {t}, st)
  <2>1. {t} \in SUBSET Tasks
    OBVIOUS
  <2>2. SameTeam(y, e) /\ AllRequested(y, e, {t}, st)
    BY <1>1, <1>3, <2>1, RequestFacts
  <2>3. NoAnswers(y, e)
    BY <1>1, <2>2, RequestQuiet
  <2> QED
    BY <2>2, <2>3 DEF QuietStep, SameTeam
<1>4. CASE /\ st \in Requestable \union {"in_progress"} /\ Grantable(y, {t}, st) /\ y.task[t].status # "in_progress"
           /\ e = [SetStatus(y, t, st) EXCEPT !.byHand = IF st = "in_progress" THEN @ \union {t} ELSE @]
  <2>1. StatusSet(y, e, t, st)
    BY <1>4, SetStatusOk
  <2> QED
    BY <2>1, NoAnswersSame DEF QuietStep, StatusSet
<1> QED
  BY <1>2, <1>3, <1>4 DEF Edit

LEMMA UpdateTaskTyped ==
  ASSUME TeamInv, NEW t \in Tasks, NEW st \in LeadStatuses \union {None}, NEW deps \in NewDeps[t] \union {lead.deps[t]},
         UpdateTask(t, st, deps)
  PROVE  TeamInv' /\ Quiet
<1>1. UNCHANGED procVars /\ \E y, e : Updated(y, e, t, st)
  BY UpdateTaskFacts
<1>2. PICK y, e : Updated(y, e, t, st)
  BY <1>1
<1>3. QuietStep(lead, y) /\ QuietStep(y, e)
  BY <1>2, EditQuiet, NoAnswersSame DEF Updated, QuietStep, Alike
<1>4. QuietStep(e, lead')
  <2>1. CASE lead' = TryAssign(e)
    BY <1>2, <2>1, TryAssignOk, TryAssignQuiet DEF Updated, QuietStep, SameTeam
  <2>2. CASE Alike(e, lead')
    BY <2>2, NoAnswersSame DEF QuietStep, Alike
  <2> QED
    BY <1>2, <2>1, <2>2 DEF Updated
<1>5. LeadOk(lead') /\ Quiet
  BY <1>2, <1>3, <1>4, NoAnswersChain DEF Updated, QuietStep, Quiet
<1> QED
  BY <1>1, <1>5, LeadStep DEF Quiet

\* The session works in another directory.
LEMMA SwitchWorkspaceFacts ==
  ASSUME TeamInv, NEW w \in Workspaces, SwitchWorkspace(w)
  PROVE  LeadOk(lead') /\ Alike(lead, lead') /\ UNCHANGED procVars
<1>1. LeadOk(lead) /\ lead \in Lead /\ UNCHANGED procVars /\ lead' = [lead EXCEPT !.workspace = w]
  BY DEF TeamInv, LeadOk, SwitchWorkspace
<1>2. lead' \in Lead /\ Alike(lead, lead')
  BY <1>1 DEF Lead, Alike
<1> QED
  BY <1>1, <1>2, AlikeOk

LEMMA SwitchWorkspaceTyped ==
  ASSUME TeamInv, NEW w \in Workspaces, SwitchWorkspace(w)
  PROVE  TeamInv' /\ Quiet
<1>1. LeadOk(lead') /\ Alike(lead, lead') /\ UNCHANGED procVars
  BY SwitchWorkspaceFacts
<1> QED
  BY <1>1, LeadStep, NoAnswersSame DEF Alike, Quiet

LEMMA StopTaskTyped ==
  ASSUME TeamInv, NEW t \in Tasks, StopTask(t)
  PROVE  TeamInv' /\ Quiet
<1>1. LeadOk(lead) /\ UNCHANGED procVars /\ lead' = RequestState(lead, {t}, "cancelled")
  BY DEF TeamInv, StopTask
<1>2. {t} \in SUBSET Tasks /\ "cancelled" \in Requestable /\ Grantable(lead, {t}, "cancelled")
  BY NoneApart DEF Grantable
<1>3. LeadOk(lead') /\ SameTeam(lead, lead')
  BY <1>1, <1>2, RequestOk
<1>4. NoAnswers(lead, lead')
  <2>1. lead \in Lead /\ TasksOk(lead)
    BY <1>1 DEF LeadOk
  <2>2. AllRequested(lead, lead', {t}, "cancelled")
    BY <1>1, <1>2, <2>1, RequestFacts
  <2> QED
    BY <2>1, <2>2, RequestQuiet
<1> QED
  BY <1>1, <1>3, <1>4, LeadStep DEF SameTeam, Quiet

\* shutdown: every task is asked to stop, then every living process is told to.
LEMMA ShutdownFacts ==
  ASSUME TeamInv, Shutdown
  PROVE  LET s == [lead EXCEPT !.closing = TRUE, !.stopping = TRUE]
             z == RequestState(s, Tasks, "cancelled")
         IN  /\ s \in Lead /\ LeadOk(s) /\ Tasks \in SUBSET Tasks /\ "cancelled" \in Requestable
             /\ Grantable(s, Tasks, "cancelled")
             /\ LeadOk(z) /\ SameTeam(s, z) /\ AllRequested(s, z, Tasks, "cancelled")
             /\ lead' = [z EXCEPT !.sent = [n \in Mates |-> IF proc[n] = "live" THEN Append(z.sent[n], Stop) ELSE z.sent[n]]]
             /\ s.task = lead.task /\ s.requested = lead.requested /\ s.record = lead.record /\ s.running = lead.running
             /\ s.sent = lead.sent /\ s.status = lead.status /\ s.last = lead.last /\ s.lease = lead.lease
             /\ s.nested = lead.nested /\ s.closing /\ s.stopping /\ s.byHand = lead.byHand
<1> DEFINE s == [lead EXCEPT !.closing = TRUE, !.stopping = TRUE]
           z == RequestState(s, Tasks, "cancelled")
<1>1. LeadOk(lead) /\ lead \in Lead
  BY DEF TeamInv, LeadOk
<1>2. s \in Lead
  BY <1>1 DEF Lead
<1>3. /\ s.task = lead.task /\ s.requested = lead.requested /\ s.record = lead.record /\ s.running = lead.running
      /\ s.sent = lead.sent /\ s.status = lead.status /\ s.last = lead.last /\ s.lease = lead.lease
      /\ s.nested = lead.nested /\ s.closing /\ s.stopping /\ s.byHand = lead.byHand
  BY <1>1 DEF Lead
<1>4. lead' = [z EXCEPT !.sent = [n \in Mates |-> IF proc[n] = "live" THEN Append(z.sent[n], Stop) ELSE z.sent[n]]]
  BY DEF Shutdown
<1>0. z = RequestState(s, Tasks, "cancelled")
  OBVIOUS
<1> HIDE DEF s, z
<1>5. LeadOk(s)
  BY <1>1, <1>2, <1>3 DEF LeadOk, TasksOk, TaskOk, Forgotten
<1>6. Tasks \in SUBSET Tasks /\ "cancelled" \in Requestable /\ Grantable(s, Tasks, "cancelled")
  BY NoneApart DEF Grantable
<1>7. LeadOk(z) /\ SameTeam(s, z)
  BY <1>0, <1>5, <1>6, RequestOk
<1>8. AllRequested(s, z, Tasks, "cancelled")
  <2>1. TasksOk(s)
    BY <1>5 DEF LeadOk
  <2> QED
    BY <1>0, <1>2, <1>6, <2>1, RequestFacts
<1> QED
  BY <1>2, <1>3, <1>4, <1>5, <1>6, <1>7, <1>8 DEF s, z

LEMMA ShutdownTyped ==
  ASSUME TeamInv, Shutdown
  PROVE  TeamInv' /\ Quiet
<1> DEFINE s == [lead EXCEPT !.closing = TRUE, !.stopping = TRUE]
           z == RequestState(s, Tasks, "cancelled")
           sent == [n \in Mates |-> IF proc[n] = "live" THEN Append(z.sent[n], Stop) ELSE z.sent[n]]
<1>1. LeadOk(z) /\ SameTeam(s, z) /\ s.lease = lead.lease /\ s.nested = lead.nested /\ s.sent = lead.sent
      /\ s \in Lead /\ AllRequested(s, z, Tasks, "cancelled") /\ lead' = [z EXCEPT !.sent = sent]
  BY ShutdownFacts
<1> HIDE DEF s, z
<1>2. z \in Lead
  BY <1>1 DEF LeadOk
<1>3. sent \in [Mates -> Seq(LeadMsg)]
  <2>1. Stop \in LeadMsg
    BY DEF Stop, LeadMsg
  <2>2. ASSUME NEW n \in Mates PROVE Append(z.sent[n], Stop) \in Seq(LeadMsg) /\ z.sent[n] \in Seq(LeadMsg)
    <3>1. z.sent[n] \in Seq(LeadMsg)
      BY <1>2, LeadFields
    <3> QED
      BY <2>1, <3>1, AppendFacts
  <2> QED
    BY <2>2
<1>4. \A n \in Mates : IF proc[n] = "live" THEN sent[n] = Append(z.sent[n], Stop) ELSE sent[n] = z.sent[n]
  OBVIOUS
<1> HIDE DEF sent
<1>5. lead' \in Lead
  BY <1>1, <1>2, <1>3 DEF Lead
<1>6. /\ lead'.lease = z.lease /\ lead'.task = z.task /\ lead'.requested = z.requested /\ lead'.last = z.last
      /\ lead'.nested = z.nested /\ lead'.sent = sent
  BY <1>1, <1>2 DEF Lead
<1>7. z.lease = lead.lease
  BY <1>1 DEF SameTeam
<1>8. \A n \in Mates : ~lead.lease[n] => proc[n] # "live"
  BY DEF TeamInv, MateOk
<1>9. LeadOk(lead')
  BY <1>1, <1>4, <1>5, <1>6, <1>7, <1>8 DEF LeadOk, TasksOk, TaskOk, Forgotten
<1>10. NoAnswers(lead, lead')
  <2>1. NoAnswers(s, z)
    BY <1>1, RequestQuiet
  <2>2. ASSUME NEW n \in Mates, NEW r \in Requests PROVE FewerAnswers(r, z.sent[n], sent[n])
    <3>1. z.sent[n] \in Seq(LeadMsg) /\ Stop \in LeadMsg
      BY <1>2, LeadFields DEF LeadMsg, Stop
    <3>2. ToSet(Append(z.sent[n], Stop)) = ToSet(z.sent[n]) \union {Stop}
      BY <3>1, AppendFacts
    <3>3. \A ok : Res(r, ok) # Stop
      BY DEF Res, Stop
    <3>4. \/ sent[n] = z.sent[n]
          \/ sent[n] = Append(z.sent[n], Stop)
      BY <1>4
    <3>5. ToSet(sent[n]) \subseteq ToSet(z.sent[n]) \union {Stop}
      BY <3>2, <3>4
    <3> QED
      BY <3>3, <3>5 DEF FewerAnswers
  <2>3. NoAnswers(z, lead')
    BY <1>6, <2>2 DEF NoAnswers
  <2>4. NoAnswers(lead, z)
    BY <1>1, <2>1 DEF NoAnswers
  <2> QED
    BY <2>3, <2>4, NoAnswersChain
<1>11. lead'.nested = lead.nested
  BY <1>1, <1>6 DEF SameTeam
<1> QED
  BY <1>6, <1>7, <1>9, <1>10, <1>11, LeadStep DEF Shutdown, Quiet

LEMMA ShutdownEndTyped ==
  ASSUME TeamInv, ShutdownDone \/ ShutdownFails
  PROVE  TeamInv' /\ Quiet
<1>1. LeadOk(lead) /\ lead \in Lead
  BY DEF TeamInv, LeadOk
<1>2. LeadInit.status \in [Mates -> {"none", "spawning", "idle", "working", "shutdown"}]
  BY DEF LeadInit
<1> HIDE DEF LeadInit
<1>3. lead' \in Lead /\ lead'.lease = lead.lease /\ lead'.task = lead.task /\ lead'.requested = lead.requested
      /\ lead'.last = lead.last /\ lead'.nested = lead.nested /\ lead'.sent = lead.sent
  <2>1. CASE ShutdownDone
    BY <1>1, <1>2, <2>1 DEF ShutdownDone, Lead
  <2>2. CASE ShutdownFails
    BY <1>1, <2>2 DEF ShutdownFails, Lead
  <2> QED
    BY <2>1, <2>2
<1>4. LeadOk(lead')
  BY <1>1, <1>3 DEF LeadOk, TasksOk, TaskOk, Forgotten
<1>5. Quiet
  BY <1>3, NoAnswersSame DEF Quiet
<1> QED
  BY <1>3, <1>4, <1>5, LeadStep DEF ShutdownDone, ShutdownFails

\* A process ends, and nobody has noticed yet.
LEMMA GoneTyped ==
  ASSUME TeamInv, NEW n \in Mates, Kill(n) \/ Crash(n)
  PROVE  TeamInv'
<1>1. /\ proc' = [proc EXCEPT ![n] = "exited"] /\ UNCHANGED <<lead, up, active, aborted, pending, granted>>
      /\ proc[n] \in {"live", "closing"}
  BY DEF Kill, Crash, Alive
<1> QED
  BY <1>1 DEF TeamInv, MatesTyped, MateOk

LEMMA LineFacts ==
  ASSUME TeamInv, NEW n \in Mates, NEW kind, Line(n, kind)
  PROVE  /\ up[n] # <<>> /\ up[n] \in Seq(MateMsg) /\ Head(up[n]) \in MateMsg /\ Head(up[n]).kind = kind
         /\ LeadOk(lead) /\ lead \in Lead /\ lead.lease[n]
<1>1. up[n] \in Seq(MateMsg) /\ up[n] # <<>>
  BY DEF TeamInv, MatesTyped, Line
<1> QED
  BY <1>1, TailFacts DEF TeamInv, LeadOk, Line

LEMMA OnStatusTyped ==
  ASSUME TeamInv, NEW n \in Mates, OnReady(n) \/ OnIdle(n) \/ OnShutdownAck(n)
  PROVE  TeamInv' /\ Quiet
<1>1. LeadOk(lead) /\ up[n] # <<>> /\ Taken(n)
  <2>1. PICK kind : Line(n, kind)
    BY DEF OnReady, OnIdle, OnShutdownAck
  <2> QED
    BY <2>1, LineFacts DEF OnReady, OnIdle, OnShutdownAck
<1> DEFINE idle == [lead EXCEPT !.status[n] = "idle"]
           down == [lead EXCEPT !.status[n] = "shutdown"]
<1>2. lead' \in {lead, TryAssign(idle), down}
  BY DEF OnReady, OnIdle, OnShutdownAck
<1>3. LeadOk(idle) /\ SameTeam(lead, idle)
  BY <1>1, StatusOk
<1>4. LeadOk(down) /\ SameTeam(lead, down)
  BY <1>1, StatusOk
<1> HIDE DEF idle, down
<1>5. LeadOk(TryAssign(idle)) /\ SameTeam(idle, TryAssign(idle))
  BY <1>3, TryAssignOk
<1>6. LeadOk(lead') /\ lead'.lease = lead.lease /\ lead'.nested = lead.nested
  BY <1>1, <1>2, <1>3, <1>4, <1>5 DEF SameTeam
<1>7. NoAnswers(lead, lead')
  <2>1. idle.sent = lead.sent /\ down.sent = lead.sent
    BY <1>1 DEF LeadOk, Lead, idle, down
  <2>2. NoAnswers(idle, TryAssign(idle))
    BY <1>3, TryAssignQuiet
  <2>3. NoAnswers(lead, TryAssign(idle))
    BY <2>1, <2>2 DEF NoAnswers
  <2> QED
    BY <1>2, <2>1, <2>3, NoAnswersSame
<1> QED
  BY <1>1, <1>6, <1>7, ReadStep DEF Quiet

LEMMA OnTaskUpdateTyped ==
  ASSUME TeamInv, NEW n \in Mates, OnTaskUpdate(n)
  PROVE  TeamInv' /\ Quiet
<1> DEFINE m == Head(up[n])
           working == [lead EXCEPT !.status[n] = "working"]
           s == Settle(lead, {m.run.task}, m.status, [t \in Tasks |-> Asked(lead, t)])
           idle == [s EXCEPT !.status[n] = "idle"]
<1>1. LeadOk(lead) /\ up[n] # <<>> /\ Taken(n) /\ m \in MateMsg /\ m.kind = "update"
  <2>1. Line(n, "update") /\ Taken(n)
    BY DEF OnTaskUpdate
  <2> QED
    BY <2>1, LineFacts
<1>2. m.run.task \in Tasks /\ m.status \in Terminal \union {"in_progress"}
  BY <1>1, UpLines
<1>3. lead' \in {lead, working} \/ (m.status \in Terminal /\ lead' = idle)
  BY <1>2 DEF OnTaskUpdate
<1>4. LeadOk(working) /\ SameTeam(lead, working)
  BY <1>1, StatusOk
<1>a. working.sent = lead.sent
  BY <1>1 DEF LeadOk, Lead
<1>5. ASSUME m.status \in Terminal PROVE LeadOk(idle) /\ SameTeam(lead, idle) /\ idle.sent = lead.sent
  <2>1. {m.run.task} \in SUBSET Tasks
    BY <1>2
  <2>2. LeadOk(s) /\ SameTeam(lead, s)
    BY <1>1, <1>5, <2>1, SettleOk
  <2>3. s.sent = lead.sent
    BY <1>1 DEF Settle, LeadOk, Lead
  <2> HIDE DEF s
  <2>4. LeadOk(idle) /\ SameTeam(s, idle)
    BY <2>2, StatusOk
  <2>5. idle.sent = s.sent
    BY <2>2 DEF LeadOk, Lead
  <2> QED
    BY <2>2, <2>3, <2>4, <2>5 DEF SameTeam
<1> HIDE DEF idle, working
<1>6. LeadOk(lead') /\ lead'.lease = lead.lease /\ lead'.nested = lead.nested
  BY <1>1, <1>3, <1>4, <1>5 DEF SameTeam
<1>7. NoAnswers(lead, lead')
  BY <1>3, <1>a, <1>5, NoAnswersSame
<1> QED
  BY <1>1, <1>6, <1>7, ReadStep DEF Quiet

\* A request for a nested thread is answered.
LEMMA AcquireFacts ==
  ASSUME TeamInv, NEW n \in Mates, OnThreadAcquire(n)
  PROVE  \E r \in Requests, ok \in BOOLEAN :
           /\ Head(up[n]) = [kind |-> "acquire", req |-> r]
           /\ ok = (~lead.closing /\ r \notin lead.nested[n] /\ Used(lead) < MaxChildren)
           /\ LeadOk(lead') /\ lead'.lease = lead.lease
           /\ lead'.nested[n] = IF ok THEN lead.nested[n] \union {r} ELSE lead.nested[n]
           /\ lead'.sent[n] = Append(lead.sent[n], [kind |-> "result", req |-> r, ok |-> ok])
           /\ \A m \in Mates \ {n} : lead'.nested[m] = lead.nested[m] /\ lead'.sent[m] = lead.sent[m]
<1> DEFINE r == Head(up[n]).req
           ok == ~lead.closing /\ r \notin lead.nested[n] /\ Used(lead) < MaxChildren
           A == IF ok THEN lead.nested[n] \union {r} ELSE lead.nested[n]
           s == IF ok THEN [lead EXCEPT !.nested[n] = lead.nested[n] \union {r}] ELSE lead
           w == Append(lead.sent[n], [kind |-> "result", req |-> r, ok |-> ok])
<1>1. Line(n, "acquire") /\ Taken(n) /\ lead' = Write(s, n, [kind |-> "result", req |-> r, ok |-> ok])
  BY DEF OnThreadAcquire
<1>2. /\ up[n] # <<>> /\ Head(up[n]) \in MateMsg /\ Head(up[n]).kind = "acquire"
      /\ LeadOk(lead) /\ lead \in Lead /\ lead.lease[n]
  BY <1>1, LineFacts
<1>3. r \in Requests /\ Head(up[n]) = [kind |-> "acquire", req |-> r]
  BY <1>2, UpLines
<1>4. ok \in BOOLEAN
  OBVIOUS
<1> HIDE DEF r, ok
<1>5. lead.nested[n] \in SUBSET Requests /\ lead.sent[n] \in Seq(LeadMsg)
  BY <1>2, LeadFields
<1>6. /\ LeadOk(s) /\ s.lease = lead.lease /\ s.sent = lead.sent /\ s.nested[n] = A
      /\ \A m \in Mates \ {n} : s.nested[m] = lead.nested[m]
  <2>1. CASE ok
    <3>1. lead.nested[n] \union {r} \in SUBSET Requests
      BY <1>3, <1>5
    <3>2. s = [lead EXCEPT !.nested[n] = lead.nested[n] \union {r}]
      BY <2>1
    <3>3. LeadOk(s)
      BY <1>2, <3>1, <3>2, NestedOk
    <3> QED
      BY <1>2, <2>1, <3>2, <3>3 DEF Lead
  <2>2. CASE ~ok
    BY <1>2, <2>2
  <2> QED
    BY <2>1, <2>2
<1>7. w \in Seq(LeadMsg)
  <2>1. [kind |-> "result", req |-> r, ok |-> ok] \in LeadMsg
    BY <1>3, <1>4 DEF LeadMsg
  <2> QED
    BY <1>5, <2>1, AppendFacts
<1> HIDE DEF s, A
<1>8. lead' = [s EXCEPT !.sent[n] = w]
  BY <1>1, <1>6 DEF Write
<1> HIDE DEF w
<1>9. LeadOk(lead')
  BY <1>2, <1>6, <1>7, <1>8, SentOk
<1>10. s \in Lead
  BY <1>6 DEF LeadOk
<1>11. /\ lead'.lease = s.lease /\ lead'.nested = s.nested /\ lead'.sent[n] = w
       /\ \A m \in Mates \ {n} : lead'.sent[m] = s.sent[m]
  BY <1>8, <1>10 DEF Lead
<1>12. /\ lead'.lease = lead.lease /\ lead'.nested[n] = A
       /\ \A m \in Mates \ {n} : lead'.nested[m] = lead.nested[m] /\ lead'.sent[m] = lead.sent[m]
  BY <1>6, <1>11
<1> QED
  BY <1>3, <1>4, <1>9, <1>11, <1>12 DEF A, w, ok

LEMMA ReleaseFacts ==
  ASSUME TeamInv, NEW n \in Mates, OnThreadRelease(n)
  PROVE  \E r \in Requests :
           /\ Head(up[n]) = [kind |-> "release", req |-> r]
           /\ LeadOk(lead') /\ lead'.lease = lead.lease /\ lead'.sent = lead.sent
           /\ lead'.nested[n] = lead.nested[n] \ {r} /\ \A m \in Mates \ {n} : lead'.nested[m] = lead.nested[m]
<1> DEFINE r == Head(up[n]).req
<1>1. Line(n, "release") /\ lead' = [lead EXCEPT !.nested[n] = lead.nested[n] \ {r}]
  BY DEF OnThreadRelease
<1>2. /\ up[n] # <<>> /\ Head(up[n]) \in MateMsg /\ Head(up[n]).kind = "release"
      /\ LeadOk(lead) /\ lead \in Lead /\ lead.lease[n]
  BY <1>1, LineFacts
<1>3. r \in Requests /\ Head(up[n]) = [kind |-> "release", req |-> r]
  BY <1>2, UpLines
<1> HIDE DEF r
<1>4. lead.nested[n] \ {r} \in SUBSET Requests
  BY <1>2, LeadFields
<1>5. LeadOk(lead')
  BY <1>1, <1>2, <1>4, NestedOk
<1>6. /\ lead'.lease = lead.lease /\ lead'.sent = lead.sent
      /\ lead'.nested[n] = lead.nested[n] \ {r} /\ \A m \in Mates \ {n} : lead'.nested[m] = lead.nested[m]
  BY <1>1, <1>2 DEF Lead
<1> QED
  BY <1>3, <1>5, <1>6

LEMMA OnThreadsTyped ==
  ASSUME TeamInv, NEW n \in Mates, OnThreadAcquire(n) \/ OnThreadRelease(n)
  PROVE  TeamInv'
<1>1. up[n] # <<>> /\ Taken(n)
  BY DEF OnThreadAcquire, OnThreadRelease, Line
<1>2. LeadOk(lead') /\ lead'.lease = lead.lease
  BY AcquireFacts, ReleaseFacts
<1> QED
  BY <1>1, <1>2, ReadStep

LEMMA OnExitFacts ==
  ASSUME TeamInv, NEW n \in Mates, OnExit(n)
  PROVE  /\ LeadOk(Exited(lead, n)) /\ LeadOk(lead') /\ SameTeam(Exited(lead, n), lead')
         /\ ~lead'.lease[n] /\ lead'.nested[n] = {}
         /\ \A m \in Mates \ {n} : lead'.lease[m] = lead.lease[m] /\ lead'.nested[m] = lead.nested[m]
<1> DEFINE s == Exited(lead, n)
<1>1. LeadOk(lead) /\ lead' = TryAssign(s)
  BY DEF TeamInv, OnExit
<1>2. /\ LeadOk(s) /\ ~s.lease[n]
      /\ \A m \in Mates \ {n} : s.lease[m] = lead.lease[m] /\ s.nested[m] = lead.nested[m]
  BY <1>1, ExitOk
<1> HIDE DEF s
<1>3. LeadOk(lead') /\ SameTeam(s, lead')
  BY <1>1, <1>2, TryAssignOk
<1>4. s.nested[n] = {}
  BY <1>2 DEF LeadOk, Forgotten
<1>5. s.lease = lead'.lease /\ s.nested = lead'.nested
  BY <1>3 DEF SameTeam
<1> QED
  BY <1>2, <1>3, <1>4, <1>5 DEF s

LEMMA OnExitTyped ==
  ASSUME TeamInv, NEW n \in Mates, OnExit(n)
  PROVE  TeamInv'
<1>1. /\ LeadOk(lead') /\ ~lead'.lease[n] /\ \A m \in Mates \ {n} : lead'.lease[m] = lead.lease[m]
  BY OnExitFacts
<1>2. MatesTyped'
  BY EmptySeq DEF TeamInv, MatesTyped, OnExit
<1>3. ASSUME NEW m \in Mates PROVE MateOk(m)'
  <2>1. CASE m = n
    BY <1>1, <2>1 DEF TeamInv, MatesTyped, MateOk, OnExit
  <2>2. CASE m # n
    <3>1. /\ proc'[m] = proc[m] /\ up'[m] = up[m] /\ active'[m] = active[m] /\ aborted'[m] = aborted[m]
          /\ pending'[m] = pending[m] /\ granted'[m] = granted[m] /\ MateOk(m)
      BY <2>2 DEF TeamInv, MatesTyped, OnExit
    <3> QED
      BY <1>1, <2>2, <3>1 DEF MateOk
  <2> QED
    BY <2>1, <2>2
<1> QED
  BY <1>1, <1>2, <1>3 DEF TeamInv

-----------------------------------------------------------------------------
\* A living teammate acts.
LEMMA AliveFacts ==
  ASSUME TeamInv, NEW n \in Mates, Alive(n)
  PROVE  proc[n] # "none" /\ lead.lease[n] /\ up[n] \in Seq(MateMsg) /\ MatesTyped /\ MateOk(n)
  BY DEF TeamInv, MatesTyped, MateOk, Alive

LEMMA OnAssignTyped ==
  ASSUME TeamInv, NEW n \in Mates, OnAssign(n)
  PROVE  TeamInv'
<1> DEFINE run == Head(lead.sent[n]).run
           w == IF active[n] = None THEN <<Update(run, "in_progress")>>
                ELSE IF active[n] = run THEN <<>> ELSE <<Update(run, "failed")>>
<1>1. /\ proc[n] = "live" /\ Order(n, "assign") /\ Heard(n) /\ lead.sent[n] # <<>> /\ Say(n, w)
      /\ active' = IF active[n] = None THEN [active EXCEPT ![n] = run] ELSE active
      /\ UNCHANGED <<proc, aborted, pending, granted>>
  BY DEF OnAssign, Order
<1>2. LeadOk(lead') /\ lead'.lease = lead.lease /\ Head(lead.sent[n]) \in LeadMsg
  BY <1>1, HeardOk
<1>3. run \in Runs
  BY <1>1, <1>2, DownLines DEF Order
<1>4. w \in Seq(MateMsg)
  <2>1. Update(run, "in_progress") \in MateMsg /\ Update(run, "failed") \in MateMsg
    BY <1>3, NoneApart DEF Update, MateMsg
  <2> QED
    BY <2>1, ShortFacts
<1> HIDE DEF w, run
<1>5. up' \in [Mates -> Seq(MateMsg)] /\ \A m \in Mates \ {n} : up'[m] = up[m]
  BY <1>1, <1>4, SayOk
<1>6. MatesTyped' /\ \A m \in Mates : active[m] # None => active'[m] # None
  BY <1>1, <1>3, <1>5, NoneApart DEF TeamInv, MatesTyped
<1>7. \A m \in Mates \ {n} : active'[m] = active[m]
  BY <1>1 DEF TeamInv, MatesTyped
<1>8. \A m \in Mates : MateOk(m)'
  BY <1>1, <1>2, <1>5, <1>6, <1>7 DEF TeamInv, MateOk
<1> QED
  BY <1>2, <1>6, <1>8 DEF TeamInv

LEMMA OnCancelTyped ==
  ASSUME TeamInv, NEW n \in Mates, OnCancel(n)
  PROVE  TeamInv'
<1>1. /\ Heard(n) /\ lead.sent[n] # <<>> /\ UNCHANGED <<up, proc, active, pending, granted>>
  BY DEF OnCancel, Order
<1>2. LeadOk(lead') /\ lead'.lease = lead.lease /\ Head(lead.sent[n]) \in LeadMsg /\ Head(lead.sent[n]).kind = "cancel"
  BY <1>1, HeardOk DEF OnCancel, Order
<1>3. Head(lead.sent[n]).run \in Runs
  BY <1>2, DownLines
<1>4. aborted' = [aborted EXCEPT ![n] = aborted[n] \/ (proc[n] = "live" /\ active[n] = Head(lead.sent[n]).run)]
  BY DEF OnCancel
<1>5. \A m \in Mates : aborted'[m] => aborted[m] \/ active[m] # None
  BY <1>3, <1>4, NoneApart DEF TeamInv, MatesTyped
<1>6. MatesTyped'
  BY <1>1, <1>4 DEF TeamInv, MatesTyped
<1>7. \A m \in Mates : MateOk(m)'
  BY <1>1, <1>2, <1>5 DEF TeamInv, MateOk
<1> QED
  BY <1>2, <1>6, <1>7 DEF TeamInv

LEMMA OnThreadResultTyped ==
  ASSUME TeamInv, NEW n \in Mates, OnThreadResult(n)
  PROVE  TeamInv'
<1> DEFINE m == Head(lead.sent[n])
<1>1. Alive(n) /\ m.kind = "result" /\ Heard(n) /\ lead.sent[n] # <<>> /\ UNCHANGED <<up, proc, active, aborted>>
  BY DEF OnThreadResult, Order
<1>2. LeadOk(lead') /\ lead'.lease = lead.lease /\ m \in LeadMsg
  BY <1>1, HeardOk
<1>3. m.req \in Requests
  BY <1>1, <1>2, DownLines
<1>4. /\ pending' = [pending EXCEPT ![n] = pending[n] \ {m.req}]
      /\ granted' = [granted EXCEPT ![n] = granted[n] \union {m.req}] \/ granted' = granted
  BY DEF OnThreadResult
<1> HIDE DEF m
<1>5. MatesTyped'
  <2>1. MatesTyped
    BY DEF TeamInv
  <2>2. pending' \in [Mates -> SUBSET Requests]
    BY <1>4, <2>1 DEF MatesTyped
  <2>3. granted' \in [Mates -> SUBSET Requests]
    <3>1. granted \in [Mates -> SUBSET Requests] /\ granted[n] \union {m.req} \in SUBSET Requests
      BY <1>3, <2>1 DEF MatesTyped
    <3> QED
      BY <1>4, <3>1
  <2> QED
    BY <1>1, <2>1, <2>2, <2>3 DEF MatesTyped
<1>6. proc[n] # "none"
  BY <1>1, AliveFacts
<1>7. ASSUME NEW k \in Mates PROVE MateOk(k)'
  BY <1>1, <1>2, <1>4, <1>6 DEF TeamInv, MatesTyped, MateOk
<1> QED
  BY <1>2, <1>5, <1>7 DEF TeamInv

LEMMA OnShutdownTyped ==
  ASSUME TeamInv, NEW n \in Mates, OnShutdown(n)
  PROVE  TeamInv'
<1>1. /\ proc[n] = "live" /\ Heard(n) /\ lead.sent[n] # <<>> /\ Say(n, Releases(pending[n]))
      /\ proc' = [proc EXCEPT ![n] = "closing"] /\ aborted' = [aborted EXCEPT ![n] = active[n] # None]
      /\ pending' = [pending EXCEPT ![n] = {}] /\ UNCHANGED <<active, granted>>
  BY DEF OnShutdown, Order
<1>2. LeadOk(lead') /\ lead'.lease = lead.lease
  BY <1>1, HeardOk
<1>3. pending[n] \in SUBSET Requests
  BY DEF TeamInv, MatesTyped
<1>4. Releases(pending[n]) \in Seq(MateMsg)
  BY <1>3, ReleasesFacts
<1>5. up' \in [Mates -> Seq(MateMsg)] /\ \A m \in Mates \ {n} : up'[m] = up[m]
  BY <1>1, <1>4, SayOk
<1>6. MatesTyped'
  BY <1>1, <1>5 DEF TeamInv, MatesTyped
<1>7. ASSUME NEW m \in Mates PROVE MateOk(m)'
  <2>1. CASE m = n
    BY <1>1, <1>2, <2>1 DEF TeamInv, MatesTyped, MateOk
  <2>2. CASE m # n
    BY <1>1, <1>2, <1>5, <2>2 DEF TeamInv, MatesTyped, MateOk
  <2> QED
    BY <2>1, <2>2
<1> QED
  BY <1>2, <1>6, <1>7 DEF TeamInv

LEMMA FinishTyped ==
  ASSUME TeamInv, NEW n \in Mates, Finish(n)
  PROVE  /\ TeamInv'
         /\ \E st \in Terminal, w \in {<<>>, <<[kind |-> "idle", run |-> active[n]]>>} :
              /\ w \in Seq(MateMsg) /\ Update(active[n], st) \in MateMsg /\ active[n] \in Runs
              /\ up'[n] = up[n] \o (<<Update(active[n], st)>> \o w)
         /\ \A m \in Mates \ {n} : up'[m] = up[m]
<1>1. /\ Alive(n) /\ active[n] # None /\ active' = [active EXCEPT ![n] = None] /\ aborted' = [aborted EXCEPT ![n] = FALSE]
      /\ UNCHANGED <<lead, proc, pending, granted>>
  BY DEF Finish
<1>2. PICK st \in Outcomes(n) :
        Say(n, <<Update(active[n], st)>> \o IF proc[n] = "live" THEN <<[kind |-> "idle", run |-> active[n]]>> ELSE <<>>)
  BY DEF Finish
<1> DEFINE idle == [kind |-> "idle", run |-> active[n]]
           w == IF proc[n] = "live" THEN <<idle>> ELSE <<>>
           v == <<Update(active[n], st)>> \o w
<1>3. st \in Terminal /\ active[n] \in Runs
  BY <1>1 DEF Outcomes, Terminal, TeamInv, MatesTyped
<1>4. Update(active[n], st) \in MateMsg /\ idle \in MateMsg
  BY <1>3 DEF MateMsg, Update
<1>5. w \in Seq(MateMsg) /\ <<Update(active[n], st)>> \in Seq(MateMsg) /\ w \in {<<>>, <<idle>>}
  BY <1>4, ShortFacts
<1>6. Say(n, v)
  BY <1>2
<1> HIDE DEF w
<1>7. v \in Seq(MateMsg)
  BY <1>5, ConcatFacts
<1> HIDE DEF v
<1>8. up' \in [Mates -> Seq(MateMsg)] /\ up'[n] = up[n] \o v /\ \A m \in Mates \ {n} : up'[m] = up[m]
  BY <1>6, <1>7, SayOk
<1>9. MatesTyped'
  BY <1>1, <1>8 DEF TeamInv, MatesTyped
<1>10. proc[n] # "none"
  BY <1>1, AliveFacts
<1>11. ASSUME NEW m \in Mates PROVE MateOk(m)'
  <2>1. CASE m = n
    BY <1>1, <1>10, <2>1 DEF TeamInv, MatesTyped, MateOk
  <2>2. CASE m # n
    BY <1>1, <1>8, <2>2 DEF TeamInv, MatesTyped, MateOk
  <2> QED
    BY <2>1, <2>2
<1>12. TeamInv'
  BY <1>1, <1>9, <1>11 DEF TeamInv
<1> QED
  BY <1>3, <1>4, <1>5, <1>8, <1>12 DEF v

\* A nested thread is asked for or given back.
LEMMA ThreadStepTyped ==
  ASSUME TeamInv, NEW n \in Mates, Alive(n), NEW w \in Seq(MateMsg), Say(n, w),
         NEW P \in SUBSET Requests, NEW G \in SUBSET Requests,
         pending' = [pending EXCEPT ![n] = P], granted' = [granted EXCEPT ![n] = G],
         UNCHANGED <<lead, proc, active, aborted>>
  PROVE  TeamInv'
<1>1. up' \in [Mates -> Seq(MateMsg)] /\ \A m \in Mates \ {n} : up'[m] = up[m]
  BY SayOk
<1>2. MatesTyped'
  BY <1>1 DEF TeamInv, MatesTyped
<1>3. proc[n] # "none"
  BY AliveFacts
<1>4. ASSUME NEW m \in Mates PROVE MateOk(m)'
  <2>1. CASE m = n
    BY <1>3, <2>1 DEF TeamInv, MatesTyped, MateOk
  <2>2. CASE m # n
    BY <1>1, <2>2 DEF TeamInv, MatesTyped, MateOk
  <2> QED
    BY <2>1, <2>2
<1> QED
  BY <1>2, <1>4 DEF TeamInv

LEMMA ThreadsTyped ==
  ASSUME TeamInv, NEW n \in Mates, NEW r \in Requests, Acquire(n, r) \/ AcquireTimesOut(n, r) \/ ReleaseThread(n, r)
  PROVE  TeamInv' /\ <<[kind |-> "acquire", req |-> r]>> \in Seq(MateMsg)
<1> DEFINE acq == [kind |-> "acquire", req |-> r]
<1>1. acq \in MateMsg /\ <<acq>> \in Seq(MateMsg)
  <2>1. acq \in MateMsg
    BY DEF MateMsg
  <2> QED
    BY <2>1, ShortFacts
<1>2. Releases({r}) \in Seq(MateMsg)
  BY ReleasesFacts
<1>3. pending[n] \in SUBSET Requests /\ granted[n] \in SUBSET Requests /\ MatesTyped
  BY DEF TeamInv, MatesTyped
<1>4. pending = [pending EXCEPT ![n] = pending[n]] /\ granted = [granted EXCEPT ![n] = granted[n]]
  BY <1>3 DEF MatesTyped
<1>5. CASE Acquire(n, r)
  <2>1. /\ Alive(n) /\ Say(n, <<acq>>) /\ pending' = [pending EXCEPT ![n] = pending[n] \union {r}]
        /\ granted' = [granted EXCEPT ![n] = granted[n]] /\ UNCHANGED <<lead, proc, active, aborted>>
    BY <1>4, <1>5 DEF Acquire, Alive
  <2>2. pending[n] \union {r} \in SUBSET Requests
    BY <1>3
  <2> QED
    BY <1>1, <1>3, <2>1, <2>2, ThreadStepTyped
<1>6. CASE AcquireTimesOut(n, r)
  <2>1. /\ Alive(n) /\ Say(n, Releases({r})) /\ pending' = [pending EXCEPT ![n] = pending[n] \ {r}]
        /\ granted' = [granted EXCEPT ![n] = granted[n]] /\ UNCHANGED <<lead, proc, active, aborted>>
    BY <1>4, <1>6 DEF AcquireTimesOut
  <2>2. pending[n] \ {r} \in SUBSET Requests
    BY <1>3
  <2> QED
    BY <1>1, <1>2, <1>3, <2>1, <2>2, ThreadStepTyped
<1>7. CASE ReleaseThread(n, r)
  <2>1. /\ Alive(n) /\ Say(n, Releases({r})) /\ granted' = [granted EXCEPT ![n] = granted[n] \ {r}]
        /\ pending' = [pending EXCEPT ![n] = pending[n]] /\ UNCHANGED <<lead, proc, active, aborted>>
    BY <1>4, <1>7 DEF ReleaseThread
  <2>2. granted[n] \ {r} \in SUBSET Requests
    BY <1>3
  <2> QED
    BY <1>1, <1>2, <1>3, <2>1, <2>2, ThreadStepTyped
<1> QED
  BY <1>5, <1>6, <1>7

LEMMA ExitTyped ==
  ASSUME TeamInv, NEW n \in Mates, Exit(n)
  PROVE  /\ TeamInv' /\ Append(Releases(granted[n]), [kind |-> "ack"]) \in Seq(MateMsg)
         /\ \A m \in Mates \ {n} : up'[m] = up[m]
<1> DEFINE w == Append(Releases(granted[n]), [kind |-> "ack"])
<1>1. /\ proc[n] = "closing" /\ Say(n, w) /\ proc' = [proc EXCEPT ![n] = "exited"]
      /\ UNCHANGED <<lead, active, aborted, pending, granted>>
  BY DEF Exit
<1>2. w \in Seq(MateMsg)
  <2>1. granted[n] \in SUBSET Requests /\ [kind |-> "ack"] \in MateMsg
    BY DEF TeamInv, MatesTyped, MateMsg
  <2> QED
    BY <2>1, ReleasesFacts, AppendFacts
<1> HIDE DEF w
<1>3. up' \in [Mates -> Seq(MateMsg)] /\ \A m \in Mates \ {n} : up'[m] = up[m]
  BY <1>1, <1>2, SayOk
<1>4. MatesTyped'
  BY <1>1, <1>3 DEF TeamInv, MatesTyped
<1>5. ASSUME NEW m \in Mates PROVE MateOk(m)'
  <2>1. CASE m = n
    BY <1>1, <2>1 DEF TeamInv, MatesTyped, MateOk
  <2>2. CASE m # n
    BY <1>1, <1>3, <2>2 DEF TeamInv, MatesTyped, MateOk
  <2> QED
    BY <2>1, <2>2
<1>6. TeamInv'
  BY <1>1, <1>4, <1>5 DEF TeamInv
<1> QED
  BY <1>2, <1>3, <1>6 DEF w

LEMMA NextTyped ==
  ASSUME TeamInv, [Next]_vars
  PROVE  TeamInv'
<1>1. CASE UNCHANGED vars
  BY <1>1 DEF TeamInv, MatesTyped, MateOk, vars, procVars
<1>2. CASE CreateTeam \/ Shutdown \/ ShutdownDone \/ ShutdownFails
  BY <1>2, CreateTeamTyped, ShutdownTyped, ShutdownEndTyped
<1>3. CASE \/ \E t \in Tasks : CreateTask(t) \/ StopTask(t)
           \/ \E t \in Tasks, st \in LeadStatuses \union {None} :
                \E deps \in NewDeps[t] \union {lead.deps[t]} : UpdateTask(t, st, deps)
           \/ \E w \in Workspaces : SwitchWorkspace(w)
  BY <1>3, CreateTaskTyped, StopTaskTyped, UpdateTaskTyped, SwitchWorkspaceTyped
<1>4. ASSUME NEW n \in Mates,
             AddTeammate(n) \/ Kill(n) \/ LeadReads(n) \/ OnExit(n) \/ MateReads(n) \/ Finish(n) \/ Exit(n) \/ Crash(n)
      PROVE  TeamInv'
  <2>1. CASE AddTeammate(n) \/ Kill(n) \/ OnExit(n) \/ Finish(n) \/ Exit(n) \/ Crash(n)
    BY <2>1, AddTeammateTyped, GoneTyped, OnExitTyped, FinishTyped, ExitTyped
  <2>2. CASE LeadReads(n)
    BY <2>2, OnStatusTyped, OnTaskUpdateTyped, OnThreadsTyped DEF LeadReads
  <2>3. CASE MateReads(n)
    BY <2>3, OnAssignTyped, OnCancelTyped, OnThreadResultTyped, OnShutdownTyped DEF MateReads
  <2> QED
    BY <1>4, <2>1, <2>2, <2>3
<1>5. CASE \E n \in Mates, r \in Requests : Acquire(n, r) \/ AcquireTimesOut(n, r) \/ ReleaseThread(n, r)
  BY <1>5, ThreadsTyped
<1> QED
  BY <1>1, <1>2, <1>3, <1>4, <1>5 DEF Next

\* What every state looks like, for any number of teammates, tasks and requests.
THEOREM TeamInvariant == Spec => []TeamInv
<1>1. Init => TeamInv
  BY InitTyped
<1>2. TeamInv /\ [Next]_vars => TeamInv'
  BY NextTyped
<1> QED
  BY <1>1, <1>2, PTL DEF Spec

\* The lead's maps, the processes and the pipes hold what they should; the lead holds a lease
\* exactly for the processes whose exit it has not noticed, and keeps nothing of the others.
THEOREM TeamTypes == Spec => []TypeOK
<1>1. TeamInv => TypeOK
  <2> SUFFICES ASSUME TeamInv PROVE TypeOK
    OBVIOUS
  <2>1. lead \in Lead /\ MatesTyped
    BY DEF TeamInv, LeadOk
  <2>2. /\ lead.team \in {"none", "active", "completed"}
        /\ lead.status \in [Mates -> {"none", "spawning", "idle", "working", "shutdown"}]
        /\ lead.task \in [Tasks -> Task]
        /\ lead.requested \in [Tasks -> Requestable \union {None}]
        /\ lead.running \in [Tasks -> 0 .. MaxTries]
    BY <2>1 DEF Lead
  <2>3. ASSUME NEW n \in Mates
        PROVE  /\ lead.last[n] \in Runs \union {None} /\ active[n] \in Runs \union {None}
               /\ lead.nested[n] \union pending[n] \union granted[n] \subseteq Requests
               /\ lead.lease[n] <=> proc[n] # "none"
               /\ ~lead.lease[n] => lead.last[n] = None /\ lead.nested[n] = {} /\ lead.sent[n] = <<>>
               /\ aborted[n] => active[n] # None
    <3>1. lead.last[n] \in Runs \union {None} /\ lead.nested[n] \in SUBSET Requests
      BY <2>1, LeadFields
    <3>2. pending[n] \in SUBSET Requests /\ granted[n] \in SUBSET Requests /\ active[n] \in Runs \union {None}
      BY <2>1 DEF MatesTyped
    <3>3. MateOk(n) /\ (~lead.lease[n] => Forgotten(lead, n))
      BY DEF TeamInv, LeadOk
    <3> QED
      BY <3>1, <3>2, <3>3 DEF MateOk, Forgotten
  <2>4. /\ lead.deps \in [Tasks -> SUBSET Tasks] /\ lead.root \in [Tasks -> Workspaces \union {None}]
        /\ lead.home \in [Mates -> Workspaces \union {None}] /\ lead.workspace \in Workspaces
    BY <2>1 DEF Lead
  <2> QED
    BY <2>1, <2>2, <2>3, <2>4 DEF TypeOK, Task, MatesTyped
<1> QED
  BY <1>1, TeamInvariant, PTL

-----------------------------------------------------------------------------
(* Nested threads: what the lead counts and what a living teammate has. *)

Acq(r) == [kind |-> "acquire", req |-> r]
Rel(r) == [kind |-> "release", req |-> r]

\* Request r of one teammate: sent and nested at the lead, its pipe u to the lead, pending and
\* granted at the teammate.
ThreadOk(r, sent, nested, u, pend, have) ==
  /\ r \in have => r \in nested
  /\ r \notin pend \/ r \notin have
  /\ r \in nested => r \in pend \/ r \in have \/ Rel(r) \in ToSet(u)
  /\ Rel(r) \in ToSet(u) => r \notin pend /\ r \notin have
  /\ ~Before(u, Acq(r), Acq(r))
  /\ Acq(r) \in ToSet(u) => /\ r \notin nested /\ Res(r, TRUE) \notin ToSet(sent) /\ Res(r, FALSE) \notin ToSet(sent)
                            /\ r \in pend \/ Before(u, Acq(r), Rel(r))
  /\ Res(r, FALSE) \in ToSet(sent) => r \notin nested
  /\ Res(r, TRUE) \in ToSet(sent) /\ r \in pend => r \in nested

\* The lead's limit, and each request's course.
ThreadInv ==
  /\ Used(lead) <= MaxChildren
  /\ \A n \in Mates : Alive(n) =>
       \A r \in Requests : ThreadOk(r, lead.sent[n], lead.nested[n], up[n], pending[n], granted[n])

\* The pipe w tells of r what u tells.
SameRequests(r, u, w) ==
  /\ Rel(r) \in ToSet(w) <=> Rel(r) \in ToSet(u)
  /\ Acq(r) \in ToSet(w) => Acq(r) \in ToSet(u)
  /\ Before(w, Acq(r), Acq(r)) => Before(u, Acq(r), Acq(r))
  /\ Acq(r) \in ToSet(w) /\ Before(u, Acq(r), Rel(r)) => Before(w, Acq(r), Rel(r))

LEMMA ThreadFrame ==
  ASSUME NEW r, NEW sent, NEW nested, NEW u, NEW pend, NEW have, ThreadOk(r, sent, nested, u, pend, have),
         NEW rest, NEW w, NEW nested2, NEW pend2, NEW have2,
         r \in nested2 <=> r \in nested, r \in pend2 <=> r \in pend, r \in have2 <=> r \in have,
         SameRequests(r, u, w), FewerAnswers(r, sent, rest)
  PROVE  ThreadOk(r, rest, nested2, w, pend2, have2)
  BY DEF ThreadOk, SameRequests, FewerAnswers

LEMMA SameAnswers ==
  /\ \A r, sent : FewerAnswers(r, sent, sent)
  /\ \A r, u : SameRequests(r, u, u)
  BY DEF FewerAnswers, SameRequests

\* A line that is not about a nested thread leaves the pipe, or comes.
LEMMA OtherLineTaken ==
  ASSUME NEW r, NEW u \in Seq(MateMsg), u # <<>>, Head(u) # Acq(r), Head(u) # Rel(r)
  PROVE  SameRequests(r, u, Tail(u))
<1>1. /\ ToSet(u) = {Head(u)} \union ToSet(Tail(u))
      /\ \A x, y : Before(u, x, y) <=> Before(Tail(u), x, y) \/ (x = Head(u) /\ y \in ToSet(Tail(u)))
  BY TailFacts
<1> QED
  BY <1>1 DEF SameRequests

LEMMA OtherLinesCome ==
  ASSUME NEW r, NEW u \in Seq(MateMsg), NEW w \in Seq(MateMsg), Acq(r) \notin ToSet(w), Rel(r) \notin ToSet(w)
  PROVE  SameRequests(r, u, u \o w)
<1>1. /\ ToSet(u \o w) = ToSet(u) \union ToSet(w)
      /\ \A x, y : Before(u \o w, x, y) <=> Before(u, x, y) \/ Before(w, x, y) \/ (x \in ToSet(u) /\ y \in ToSet(w))
  BY ConcatFacts
<1>2. ~Before(w, Acq(r), Acq(r))
  BY DEF Before, ToSet
<1> QED
  BY <1>1, <1>2 DEF SameRequests

LEMMA AnswerTaken ==
  ASSUME NEW r, NEW s \in Seq(LeadMsg), s # <<>>
  PROVE  FewerAnswers(r, s, Tail(s))
<1>1. ToSet(s) = {Head(s)} \union ToSet(Tail(s))
  BY TailFacts
<1> QED
  BY <1>1 DEF FewerAnswers

\* The lead reads a request and answers it.
LEMMA AcquireThread ==
  ASSUME NEW r, NEW sent \in Seq(LeadMsg), NEW nested, NEW u \in Seq(MateMsg), NEW pend, NEW have,
         ThreadOk(r, sent, nested, u, pend, have), u # <<>>, Head(u) = Acq(r),
         NEW ok \in BOOLEAN, Res(r, ok) \in LeadMsg, NEW nested2, nested2 = IF ok THEN nested \union {r} ELSE nested
  PROVE  ThreadOk(r, Append(sent, Res(r, ok)), nested2, Tail(u), pend, have)
<1>1. /\ ToSet(u) = {Head(u)} \union ToSet(Tail(u))
      /\ \A x, y : Before(u, x, y) <=> Before(Tail(u), x, y) \/ (x = Head(u) /\ y \in ToSet(Tail(u)))
  BY TailFacts
<1>2. ToSet(Append(sent, Res(r, ok))) = ToSet(sent) \union {Res(r, ok)}
  BY AppendFacts
<1>3. Acq(r) # Rel(r) /\ Res(r, TRUE) # Res(r, FALSE)
  BY DEF Acq, Rel, Res
<1>4. Acq(r) \notin ToSet(Tail(u))
  BY <1>1 DEF ThreadOk
<1>5. \A x, y : Before(Tail(u), x, y) => x \in ToSet(Tail(u)) /\ y \in ToSet(Tail(u))
  BY DEF Before, ToSet
<1>6. /\ r \notin nested /\ Res(r, TRUE) \notin ToSet(sent) /\ Res(r, FALSE) \notin ToSet(sent)
      /\ r \in pend \/ Rel(r) \in ToSet(Tail(u))
      /\ r \notin have /\ ~Before(Tail(u), Acq(r), Acq(r))
  BY <1>1, <1>4, <1>5 DEF ThreadOk
<1>7. Rel(r) \in ToSet(Tail(u)) => r \notin pend /\ r \notin have
  BY <1>1 DEF ThreadOk
<1>8. CASE ok
  BY <1>2, <1>3, <1>4, <1>6, <1>7, <1>8 DEF ThreadOk
<1>9. CASE ~ok
  BY <1>2, <1>3, <1>4, <1>6, <1>7, <1>9 DEF ThreadOk
<1> QED
  BY <1>8, <1>9

\* The lead reads a release.
LEMMA ReleaseThreadRead ==
  ASSUME NEW r, NEW sent, NEW nested, NEW u \in Seq(MateMsg), NEW pend, NEW have,
         ThreadOk(r, sent, nested, u, pend, have), u # <<>>, Head(u) = Rel(r)
  PROVE  ThreadOk(r, sent, nested \ {r}, Tail(u), pend, have)
<1>1. /\ ToSet(u) = {Head(u)} \union ToSet(Tail(u))
      /\ \A x, y : Before(u, x, y) <=> Before(Tail(u), x, y) \/ (x = Head(u) /\ y \in ToSet(Tail(u)))
  BY TailFacts
<1>2. Acq(r) # Rel(r)
  BY DEF Acq, Rel
<1>3. r \notin pend /\ r \notin have /\ ~Before(Tail(u), Acq(r), Acq(r))
  BY <1>1 DEF ThreadOk
<1>4. Acq(r) \in ToSet(Tail(u)) => /\ Res(r, TRUE) \notin ToSet(sent) /\ Res(r, FALSE) \notin ToSet(sent)
                                  /\ Before(Tail(u), Acq(r), Rel(r))
  BY <1>1, <1>2, <1>3 DEF ThreadOk
<1> QED
  BY <1>3, <1>4 DEF ThreadOk

\* The teammate reads an answer.
LEMMA ResultRead ==
  ASSUME NEW r, NEW sent \in Seq(LeadMsg), NEW nested, NEW u, NEW pend, NEW have,
         ThreadOk(r, sent, nested, u, pend, have), sent # <<>>, NEW ok \in BOOLEAN, Head(sent) = Res(r, ok),
         NEW have2, have2 = IF ok /\ r \in pend THEN have \union {r} ELSE have
  PROVE  ThreadOk(r, Tail(sent), nested, u, pend \ {r}, have2)
<1>1. ToSet(sent) = {Head(sent)} \union ToSet(Tail(sent))
  BY TailFacts
<1>2. Res(r, ok) \in ToSet(sent)
  BY <1>1
<1>3. CASE ok
  <2>1. ok = TRUE
    BY <1>3
  <2> QED
    BY <1>1, <1>2, <2>1 DEF ThreadOk
<1>4. CASE ~ok
  <2>1. ok = FALSE
    BY <1>4
  <2> QED
    BY <1>1, <1>2, <2>1 DEF ThreadOk
<1> QED
  BY <1>3, <1>4

\* The teammate gives up, or gives back, and says so.
LEMMA ReleaseSaid ==
  ASSUME NEW r, NEW sent, NEW nested, NEW u \in Seq(MateMsg), NEW pend, NEW have,
         ThreadOk(r, sent, nested, u, pend, have), r \in pend \/ r \in have,
         NEW w \in Seq(MateMsg), Rel(r) \in ToSet(w), Acq(r) \notin ToSet(w),
         NEW pend2, NEW have2, r \notin pend2, r \notin have2
  PROVE  ThreadOk(r, sent, nested, u \o w, pend2, have2)
<1>1. /\ ToSet(u \o w) = ToSet(u) \union ToSet(w)
      /\ \A x, y : Before(u \o w, x, y) <=> Before(u, x, y) \/ Before(w, x, y) \/ (x \in ToSet(u) /\ y \in ToSet(w))
  BY ConcatFacts
<1>2. ~Before(w, Acq(r), Acq(r))
  BY DEF Before, ToSet
<1>3. Acq(r) \in ToSet(u \o w) => Before(u \o w, Acq(r), Rel(r)) /\ Acq(r) \in ToSet(u)
  BY <1>1
<1>4. ~Before(u \o w, Acq(r), Acq(r)) /\ Rel(r) \in ToSet(u \o w)
  BY <1>1, <1>2 DEF ThreadOk
<1> QED
  BY <1>3, <1>4 DEF ThreadOk

\* The teammate asks, with a new ID.
LEMMA AcquireSaid ==
  ASSUME NEW r, NEW sent, NEW nested, NEW u \in Seq(MateMsg), NEW pend, NEW have, Acq(r) \in MateMsg,
         r \notin nested, r \notin have, Acq(r) \notin ToSet(u), Rel(r) \notin ToSet(u),
         \A ok \in BOOLEAN : Res(r, ok) \notin ToSet(sent)
  PROVE  ThreadOk(r, sent, nested, u \o <<Acq(r)>>, pend \union {r}, have)
<1>1. <<Acq(r)>> \in Seq(MateMsg) /\ ToSet(<<Acq(r)>>) = {Acq(r)} /\ \A x, y : ~Before(<<Acq(r)>>, x, y)
  BY ShortFacts
<1>2. /\ ToSet(u \o <<Acq(r)>>) = ToSet(u) \union {Acq(r)}
      /\ \A x, y : Before(u \o <<Acq(r)>>, x, y) <=> Before(u, x, y) \/ (x \in ToSet(u) /\ y = Acq(r))
  BY <1>1, ConcatFacts
<1>3. ~Before(u, Acq(r), Acq(r)) /\ Acq(r) # Rel(r)
  BY DEF Before, ToSet, Acq, Rel
<1> QED
  BY <1>2, <1>3 DEF ThreadOk

-----------------------------------------------------------------------------
(* The lead's count of threads. *)

Leases(s) == {n \in Mates : s.lease[n]}
Threads(s) == {p \in Mates \X Requests : p[2] \in s.nested[p[1]]}

LEMMA UsedFacts ==
  ASSUME NEW s
  PROVE  /\ IsFiniteSet(Leases(s)) /\ IsFiniteSet(Threads(s))
         /\ Cardinality(Leases(s)) \in Nat /\ Cardinality(Threads(s)) \in Nat
         /\ Used(s) = Cardinality(Leases(s)) + Cardinality(Threads(s))
<1>1. IsFiniteSet(Mates \X Requests) /\ IsFiniteSet(Mates)
  BY Finiteness, FS_Product
<1>2. Threads(s) \in SUBSET (Mates \X Requests) /\ Leases(s) \in SUBSET Mates
  BY DEF Threads, Leases
<1>3. IsFiniteSet(Leases(s)) /\ IsFiniteSet(Threads(s))
  BY <1>1, <1>2, FS_Subset
<1> QED
  BY <1>3, FS_CardinalityType DEF Used, Leases, Threads

\* Nothing is added.
LEMMA UsedShrinks ==
  ASSUME NEW s, NEW z,
         \A n \in Mates : (z.lease[n] => s.lease[n]) /\ z.nested[n] \subseteq s.nested[n]
  PROVE  Used(z) <= Used(s)
<1>1. Leases(z) \in SUBSET Leases(s) /\ Threads(z) \in SUBSET Threads(s)
  BY DEF Leases, Threads
<1>2. /\ Cardinality(Leases(z)) <= Cardinality(Leases(s))
      /\ Cardinality(Threads(z)) <= Cardinality(Threads(s))
  BY <1>1, UsedFacts, FS_Subset
<1> QED
  BY <1>2, UsedFacts

\* One lease, or one nested thread, is added.
LEMMA UsedGrows ==
  ASSUME NEW s, NEW z, NEW n \in Mates,
         \A m \in Mates \ {n} : (z.lease[m] => s.lease[m]) /\ z.nested[m] = s.nested[m],
         \/ z.nested[n] = s.nested[n]
         \/ (z.lease[n] => s.lease[n]) /\ \E r \in Requests : z.nested[n] = s.nested[n] \union {r}
  PROVE  Used(z) <= Used(s) + 1
<1>3. /\ Cardinality(Leases(s)) \in Nat /\ Cardinality(Threads(s)) \in Nat
      /\ Cardinality(Leases(z)) \in Nat /\ Cardinality(Threads(z)) \in Nat
      /\ Used(s) = Cardinality(Leases(s)) + Cardinality(Threads(s))
      /\ Used(z) = Cardinality(Leases(z)) + Cardinality(Threads(z))
  BY UsedFacts
<1>1. CASE z.nested[n] = s.nested[n]
  <2>1. Leases(z) \in SUBSET (Leases(s) \union {n}) /\ Threads(z) = Threads(s)
    BY <1>1 DEF Leases, Threads
  <2>2. IsFiniteSet(Leases(s) \union {n}) /\ Cardinality(Leases(s) \union {n}) <= Cardinality(Leases(s)) + 1
    <3>1. IsFiniteSet(Leases(s)) /\ Cardinality(Leases(s)) \in Nat
      BY UsedFacts
    <3>2. /\ IsFiniteSet(Leases(s) \union {n})
          /\ \/ Cardinality(Leases(s) \union {n}) = Cardinality(Leases(s))
             \/ Cardinality(Leases(s) \union {n}) = Cardinality(Leases(s)) + 1
      BY <3>1, FS_AddElement
    <3> QED
      BY <3>1, <3>2
  <2>3. Cardinality(Leases(z)) <= Cardinality(Leases(s) \union {n}) /\ Cardinality(Leases(s) \union {n}) \in Nat
    BY <2>1, <2>2, FS_Subset, FS_CardinalityType
  <2>4. Cardinality(Leases(z)) <= Cardinality(Leases(s)) + 1 /\ Cardinality(Threads(z)) = Cardinality(Threads(s))
    <3>1. Cardinality(Leases(z)) \in Nat /\ Cardinality(Leases(s)) \in Nat
      BY UsedFacts
    <3> QED
      BY <2>1, <2>2, <2>3, <3>1
  <2> QED
    BY <1>3, <2>4
<1>2. CASE (z.lease[n] => s.lease[n]) /\ \E r \in Requests : z.nested[n] = s.nested[n] \union {r}
  <2>1. PICK r \in Requests : z.nested[n] = s.nested[n] \union {r}
    BY <1>2
  <2>2. Leases(z) \in SUBSET Leases(s) /\ Threads(z) \in SUBSET (Threads(s) \union {<<n, r>>})
    BY <1>2, <2>1 DEF Leases, Threads
  <2>3. /\ IsFiniteSet(Threads(s) \union {<<n, r>>})
        /\ Cardinality(Threads(s) \union {<<n, r>>}) <= Cardinality(Threads(s)) + 1
    <3>1. IsFiniteSet(Threads(s)) /\ Cardinality(Threads(s)) \in Nat
      BY UsedFacts
    <3>2. /\ IsFiniteSet(Threads(s) \union {<<n, r>>})
          /\ \/ Cardinality(Threads(s) \union {<<n, r>>}) = Cardinality(Threads(s))
             \/ Cardinality(Threads(s) \union {<<n, r>>}) = Cardinality(Threads(s)) + 1
      BY <3>1, FS_AddElement
    <3> QED
      BY <3>1, <3>2
  <2>4. /\ Cardinality(Threads(z)) <= Cardinality(Threads(s) \union {<<n, r>>})
        /\ Cardinality(Threads(s) \union {<<n, r>>}) \in Nat
        /\ Cardinality(Leases(z)) <= Cardinality(Leases(s))
    BY <2>2, <2>3, UsedFacts, FS_Subset, FS_CardinalityType
  <2>5. Cardinality(Threads(z)) <= Cardinality(Threads(s)) + 1
    <3>1. Cardinality(Threads(z)) \in Nat /\ Cardinality(Threads(s)) \in Nat
      BY UsedFacts
    <3> QED
      BY <2>3, <2>4, <3>1
  <2> QED
    BY <1>3, <2>4, <2>5
<1> QED
  BY <1>1, <1>2

-----------------------------------------------------------------------------
(* Every step keeps ThreadInv. *)

Course(n) == \A r \in Requests : ThreadOk(r, lead.sent[n], lead.nested[n], up[n], pending[n], granted[n])

\* Teammate n is left alone.
Undisturbed(n) ==
  /\ up'[n] = up[n] /\ pending'[n] = pending[n] /\ granted'[n] = granted[n] /\ lead'.nested[n] = lead.nested[n]
  /\ \A r \in Requests : FewerAnswers(r, lead.sent[n], lead'.sent[n])

LEMMA CourseKept ==
  ASSUME NEW n, Course(n), Undisturbed(n)
  PROVE  Course(n)'
<1>1. ASSUME NEW r \in Requests
      PROVE  ThreadOk(r, lead'.sent[n], lead'.nested[n], up'[n], pending'[n], granted'[n])
  BY SameAnswers, ThreadFrame DEF Course, Undisturbed
<1> QED
  BY <1>1 DEF Course

\* It is enough to show that the count does not grow, and to look at the teammate of the step.
LEMMA ThreadStep ==
  ASSUME ThreadInv, NEW n \in Mates, Used(lead') <= MaxChildren,
         \A m \in Mates \ {n} : proc'[m] = proc[m] /\ Undisturbed(m), Alive(n)' => Course(n)'
  PROVE  ThreadInv'
<1>1. ASSUME NEW m \in Mates, Alive(m)' PROVE Course(m)'
  <2>1. CASE m = n
    BY <1>1, <2>1
  <2>2. CASE m # n
    <3>1. Alive(m) /\ Undisturbed(m)
      BY <1>1, <2>2 DEF Alive
    <3>2. Course(m)
      BY <3>1 DEF ThreadInv, Course
    <3> QED
      BY <3>1, <3>2, CourseKept
  <2> QED
    BY <2>1, <2>2
<1> QED
  BY <1>1 DEF ThreadInv, Course

\* The lead works on tasks, or reads a line that is not about a nested thread.
LEMMA QuietThreads ==
  ASSUME ThreadInv, Quiet, UNCHANGED procVars
  PROVE  ThreadInv'
<1>1. Used(lead') <= Used(lead)
  BY UsedShrinks DEF Quiet
<1>2. Used(lead') <= MaxChildren
  <2>1. Used(lead) \in Nat /\ Used(lead') \in Nat /\ MaxChildren \in Nat
    BY UsedFacts, Finiteness
  <2> QED
    BY <1>1, <2>1 DEF ThreadInv
<1>3. ASSUME NEW n \in Mates, Alive(n)' PROVE Course(n)'
  <2>1. Alive(n) /\ Undisturbed(n)
    BY <1>3 DEF Alive, Undisturbed, Quiet, NoAnswers, procVars
  <2>2. Course(n)
    BY <2>1 DEF ThreadInv, Course
  <2> QED
    BY <2>1, <2>2, CourseKept
<1> QED
  BY <1>2, <1>3 DEF ThreadInv, Course

\* What the count of the lead is not changed by.
LEMMA LimitKept ==
  ASSUME ThreadInv, \A n \in Mates : (lead'.lease[n] => lead.lease[n]) /\ lead'.nested[n] \subseteq lead.nested[n]
  PROVE  Used(lead') <= MaxChildren
<1>1. Used(lead') <= Used(lead)
  BY UsedShrinks
<1>2. Used(lead) \in Nat /\ Used(lead') \in Nat /\ MaxChildren \in Nat
  BY UsedFacts, Finiteness
<1> QED
  BY <1>1, <1>2 DEF ThreadInv

\* The other teammates are left alone when the lead reads a line from n.
LEMMA TakenAlone ==
  ASSUME TeamInv, NEW n \in Mates, Taken(n), up[n] # <<>>,
         \A m \in Mates \ {n} : lead'.nested[m] = lead.nested[m]
                                /\ \A r \in Requests : FewerAnswers(r, lead.sent[m], lead'.sent[m])
  PROVE  /\ up'[n] = Tail(up[n]) /\ proc' = proc /\ pending'[n] = pending[n] /\ granted'[n] = granted[n]
         /\ up[n] \in Seq(MateMsg)
         /\ \A m \in Mates \ {n} : proc'[m] = proc[m] /\ Undisturbed(m)
<1>1. up' = [up EXCEPT ![n] = Tail(up[n])] /\ UNCHANGED <<proc, pending, granted>>
  BY DEF Taken
<1>2. up \in [Mates -> Seq(MateMsg)]
  BY DEF TeamInv, MatesTyped
<1> QED
  BY <1>1, <1>2 DEF Undisturbed

LEMMA ReadsThreads ==
  ASSUME TeamInv, ThreadInv, NEW n \in Mates, Quiet, Taken(n), up[n] # <<>>,
         \A r \in Requests : Head(up[n]) # Acq(r) /\ Head(up[n]) # Rel(r)
  PROVE  ThreadInv'
<1>1. Used(lead') <= MaxChildren
  BY LimitKept DEF Quiet
<1>2. /\ up'[n] = Tail(up[n]) /\ proc' = proc /\ pending'[n] = pending[n] /\ granted'[n] = granted[n]
      /\ up[n] \in Seq(MateMsg)
      /\ \A m \in Mates \ {n} : proc'[m] = proc[m] /\ Undisturbed(m)
  BY TakenAlone DEF Quiet, NoAnswers
<1>3. ASSUME Alive(n)' PROVE Course(n)'
  <2>1. Course(n)
    BY <1>2, <1>3 DEF ThreadInv, Course, Alive
  <2>2. ASSUME NEW r \in Requests
        PROVE  ThreadOk(r, lead'.sent[n], lead'.nested[n], up'[n], pending'[n], granted'[n])
    <3>1. SameRequests(r, up[n], Tail(up[n]))
      BY <1>2, OtherLineTaken
    <3>2. FewerAnswers(r, lead.sent[n], lead'.sent[n]) /\ lead'.nested[n] = lead.nested[n]
      BY DEF Quiet, NoAnswers
    <3>3. ThreadOk(r, lead.sent[n], lead.nested[n], up[n], pending[n], granted[n])
      BY <2>1 DEF Course
    <3> QED
      BY <1>2, <3>1, <3>2, <3>3, ThreadFrame
  <2> QED
    BY <2>2 DEF Course
<1> QED
  BY <1>1, <1>2, <1>3, ThreadStep

LEMMA AcquireThreads ==
  ASSUME TeamInv, ThreadInv, NEW n \in Mates, OnThreadAcquire(n)
  PROVE  ThreadInv'
<1>1. PICK q \in Requests, ok \in BOOLEAN :
        /\ Head(up[n]) = [kind |-> "acquire", req |-> q]
        /\ ok = (~lead.closing /\ q \notin lead.nested[n] /\ Used(lead) < MaxChildren)
        /\ LeadOk(lead') /\ lead'.lease = lead.lease
        /\ lead'.nested[n] = IF ok THEN lead.nested[n] \union {q} ELSE lead.nested[n]
        /\ lead'.sent[n] = Append(lead.sent[n], [kind |-> "result", req |-> q, ok |-> ok])
        /\ \A m \in Mates \ {n} : lead'.nested[m] = lead.nested[m] /\ lead'.sent[m] = lead.sent[m]
  BY AcquireFacts
<1>2. Head(up[n]) = Acq(q) /\ Res(q, ok) \in LeadMsg /\ lead'.sent[n] = Append(lead.sent[n], Res(q, ok))
      /\ lead.sent[n] \in Seq(LeadMsg)
  BY <1>1, LeadFields DEF Acq, Res, LeadMsg, TeamInv, LeadOk
<1>3. up[n] # <<>> /\ Taken(n)
  BY DEF OnThreadAcquire, Line
<1>4. /\ up'[n] = Tail(up[n]) /\ proc' = proc /\ pending'[n] = pending[n] /\ granted'[n] = granted[n]
      /\ up[n] \in Seq(MateMsg)
      /\ \A m \in Mates \ {n} : proc'[m] = proc[m] /\ Undisturbed(m)
  BY <1>1, <1>3, TakenAlone, SameAnswers
<1>5. Used(lead') <= MaxChildren
  <2>1. CASE ok
    <3>1. Used(lead) < MaxChildren /\ Used(lead') <= Used(lead) + 1
      <4>1. lead'.nested[n] = lead.nested[n] \union {q}
        BY <1>1, <2>1
      <4>2. Used(lead') <= Used(lead) + 1
        BY <1>1, <4>1, UsedGrows
      <4> QED
        BY <1>1, <2>1, <4>2
    <3>2. Used(lead) \in Nat /\ Used(lead') \in Nat /\ MaxChildren \in Nat
      BY UsedFacts, Finiteness
    <3> QED
      BY <3>1, <3>2
  <2>2. CASE ~ok
    BY <1>1, <2>2, LimitKept
  <2> QED
    BY <2>1, <2>2
<1>6. ASSUME Alive(n)' PROVE Course(n)'
  <2>1. Course(n)
    BY <1>4, <1>6 DEF ThreadInv, Course, Alive
  <2>2. ASSUME NEW r \in Requests
        PROVE  ThreadOk(r, lead'.sent[n], lead'.nested[n], up'[n], pending'[n], granted'[n])
    <3>1. ThreadOk(r, lead.sent[n], lead.nested[n], up[n], pending[n], granted[n])
      BY <2>1 DEF Course
    <3>2. CASE r = q
      <4>1. ThreadOk(q, lead.sent[n], lead.nested[n], up[n], pending[n], granted[n])
        BY <3>1, <3>2
      <4>2. lead'.nested[n] = IF ok THEN lead.nested[n] \union {q} ELSE lead.nested[n]
        BY <1>1
      <4>3. ThreadOk(q, Append(lead.sent[n], Res(q, ok)), lead'.nested[n], Tail(up[n]), pending[n], granted[n])
        BY <1>2, <1>3, <1>4, <4>1, <4>2, AcquireThread
      <4> QED
        BY <1>2, <1>4, <3>2, <4>3
    <3>3. CASE r # q
      <4>1. Head(up[n]) # Acq(r) /\ Head(up[n]) # Rel(r)
        BY <1>2, <3>3 DEF Acq, Rel
      <4>2. SameRequests(r, up[n], Tail(up[n]))
        BY <1>3, <1>4, <4>1, OtherLineTaken
      <4>3. \A o : Res(r, o) # Res(q, ok)
        BY <3>3 DEF Res
      <4>4. ToSet(lead'.sent[n]) = ToSet(lead.sent[n]) \union {Res(q, ok)}
        BY <1>2, AppendFacts
      <4>5. FewerAnswers(r, lead.sent[n], lead'.sent[n])
        BY <4>3, <4>4 DEF FewerAnswers
      <4>6. r \in lead'.nested[n] <=> r \in lead.nested[n]
        BY <1>1, <3>3
      <4> QED
        BY <1>4, <3>1, <4>2, <4>5, <4>6, ThreadFrame
    <3> QED
      BY <3>2, <3>3
  <2> QED
    BY <2>2 DEF Course
<1> QED
  BY <1>4, <1>5, <1>6, ThreadStep

LEMMA ReleaseThreads ==
  ASSUME TeamInv, ThreadInv, NEW n \in Mates, OnThreadRelease(n)
  PROVE  ThreadInv'
<1>1. PICK q \in Requests :
        /\ Head(up[n]) = [kind |-> "release", req |-> q]
        /\ LeadOk(lead') /\ lead'.lease = lead.lease /\ lead'.sent = lead.sent
        /\ lead'.nested[n] = lead.nested[n] \ {q} /\ \A m \in Mates \ {n} : lead'.nested[m] = lead.nested[m]
  BY ReleaseFacts
<1>2. Head(up[n]) = Rel(q)
  BY <1>1 DEF Rel
<1>3. up[n] # <<>> /\ Taken(n)
  BY DEF OnThreadRelease, Line
<1>4. /\ up'[n] = Tail(up[n]) /\ proc' = proc /\ pending'[n] = pending[n] /\ granted'[n] = granted[n]
      /\ up[n] \in Seq(MateMsg)
      /\ \A m \in Mates \ {n} : proc'[m] = proc[m] /\ Undisturbed(m)
  BY <1>1, <1>3, TakenAlone, SameAnswers
<1>5. Used(lead') <= MaxChildren
  BY <1>1, LimitKept
<1>6. ASSUME Alive(n)' PROVE Course(n)'
  <2>1. Course(n)
    BY <1>4, <1>6 DEF ThreadInv, Course, Alive
  <2>2. ASSUME NEW r \in Requests
        PROVE  ThreadOk(r, lead'.sent[n], lead'.nested[n], up'[n], pending'[n], granted'[n])
    <3>1. ThreadOk(r, lead.sent[n], lead.nested[n], up[n], pending[n], granted[n])
      BY <2>1 DEF Course
    <3>2. CASE r = q
      BY <1>1, <1>2, <1>3, <1>4, <3>1, <3>2, ReleaseThreadRead
    <3>3. CASE r # q
      <4>1. Head(up[n]) # Acq(r) /\ Head(up[n]) # Rel(r)
        BY <1>2, <3>3 DEF Acq, Rel
      <4>2. SameRequests(r, up[n], Tail(up[n]))
        BY <1>3, <1>4, <4>1, OtherLineTaken
      <4>3. FewerAnswers(r, lead.sent[n], lead'.sent[n])
        BY <1>1, SameAnswers
      <4>4. r \in lead'.nested[n] <=> r \in lead.nested[n]
        BY <1>1, <3>3
      <4> QED
        BY <1>4, <3>1, <4>2, <4>3, <4>4, ThreadFrame
    <3> QED
      BY <3>2, <3>3
  <2> QED
    BY <2>2 DEF Course
<1> QED
  BY <1>4, <1>5, <1>6, ThreadStep

LEMMA LeadReadsThreads ==
  ASSUME TeamInv, ThreadInv, NEW n \in Mates, LeadReads(n)
  PROVE  ThreadInv'
<1>1. CASE OnReady(n) \/ OnIdle(n) \/ OnShutdownAck(n) \/ OnTaskUpdate(n)
  <2>1. Quiet
    BY <1>1, OnStatusTyped, OnTaskUpdateTyped
  <2>2. Taken(n) /\ up[n] # <<>> /\ Head(up[n]).kind \in {"ready", "idle", "ack", "update"}
    BY <1>1 DEF OnReady, OnIdle, OnShutdownAck, OnTaskUpdate, Line
  <2>3. \A r \in Requests : Head(up[n]) # Acq(r) /\ Head(up[n]) # Rel(r)
    BY <2>2 DEF Acq, Rel
  <2> QED
    BY <2>1, <2>2, <2>3, ReadsThreads
<1> QED
  BY <1>1, AcquireThreads, ReleaseThreads DEF LeadReads

-----------------------------------------------------------------------------
\* The lead starts a process, or hears that one is gone; or a process ends.
LEMMA ProcessThreads ==
  ASSUME TeamInv, ThreadInv, NEW n \in Mates, AddTeammate(n) \/ OnExit(n) \/ Kill(n) \/ Crash(n)
  PROVE  ThreadInv'
<1>1. CASE AddTeammate(n)
  <2>1. lead \in Lead /\ Forgotten(lead, n) /\ MatesTyped /\ MateOk(n) /\ ~lead.lease[n] /\ proc[n] = "none"
    BY <1>1 DEF TeamInv, LeadOk, AddTeammate, MateOk
  <2>2. /\ lead'.nested = lead.nested /\ lead'.sent = lead.sent
        /\ \A m \in Mates \ {n} : lead'.lease[m] = lead.lease[m]
    BY <1>1, <2>1 DEF AddTeammate, Lead
  <2>3. Used(lead') <= MaxChildren
    <3>1. Used(lead') <= Used(lead) + 1
      BY <2>2, UsedGrows
    <3>2. Used(lead) < MaxChildren /\ Used(lead) \in Nat /\ Used(lead') \in Nat /\ MaxChildren \in Nat
      BY <1>1, UsedFacts, Finiteness DEF AddTeammate
    <3> QED
      BY <3>1, <3>2
  <2>4. /\ up'[n] = <<[kind |-> "ready"]>> /\ pending'[n] = {} /\ granted'[n] = {}
        /\ \A m \in Mates \ {n} : proc'[m] = proc[m] /\ up'[m] = up[m]
        /\ pending' = pending /\ granted' = granted
    BY <1>1, <2>1 DEF AddTeammate, MatesTyped, MateOk
  <2>5. \A m \in Mates \ {n} : proc'[m] = proc[m] /\ Undisturbed(m)
    BY <2>2, <2>4, SameAnswers DEF Undisturbed
  <2>6. Course(n)'
    <3>1. ToSet(up'[n]) = {[kind |-> "ready"]} /\ \A x, y : ~Before(up'[n], x, y)
      <4>1. [kind |-> "ready"] \in MateMsg
        BY DEF MateMsg
      <4>2. /\ ToSet(<<[kind |-> "ready"]>>) = {[kind |-> "ready"]}
            /\ \A x, y : ~Before(<<[kind |-> "ready"]>>, x, y)
        BY <4>1, ShortFacts
      <4> QED
        BY <2>4, <4>2
    <3>2. ToSet(lead'.sent[n]) = {} /\ lead'.nested[n] = {}
      BY <2>1, <2>2, ShortFacts DEF Forgotten
    <3>3. \A r : Acq(r) # [kind |-> "ready"] /\ Rel(r) # [kind |-> "ready"]
      BY DEF Acq, Rel
    <3>4. \A r \in Requests : ThreadOk(r, lead'.sent[n], lead'.nested[n], up'[n], pending'[n], granted'[n])
      BY <2>4, <3>1, <3>2, <3>3 DEF ThreadOk
    <3> QED
      BY <3>4 DEF Course
  <2> QED
    BY <2>3, <2>5, <2>6, ThreadStep
<1>2. CASE OnExit(n)
  <2> DEFINE s == Exited(lead, n)
  <2>1. /\ LeadOk(s) /\ SameTeam(s, lead') /\ ~lead'.lease[n] /\ lead'.nested[n] = {}
        /\ \A m \in Mates \ {n} : lead'.lease[m] = lead.lease[m] /\ lead'.nested[m] = lead.nested[m]
    BY <1>2, OnExitFacts
  <2>2. Used(lead') <= MaxChildren
    BY <2>1, LimitKept
  <2>3. \A m \in Mates \ {n} : s.sent[m] = lead.sent[m]
    <3>1. lead \in Lead /\ TasksOk(lead)
      BY DEF TeamInv, LeadOk
    <3>2. s = Exited(lead, n)
      OBVIOUS
    <3> HIDE DEF s
    <3> QED
      BY <3>1, <3>2, ExitFacts DEF SameMate
  <2>4. lead' = TryAssign(s)
    BY <1>2 DEF OnExit
  <2> HIDE DEF s
  <2>5. NoAnswers(s, lead')
    BY <2>1, <2>4, TryAssignQuiet
  <2>6. \A m \in Mates \ {n} : up'[m] = up[m] /\ pending'[m] = pending[m] /\ granted'[m] = granted[m] /\ proc'[m] = proc[m]
    BY <1>2 DEF OnExit, TeamInv, MatesTyped
  <2>7. \A m \in Mates \ {n} : proc'[m] = proc[m] /\ Undisturbed(m)
    BY <2>1, <2>3, <2>5, <2>6 DEF Undisturbed, NoAnswers
  <2>8. ~Alive(n)'
    BY <1>2 DEF OnExit, Alive, TeamInv, MatesTyped
  <2> QED
    BY <2>2, <2>7, <2>8, ThreadStep
<1>3. CASE Kill(n) \/ Crash(n)
  <2>1. /\ proc' = [proc EXCEPT ![n] = "exited"] /\ UNCHANGED <<lead, up, pending, granted>>
    BY <1>3 DEF Kill, Crash
  <2>2. proc \in [Mates -> {"none", "live", "closing", "exited"}]
    BY DEF TeamInv, MatesTyped
  <2>3. ~Alive(n)' /\ \A m \in Mates \ {n} : proc'[m] = proc[m]
    BY <2>1, <2>2 DEF Alive
  <2>4. \A m \in Mates \ {n} : Undisturbed(m)
    BY <2>1, SameAnswers DEF Undisturbed
  <2>5. Used(lead') <= MaxChildren
    BY <2>1 DEF ThreadInv
  <2> QED
    BY <2>3, <2>4, <2>5, ThreadStep
<1> QED
  BY <1>1, <1>2, <1>3

\* A living teammate takes a line from the lead, or acts by itself.
LEMMA MateActs ==
  ASSUME TeamInv, ThreadInv, NEW n \in Mates, Alive(n), lead' = lead \/ (Heard(n) /\ lead.sent[n] # <<>>),
         \A m \in Mates \ {n} : /\ proc'[m] = proc[m] /\ up'[m] = up[m]
                                /\ pending'[m] = pending[m] /\ granted'[m] = granted[m],
         Alive(n)' => Course(n)'
  PROVE  ThreadInv'
<1>1. /\ lead'.lease = lead.lease /\ lead'.nested = lead.nested
      /\ \A m \in Mates \ {n} : lead'.sent[m] = lead.sent[m]
  BY HeardOk
<1>2. Used(lead') <= MaxChildren
  BY <1>1, LimitKept
<1>3. \A m \in Mates \ {n} : Undisturbed(m)
  BY <1>1, SameAnswers DEF Undisturbed
<1> QED
  BY <1>2, <1>3, ThreadStep

\* It writes lines that are not about nested threads, and may have taken one.
LEMMA OtherLines ==
  ASSUME TeamInv, ThreadInv, NEW n \in Mates, Alive(n), lead' = lead \/ (Heard(n) /\ lead.sent[n] # <<>>),
         NEW w \in Seq(MateMsg), up'[n] = up[n] \o w, \A r \in Requests : Acq(r) \notin ToSet(w) /\ Rel(r) \notin ToSet(w),
         \A m \in Mates \ {n} : proc'[m] = proc[m] /\ up'[m] = up[m],
         pending' = pending, granted' = granted
  PROVE  ThreadInv'
<1>1. Course(n)
  BY DEF ThreadInv, Course
<1>2. ASSUME NEW r \in Requests
      PROVE  ThreadOk(r, lead'.sent[n], lead'.nested[n], up'[n], pending'[n], granted'[n])
  <2>1. SameRequests(r, up[n], up'[n])
    <3>1. up[n] \in Seq(MateMsg)
      BY DEF TeamInv, MatesTyped
    <3> QED
      BY <3>1, OtherLinesCome
  <2>2. lead'.nested = lead.nested
    BY HeardOk
  <2>3. FewerAnswers(r, lead.sent[n], lead'.sent[n])
    <3>1. CASE lead' = lead
      BY <3>1, SameAnswers
    <3>2. CASE Heard(n) /\ lead.sent[n] # <<>>
      <4>1. lead.sent[n] \in Seq(LeadMsg) /\ lead'.sent[n] = Tail(lead.sent[n])
        BY <3>2, HeardOk
      <4> QED
        BY <3>2, <4>1, AnswerTaken
    <3> QED
      BY <3>1, <3>2
  <2> QED
    BY <1>1, <2>1, <2>2, <2>3, ThreadFrame DEF Course
<1>3. Course(n)'
  BY <1>2 DEF Course
<1> QED
  BY <1>3, MateActs

LEMMA AssignThreads ==
  ASSUME TeamInv, ThreadInv, NEW n \in Mates, OnAssign(n) \/ OnCancel(n)
  PROVE  ThreadInv'
<1>1. Alive(n) /\ Heard(n) /\ lead.sent[n] # <<>> /\ UNCHANGED <<proc, pending, granted>>
  BY DEF OnAssign, OnCancel, Order
<1>2. CASE OnCancel(n)
  <2>1. up' = up /\ up[n] \in Seq(MateMsg)
    BY <1>2 DEF OnCancel, TeamInv, MatesTyped
  <2>2. <<>> \in Seq(MateMsg) /\ ToSet(<<>>) = {} /\ up[n] \o <<>> = up[n]
    BY <2>1, EmptySeq, ConcatEmptySeq DEF ToSet
  <2> QED
    BY <1>1, <2>1, <2>2, OtherLines
<1>3. CASE OnAssign(n)
  <2> DEFINE run == Head(lead.sent[n]).run
             w == IF active[n] = None THEN <<Update(run, "in_progress")>>
                  ELSE IF active[n] = run THEN <<>> ELSE <<Update(run, "failed")>>
  <2>1. Say(n, w)
    BY <1>3 DEF OnAssign
  <2>2. run \in Runs
    <3>1. Head(lead.sent[n]) \in LeadMsg /\ Head(lead.sent[n]).kind = "assign"
      BY <1>1, <1>3, HeardOk DEF OnAssign, Order
    <3> QED
      BY <3>1, DownLines
  <2> HIDE DEF run
  <2>3. w \in Seq(MateMsg) /\ ToSet(w) \subseteq {Update(run, "in_progress"), Update(run, "failed")}
    <3>1. Update(run, "in_progress") \in MateMsg /\ Update(run, "failed") \in MateMsg
      BY <2>2, NoneApart DEF Update, MateMsg
    <3>2. <<>> \in Seq(MateMsg) /\ ToSet(<<>>) = {}
      BY <3>1, ShortFacts
    <3>3. <<Update(run, "in_progress")>> \in Seq(MateMsg) /\ ToSet(<<Update(run, "in_progress")>>) = {Update(run, "in_progress")}
      BY <3>1, ShortFacts
    <3>4. <<Update(run, "failed")>> \in Seq(MateMsg) /\ ToSet(<<Update(run, "failed")>>) = {Update(run, "failed")}
      BY <3>1, ShortFacts
    <3> QED
      BY <3>2, <3>3, <3>4
  <2> HIDE DEF w
  <2>4. \A r \in Requests : Acq(r) \notin ToSet(w) /\ Rel(r) \notin ToSet(w)
    BY <2>3 DEF Acq, Rel, Update
  <2>5. up'[n] = up[n] \o w /\ \A m \in Mates \ {n} : up'[m] = up[m]
    BY <2>1, <2>3, SayOk
  <2> QED
    BY <1>1, <2>3, <2>4, <2>5, OtherLines
<1> QED
  BY <1>2, <1>3

LEMMA ResultThreads ==
  ASSUME TeamInv, ThreadInv, NEW n \in Mates, OnThreadResult(n)
  PROVE  ThreadInv'
<1> DEFINE m == Head(lead.sent[n])
<1>1. /\ Alive(n) /\ m.kind = "result" /\ Heard(n) /\ lead.sent[n] # <<>> /\ UNCHANGED <<up, proc>>
      /\ pending' = [pending EXCEPT ![n] = pending[n] \ {m.req}]
      /\ granted' = IF m.ok /\ m.req \in pending[n] THEN [granted EXCEPT ![n] = granted[n] \union {m.req}] ELSE granted
  BY DEF OnThreadResult, Order
<1>2. /\ m \in LeadMsg /\ lead.sent[n] \in Seq(LeadMsg) /\ lead'.nested = lead.nested
      /\ lead'.sent[n] = Tail(lead.sent[n])
  BY <1>1, HeardOk
<1>3. m = Res(m.req, m.ok) /\ m.req \in Requests /\ m.ok \in BOOLEAN
  BY <1>1, <1>2, DownLines DEF Res
<1> DEFINE q == m.req
           ok == m.ok
<1>4. MatesTyped
  BY DEF TeamInv
<1>5. /\ pending'[n] = pending[n] \ {q}
      /\ granted'[n] = IF ok /\ q \in pending[n] THEN granted[n] \union {q} ELSE granted[n]
      /\ \A k \in Mates \ {n} : pending'[k] = pending[k] /\ granted'[k] = granted[k]
  BY <1>1, <1>4 DEF MatesTyped
<1>6. Head(lead.sent[n]) = Res(q, ok) /\ q \in Requests /\ ok \in BOOLEAN
  BY <1>3
<1> HIDE DEF m, q, ok
<1>7. ASSUME NEW r \in Requests
      PROVE  ThreadOk(r, lead'.sent[n], lead'.nested[n], up'[n], pending'[n], granted'[n])
  <2>1. ThreadOk(r, lead.sent[n], lead.nested[n], up[n], pending[n], granted[n])
    BY <1>1 DEF ThreadInv
  <2>2. CASE r = q
    <3>1. ThreadOk(q, lead.sent[n], lead.nested[n], up[n], pending[n], granted[n])
      BY <2>1, <2>2
    <3>2. ThreadOk(q, Tail(lead.sent[n]), lead.nested[n], up[n], pending[n] \ {q}, granted'[n])
      BY <1>1, <1>2, <1>5, <1>6, <3>1, ResultRead
    <3> QED
      BY <1>1, <1>2, <1>5, <2>2, <3>2
  <2>3. CASE r # q
    <3>1. /\ r \in pending'[n] <=> r \in pending[n]
          /\ r \in granted'[n] <=> r \in granted[n]
      BY <1>5, <2>3
    <3>2. FewerAnswers(r, lead.sent[n], lead'.sent[n]) /\ SameRequests(r, up[n], up'[n])
      BY <1>1, <1>2, AnswerTaken, SameAnswers
    <3> QED
      BY <1>2, <2>1, <3>1, <3>2, ThreadFrame
  <2> QED
    BY <2>2, <2>3
<1>8. Course(n)'
  BY <1>7 DEF Course
<1> QED
  BY <1>1, <1>5, <1>8, MateActs

\* A teammate gives up the requests P and gives back the threads G, and says so.
LEMMA ReleasesThreads ==
  ASSUME TeamInv, ThreadInv, NEW n \in Mates, Alive(n), lead' = lead \/ (Heard(n) /\ lead.sent[n] # <<>>),
         NEW S \in SUBSET (pending[n] \union granted[n]), Say(n, Releases(S)),
         pending'[n] = pending[n] \ S, granted'[n] = granted[n] \ S,
         \A m \in Mates \ {n} : proc'[m] = proc[m] /\ pending'[m] = pending[m] /\ granted'[m] = granted[m]
  PROVE  ThreadInv'
<1>1. pending[n] \in SUBSET Requests /\ granted[n] \in SUBSET Requests /\ up[n] \in Seq(MateMsg)
  BY DEF TeamInv, MatesTyped
<1> DEFINE w == Releases(S)
<1>2. w \in Seq(MateMsg) /\ ToSet(w) = {[kind |-> "release", req |-> r] : r \in S}
  <2>1. S \in SUBSET Requests
    BY <1>1
  <2> QED
    BY <2>1, ReleasesFacts
<1>3. \A r \in Requests : Acq(r) \notin ToSet(w) /\ (Rel(r) \in ToSet(w) <=> r \in S)
  BY <1>2 DEF Acq, Rel
<1>4. Say(n, w)
  OBVIOUS
<1> HIDE DEF w
<1>5. up'[n] = up[n] \o w /\ \A m \in Mates \ {n} : up'[m] = up[m]
  BY <1>2, <1>4, SayOk
<1>6. lead'.nested = lead.nested /\ \A r \in Requests : FewerAnswers(r, lead.sent[n], lead'.sent[n])
  <2>1. CASE lead' = lead
    BY <2>1, SameAnswers
  <2>2. CASE Heard(n) /\ lead.sent[n] # <<>>
    <3>1. lead.sent[n] \in Seq(LeadMsg) /\ lead'.sent[n] = Tail(lead.sent[n]) /\ lead'.nested = lead.nested
      BY <2>2, HeardOk
    <3> QED
      BY <2>2, <3>1, AnswerTaken
  <2> QED
    BY <2>1, <2>2
<1>7. ASSUME NEW r \in Requests
      PROVE  ThreadOk(r, lead'.sent[n], lead'.nested[n], up'[n], pending'[n], granted'[n])
  <2>1. ThreadOk(r, lead.sent[n], lead.nested[n], up[n], pending[n], granted[n])
    BY DEF ThreadInv
  <2>2. ThreadOk(r, lead'.sent[n], lead'.nested[n], up[n], pending[n], granted[n])
    BY <1>6, <2>1, SameAnswers, ThreadFrame
  <2>3. CASE r \in S
    <3>1. r \in pending[n] \/ r \in granted[n]
      BY <2>3
    <3>2. r \notin pending'[n] /\ r \notin granted'[n] /\ Rel(r) \in ToSet(w) /\ Acq(r) \notin ToSet(w)
      BY <1>3, <2>3
    <3> QED
      BY <1>1, <1>2, <1>5, <2>2, <3>1, <3>2, ReleaseSaid
  <2>4. CASE r \notin S
    <3>1. SameRequests(r, up[n], up'[n])
      BY <1>1, <1>2, <1>3, <1>5, <2>4, OtherLinesCome
    <3>2. (r \in pending'[n] <=> r \in pending[n]) /\ (r \in granted'[n] <=> r \in granted[n])
      BY <2>4
    <3> QED
      BY <2>2, <3>1, <3>2, SameAnswers, ThreadFrame
  <2> QED
    BY <2>3, <2>4
<1>8. Course(n)'
  BY <1>7 DEF Course
<1> QED
  BY <1>5, <1>8, MateActs

LEMMA FinishThreads ==
  ASSUME TeamInv, ThreadInv, NEW n \in Mates, Finish(n)
  PROVE  ThreadInv'
<1>1. Alive(n) /\ UNCHANGED <<lead, proc, pending, granted>>
  BY DEF Finish
<1> DEFINE idle == [kind |-> "idle", run |-> active[n]]
<1>2. PICK st \in Terminal, v \in {<<>>, <<idle>>} :
        /\ v \in Seq(MateMsg) /\ Update(active[n], st) \in MateMsg /\ active[n] \in Runs
        /\ up'[n] = up[n] \o (<<Update(active[n], st)>> \o v)
  BY FinishTyped
<1>3. \A m \in Mates \ {n} : up'[m] = up[m]
  BY FinishTyped
<1> DEFINE u == <<Update(active[n], st)>>
<1>4. u \in Seq(MateMsg) /\ ToSet(u) = {Update(active[n], st)}
  BY <1>2, ShortFacts
<1>5. ToSet(v) \subseteq {idle}
  <2>1. idle \in MateMsg
    BY <1>2 DEF MateMsg
  <2> HIDE DEF idle
  <2>2. ToSet(<<idle>>) = {idle}
    BY <2>1, ShortFacts
  <2>3. ToSet(<<>>) = {}
    BY <2>1, ShortFacts
  <2>4. v = <<>> \/ v = <<idle>>
    OBVIOUS
  <2> QED
    BY <2>2, <2>3, <2>4
<1> DEFINE w == u \o v
<1>6. w \in Seq(MateMsg) /\ ToSet(w) = ToSet(u) \union ToSet(v) /\ up'[n] = up[n] \o w
  BY <1>2, <1>4, ConcatFacts
<1> HIDE DEF w, u
<1>7. \A r \in Requests : Acq(r) \notin ToSet(w) /\ Rel(r) \notin ToSet(w)
  BY <1>4, <1>5, <1>6 DEF Acq, Rel, Update
<1> QED
  BY <1>1, <1>3, <1>6, <1>7, OtherLines

LEMMA AcquireNew ==
  ASSUME TeamInv, ThreadInv, NEW n \in Mates, NEW q \in Requests, Acquire(n, q)
  PROVE  ThreadInv'
<1>1. /\ Alive(n) /\ Say(n, <<Acq(q)>>) /\ UNCHANGED <<lead, proc, granted>> /\ Fresh(q)
      /\ pending' = [pending EXCEPT ![n] = pending[n] \union {q}]
  BY DEF Acquire, Alive, Acq
<1>2. <<Acq(q)>> \in Seq(MateMsg) /\ ToSet(<<Acq(q)>>) = {Acq(q)} /\ Acq(q) \in MateMsg
  <2>1. Acq(q) \in MateMsg
    BY DEF Acq, MateMsg
  <2> QED
    BY <2>1, ShortFacts
<1>3. up'[n] = up[n] \o <<Acq(q)>> /\ \A m \in Mates \ {n} : up'[m] = up[m]
  BY <1>1, <1>2, SayOk
<1>4. pending'[n] = pending[n] \union {q} /\ \A m \in Mates \ {n} : pending'[m] = pending[m]
  BY <1>1 DEF TeamInv, MatesTyped
<1>5. up[n] \in Seq(MateMsg)
  BY DEF TeamInv, MatesTyped
<1>6. ASSUME NEW r \in Requests
      PROVE  ThreadOk(r, lead'.sent[n], lead'.nested[n], up'[n], pending'[n], granted'[n])
  <2>1. ThreadOk(r, lead.sent[n], lead.nested[n], up[n], pending[n], granted[n])
    BY <1>1 DEF ThreadInv
  <2>2. CASE r = q
    <3>1. /\ q \notin lead.nested[n] /\ q \notin granted[n]
          /\ \A m \in ToSet(up[n]) \union ToSet(lead.sent[n]) : "req" \in DOMAIN m => m.req # q
      BY <1>1 DEF Fresh
    <3>2. /\ "req" \in DOMAIN Acq(q) /\ Acq(q).req = q /\ "req" \in DOMAIN Rel(q) /\ Rel(q).req = q
          /\ \A ok \in BOOLEAN : "req" \in DOMAIN Res(q, ok) /\ Res(q, ok).req = q
      BY DEF Acq, Rel, Res
    <3>3. /\ Acq(q) \notin ToSet(up[n]) /\ Rel(q) \notin ToSet(up[n])
          /\ \A ok \in BOOLEAN : Res(q, ok) \notin ToSet(lead.sent[n])
      BY <3>1, <3>2
    <3>4. ThreadOk(q, lead.sent[n], lead.nested[n], up[n], pending[n], granted[n])
      BY <2>1, <2>2
    <3>5. ThreadOk(q, lead.sent[n], lead.nested[n], up[n] \o <<Acq(q)>>, pending[n] \union {q}, granted[n])
      BY <1>2, <1>5, <3>1, <3>3, <3>4, AcquireSaid
    <3> QED
      BY <1>1, <1>3, <1>4, <2>2, <3>5
  <2>3. CASE r # q
    <3>1. Acq(r) \notin ToSet(<<Acq(q)>>) /\ Rel(r) \notin ToSet(<<Acq(q)>>)
      BY <1>2, <2>3 DEF Acq, Rel
    <3>2. SameRequests(r, up[n], up'[n])
      BY <1>2, <1>3, <1>5, <3>1, OtherLinesCome
    <3>3. r \in pending'[n] <=> r \in pending[n]
      BY <1>4, <2>3
    <3> QED
      BY <1>1, <2>1, <3>2, <3>3, SameAnswers, ThreadFrame
  <2> QED
    BY <2>2, <2>3
<1>7. Course(n)'
  BY <1>6 DEF Course
<1> QED
  BY <1>1, <1>3, <1>4, <1>7, MateActs

\* Between requests that wait and threads in use there is no overlap.
LEMMA Apart ==
  ASSUME ThreadInv, NEW n \in Mates, Alive(n), NEW r \in Requests
  PROVE  r \notin pending[n] \/ r \notin granted[n]
  BY DEF ThreadInv, ThreadOk

LEMMA GivesUpThreads ==
  ASSUME TeamInv, ThreadInv, NEW n \in Mates, NEW q \in Requests, AcquireTimesOut(n, q) \/ ReleaseThread(n, q)
  PROVE  ThreadInv'
<1>1. MatesTyped /\ (q \notin pending[n] \/ q \notin granted[n])
  BY Apart DEF AcquireTimesOut, ReleaseThread, TeamInv
<1>2. CASE AcquireTimesOut(n, q)
  <2>1. /\ Alive(n) /\ q \in pending[n] /\ Say(n, Releases({q})) /\ UNCHANGED <<lead, proc, granted>>
        /\ pending' = [pending EXCEPT ![n] = pending[n] \ {q}]
    BY <1>2 DEF AcquireTimesOut
  <2>2. pending'[n] = pending[n] \ {q} /\ granted'[n] = granted[n] \ {q}
        /\ \A m \in Mates \ {n} : pending'[m] = pending[m]
    BY <1>1, <2>1 DEF MatesTyped
  <2>3. {q} \in SUBSET (pending[n] \union granted[n])
    BY <2>1
  <2> QED
    BY <2>1, <2>2, <2>3, ReleasesThreads
<1>3. CASE ReleaseThread(n, q)
  <2>1. /\ Alive(n) /\ q \in granted[n] /\ Say(n, Releases({q})) /\ UNCHANGED <<lead, proc, pending>>
        /\ granted' = [granted EXCEPT ![n] = granted[n] \ {q}]
    BY <1>3 DEF ReleaseThread
  <2>2. pending'[n] = pending[n] \ {q} /\ granted'[n] = granted[n] \ {q}
        /\ \A m \in Mates \ {n} : granted'[m] = granted[m]
    BY <1>1, <2>1 DEF MatesTyped
  <2>3. {q} \in SUBSET (pending[n] \union granted[n])
    BY <2>1
  <2> QED
    BY <2>1, <2>2, <2>3, ReleasesThreads
<1> QED
  BY <1>2, <1>3

LEMMA ShutdownThreads ==
  ASSUME TeamInv, ThreadInv, NEW n \in Mates, OnShutdown(n)
  PROVE  ThreadInv'
<1>1. /\ Alive(n) /\ Heard(n) /\ lead.sent[n] # <<>> /\ Say(n, Releases(pending[n])) /\ UNCHANGED granted
      /\ pending' = [pending EXCEPT ![n] = {}] /\ proc' = [proc EXCEPT ![n] = "closing"]
  BY DEF OnShutdown, Order, Alive
<1>2. MatesTyped /\ \A r \in Requests : r \notin pending[n] \/ r \notin granted[n]
  BY <1>1, Apart DEF TeamInv
<1>3. /\ pending'[n] = pending[n] \ pending[n] /\ granted'[n] = granted[n] \ pending[n]
      /\ \A m \in Mates \ {n} : proc'[m] = proc[m] /\ pending'[m] = pending[m]
  <2>1. granted[n] \in SUBSET Requests
    BY <1>2 DEF MatesTyped
  <2>2. granted[n] = granted[n] \ pending[n]
    BY <1>2, <2>1
  <2> QED
    BY <1>1, <1>2, <2>2 DEF MatesTyped
<1>4. pending[n] \in SUBSET (pending[n] \union granted[n])
  OBVIOUS
<1> QED
  BY <1>1, <1>3, <1>4, ReleasesThreads

LEMMA ExitThreads ==
  ASSUME TeamInv, ThreadInv, NEW n \in Mates, Exit(n)
  PROVE  ThreadInv'
<1>1. /\ Alive(n) /\ ~Alive(n)' /\ UNCHANGED <<lead, pending, granted>>
      /\ \A m \in Mates \ {n} : proc'[m] = proc[m]
  BY DEF Exit, Alive, TeamInv, MatesTyped
<1>2. \A m \in Mates \ {n} : up'[m] = up[m]
  BY ExitTyped
<1> QED
  BY <1>1, <1>2, MateActs

-----------------------------------------------------------------------------
LEMMA NextThreads ==
  ASSUME TeamInv, ThreadInv, [Next]_vars
  PROVE  ThreadInv'
<1>1. CASE UNCHANGED vars
  <2>1. UNCHANGED <<lead, up, proc, active, pending, granted>>
    BY <1>1 DEF vars, procVars
  <2>2. Used(lead') = Used(lead) /\ \A n \in Mates : Alive(n)' = Alive(n)
    BY <2>1 DEF Alive
  <2> QED
    BY <2>1, <2>2 DEF ThreadInv
<1>2. CASE CreateTeam \/ Shutdown \/ ShutdownDone \/ ShutdownFails
  <2>1. Quiet /\ UNCHANGED procVars
    BY <1>2, CreateTeamTyped, ShutdownTyped, ShutdownEndTyped DEF CreateTeam, Shutdown, ShutdownDone, ShutdownFails
  <2> QED
    BY <2>1, QuietThreads
<1>3. CASE \/ \E t \in Tasks : CreateTask(t) \/ StopTask(t)
           \/ \E t \in Tasks, st \in LeadStatuses \union {None} :
                \E deps \in NewDeps[t] \union {lead.deps[t]} : UpdateTask(t, st, deps)
           \/ \E w \in Workspaces : SwitchWorkspace(w)
  <2>1. Quiet /\ UNCHANGED procVars
    BY <1>3, CreateTaskTyped, StopTaskTyped, UpdateTaskTyped, SwitchWorkspaceTyped
       DEF CreateTask, StopTask, UpdateTask, SwitchWorkspace
  <2> QED
    BY <2>1, QuietThreads
<1>4. ASSUME NEW n \in Mates,
             AddTeammate(n) \/ Kill(n) \/ LeadReads(n) \/ OnExit(n) \/ MateReads(n) \/ Finish(n) \/ Exit(n) \/ Crash(n)
      PROVE  ThreadInv'
  <2>1. CASE AddTeammate(n) \/ Kill(n) \/ OnExit(n) \/ Crash(n)
    BY <2>1, ProcessThreads
  <2>2. CASE LeadReads(n)
    BY <2>2, LeadReadsThreads
  <2>3. CASE MateReads(n)
    BY <2>3, AssignThreads, ResultThreads, ShutdownThreads DEF MateReads
  <2>4. CASE Finish(n) \/ Exit(n)
    BY <2>4, FinishThreads, ExitThreads
  <2> QED
    BY <1>4, <2>1, <2>2, <2>3, <2>4
<1>5. CASE \E n \in Mates, r \in Requests : Acquire(n, r) \/ AcquireTimesOut(n, r) \/ ReleaseThread(n, r)
  BY <1>5, AcquireNew, GivesUpThreads
<1> QED
  BY <1>1, <1>2, <1>3, <1>4, <1>5 DEF Next

\* Every request for a nested thread takes its course, and the lead never counts more threads
\* than its limit.
THEOREM ThreadInvariant == Spec => [](TeamInv /\ ThreadInv)
<1>1. Init => ThreadInv
  <2> SUFFICES ASSUME Init PROVE ThreadInv
    OBVIOUS
  <2>1. \A n \in Mates : ~lead.lease[n] /\ lead.nested[n] = {} /\ ~Alive(n)
    BY DEF Init, LeadInit, Alive
  <2>2. Leases(lead) = {} /\ Threads(lead) = {}
    BY <2>1 DEF Leases, Threads
  <2>3. Used(lead) = 0
    BY <2>2, UsedFacts, FS_EmptySet
  <2> QED
    BY <2>1, <2>3, Finiteness DEF ThreadInv
<1>2. ThreadInv /\ TeamInv /\ [Next]_vars => ThreadInv'
  BY NextThreads
<1> QED
  BY <1>1, <1>2, TeamInvariant, PTL DEF Spec

\* Processes that really run, and nested threads they really use, stay within the session's
\* limit: what a living teammate holds is among what the lead counts.
THEOREM ThreadLimit == Spec => []LimitHolds
<1>1. TeamInv /\ ThreadInv => LimitHolds
  <2> SUFFICES ASSUME TeamInv, ThreadInv PROVE LimitHolds
    OBVIOUS
  <2> DEFINE live == {n \in Mates : Alive(n)}
             used == {p \in live \X Requests : p[2] \in granted[p[1]]}
  <2>1. live \in SUBSET Leases(lead)
    BY AliveFacts DEF Leases
  <2>2. used \in SUBSET Threads(lead)
    <3>1. \A n \in live, r \in Requests : r \in granted[n] => r \in lead.nested[n]
      BY DEF ThreadInv, ThreadOk
    <3> QED
      BY <3>1 DEF Threads
  <2>3. LimitHolds <=> Cardinality(live) + Cardinality(used) <= MaxChildren
    BY DEF LimitHolds
  <2> HIDE DEF live, used
  <2>4. /\ IsFiniteSet(live) /\ Cardinality(live) <= Cardinality(Leases(lead))
        /\ IsFiniteSet(used) /\ Cardinality(used) <= Cardinality(Threads(lead))
    BY <2>1, <2>2, UsedFacts, FS_Subset
  <2>5. Cardinality(live) \in Nat /\ Cardinality(used) \in Nat
    BY <2>4, FS_CardinalityType
  <2>6. /\ Cardinality(Leases(lead)) \in Nat /\ Cardinality(Threads(lead)) \in Nat
        /\ Used(lead) = Cardinality(Leases(lead)) + Cardinality(Threads(lead))
        /\ Used(lead) <= MaxChildren /\ MaxChildren \in Nat
    BY UsedFacts, Finiteness DEF ThreadInv
  <2> QED
    BY <2>3, <2>4, <2>5, <2>6
<1> QED
  BY <1>1, ThreadInvariant, PTL

\* No nested thread stays counted that nobody has, wants or is giving back.
THEOREM NoThreadLeaks == Spec => []NoLeakedLease
<1>1. TeamInv /\ ThreadInv => NoLeakedLease
  <2> SUFFICES ASSUME TeamInv, ThreadInv, NEW n \in Mates, NEW r \in lead.nested[n], proc[n] # "exited"
               PROVE  r \in pending[n] \union granted[n] \/ [kind |-> "release", req |-> r] \in ToSet(up[n])
    BY DEF NoLeakedLease
  <2>1. lead.lease[n] /\ r \in Requests
    BY LeadFields DEF TeamInv, LeadOk, Forgotten
  <2>2. Alive(n)
    BY <2>1 DEF TeamInv, MatesTyped, MateOk, Alive
  <2>3. ThreadOk(r, lead.sent[n], lead.nested[n], up[n], pending[n], granted[n])
    BY <2>1, <2>2 DEF ThreadInv
  <2> QED
    BY <2>3 DEF ThreadOk, Rel
<1> QED
  BY <1>1, ThreadInvariant, PTL
=============================================================================
