--------------------------- MODULE TeamRunProofs ---------------------------
(***************************************************************************)
(* Theorems about the tasks of a Team: who executes which attempt, what is *)
(* recorded of it, and what becomes of a request to stop it.               *)
(***************************************************************************)
EXTENDS TeamProofs

-----------------------------------------------------------------------------
(* The invariant. *)

Asg(run) == [kind |-> "assign", run |-> run]

\* What may be sent to a process after the order to shut down: answers, and the cancellation of
\* a task that the lead put in progress itself, without a run.
IsLate(s, m) == m.kind = "result" \/ (m.kind = "cancel" /\ m.run.task \in s.byHand)

\* An attempt at the task is recorded as running.
Busy(s, t) == s.record[t] = "running"

\* The lead takes run to be in progress at teammate n.
IsIn(s, n, run) ==
  s.task[run.task].owner = n /\ Busy(s, run.task) /\ s.task[run.task].try = run.try

\* What is kept of a task agrees: an attempt recorded as running is the latest, of a task in
\* progress; a cancellation was requested exactly if a state is asked for; and in either case
\* the teammate has a process.
Tracked(s, t) ==
  /\ s.task[t].cancel <=> s.requested[t] # None
  /\ s.running[t] = IF Busy(s, t) THEN s.task[t].try ELSE 0
  /\ Busy(s, t) => s.task[t].status = "in_progress" /\ s.task[t].try > 0
  /\ Busy(s, t) \/ s.task[t].cancel => s.task[t].owner \in Mates /\ s.lease[s.task[t].owner]
  /\ s.task[t].status = "in_progress" => Busy(s, t) \/ t \in s.byHand

\* No teammate has two runs, and one that is to be given work has none.
Single(s) == \A t, u \in Tasks : Busy(s, t) /\ Busy(s, u) /\ s.task[t].owner = s.task[u].owner => t = u
Spare(s, n) == s.status[n] \in {"idle", "spawning"} => \A t \in Tasks : ~(Busy(s, t) /\ s.task[t].owner = n)

\* Lines w on the way to n: after the order to shut down only late ones follow; at most
\* one assignment, of a run in progress there.
Orders(s, n, w) ==
  /\ \A y : Before(w, Stop, y) => IsLate(s, y)
  /\ \A run \in Runs : Asg(run) \in ToSet(w) => IsIn(s, n, run)
  /\ \A p, q \in Runs : ~Before(w, Asg(p), Asg(q))

Steady(s) ==
  /\ \A t \in Tasks : Tracked(s, t)
  /\ Single(s) /\ \A n \in Mates : Spare(s, n) /\ Orders(s, n, s.sent[n])

\* Once the team closes, every run is asked to stop; before, no process is told to.
Closing(s) ==
  /\ s.stopping => s.closing
  /\ s.closing => \A t \in Tasks : Busy(s, t) => s.task[t].cancel
  /\ \A n \in Mates : Stop \in ToSet(s.sent[n]) => s.closing

\* The lines u of n tell of the end of one run at most, which is still taken to be in progress.
Ends(s, n, u, act) ==
  /\ \A run \in Runs, st \in Terminal :
       Update(run, st) \in ToSet(u) => IsIn(s, n, run) /\ act # run /\ Asg(run) \notin ToSet(s.sent[n])
  /\ \A p, q \in Runs, st, x \in Terminal : ~Before(u, Update(p, st), Update(q, x))

\* The process of n, with its lines u and its run act.
MateRuns(s, n, p, u, act) ==
  /\ p = "closing" => s.closing /\ \A m \in ToSet(s.sent[n]) : IsLate(s, m)
  /\ p \in {"live", "closing"} /\ s.closing => s.stopping
  /\ act # None => IsIn(s, n, act) /\ \A run \in Runs : Asg(run) \notin ToSet(s.sent[n])
  /\ Ends(s, n, u, act)

RunInv ==
  /\ Steady(lead) /\ Closing(lead)
  /\ \A n \in Mates : MateRuns(lead, n, proc[n], up[n], active[n])

-----------------------------------------------------------------------------
(* Lines to a teammate. *)

\* The lines v may follow the lines w.
MayFollow(s, n, w, v) ==
  /\ \A run \in Runs : Asg(run) \in ToSet(v) =>
       IsIn(s, n, run) /\ \A p \in Runs : Asg(p) \notin ToSet(w) /\ ~Before(v, Asg(p), Asg(run))
  /\ Stop \in ToSet(w) => \A m \in ToSet(v) : IsLate(s, m)
  /\ \A y : ~Before(v, Stop, y)

LEMMA OrdersCome ==
  ASSUME NEW s, NEW z, NEW n, NEW w \in Seq(LeadMsg), NEW v \in Seq(LeadMsg), Orders(s, n, w),
         \A run \in Runs : IsIn(s, n, run) => IsIn(z, n, run), MayFollow(z, n, w, v),
         Stop \in ToSet(w) => s.byHand \subseteq z.byHand
  PROVE  Orders(z, n, w \o v)
<1>1. /\ ToSet(w \o v) = ToSet(w) \union ToSet(v)
      /\ \A x, y : Before(w \o v, x, y) <=> Before(w, x, y) \/ Before(v, x, y) \/ (x \in ToSet(w) /\ y \in ToSet(v))
  BY ConcatFacts
<1>2. \A x, y : Before(v, x, y) => x \in ToSet(v) /\ y \in ToSet(v)
  BY DEF Before, ToSet
<1>3. \A y : Before(w \o v, Stop, y) => IsLate(z, y)
  <2>1. \A y : Before(w, Stop, y) => Stop \in ToSet(w)
    BY DEF Before, ToSet
  <2> QED
    BY <1>1, <2>1 DEF Orders, MayFollow, IsLate
<1>4. \A run \in Runs : Asg(run) \in ToSet(w \o v) => IsIn(z, n, run)
  BY <1>1 DEF Orders, MayFollow
<1>5. \A p, q \in Runs : ~Before(w \o v, Asg(p), Asg(q))
  BY <1>1, <1>2 DEF Orders, MayFollow
<1> QED
  BY <1>3, <1>4, <1>5 DEF Orders

LEMMA OrdersStay ==
  ASSUME NEW s, NEW z, NEW n, NEW w, Orders(s, n, w), \A run \in Runs : IsIn(s, n, run) => IsIn(z, n, run),
         Stop \in ToSet(w) => s.byHand \subseteq z.byHand
  PROVE  Orders(z, n, w)
<1>1. \A y : Before(w, Stop, y) => Stop \in ToSet(w)
  BY DEF Before, ToSet
<1> QED
  BY <1>1 DEF Orders, IsLate

LEMMA OrderTaken ==
  ASSUME NEW s, NEW n, NEW w \in Seq(LeadMsg), w # <<>>, Orders(s, n, w)
  PROVE  /\ Orders(s, n, Tail(w)) /\ ToSet(w) = {Head(w)} \union ToSet(Tail(w)) /\ Tail(w) \in Seq(LeadMsg)
         /\ \A run \in Runs : Head(w) = Asg(run) => IsIn(s, n, run) /\ \A q \in Runs : Asg(q) \notin ToSet(Tail(w))
         /\ Head(w) = Stop => \A m \in ToSet(Tail(w)) : IsLate(s, m)
<1>1. /\ ToSet(w) = {Head(w)} \union ToSet(Tail(w)) /\ Tail(w) \in Seq(LeadMsg)
      /\ \A x, y : Before(w, x, y) <=> Before(Tail(w), x, y) \/ (x = Head(w) /\ y \in ToSet(Tail(w)))
  BY TailFacts
<1> QED
  BY <1>1 DEF Orders

\* One line that is no assignment, or one that is.
LEMMA OneMayFollow ==
  ASSUME NEW s, NEW n, NEW w, NEW m \in LeadMsg, Stop \in ToSet(w) => IsLate(s, m),
         \/ m.kind # "assign"
         \/ \E run \in Runs : m = Asg(run) /\ IsIn(s, n, run) /\ \A p \in Runs : Asg(p) \notin ToSet(w)
  PROVE  <<m>> \in Seq(LeadMsg) /\ ToSet(<<m>>) = {m} /\ MayFollow(s, n, w, <<m>>)
<1>1. <<m>> \in Seq(LeadMsg) /\ ToSet(<<m>>) = {m} /\ \A x, y : ~Before(<<m>>, x, y)
  BY ShortFacts
<1>2. \A run : Asg(run).kind = "assign" /\ Asg(run).run = run
  BY DEF Asg
<1>3. \A run \in Runs : Asg(run) = m => IsIn(s, n, run) /\ \A p \in Runs : Asg(p) \notin ToSet(w)
  BY <1>2
<1> QED
  BY <1>1, <1>3 DEF MayFollow

-----------------------------------------------------------------------------
(* What the processes need of a step of the lead. *)

\* Runs in progress stay so, and only a teammate without a run is given one.
Carries(s, z, n) ==
  /\ \A run \in Runs : IsIn(s, n, run) => IsIn(z, n, run)
  /\ \A run \in Runs : Asg(run) \in ToSet(z.sent[n]) =>
       Asg(run) \in ToSet(s.sent[n]) \/ \A q \in Runs : ~IsIn(s, n, q)

\* A team that closes stays so, and then its processes are sent late lines alone, and no task
\* is handed out that the lead put in progress itself.
Closes(s, z) ==
  /\ s.closing => z.closing
  /\ z.closing => z.stopping \/ (s.closing /\ ~s.stopping)
  /\ s.closing => \A n \in Mates : \A m \in ToSet(z.sent[n]) : m \in ToSet(s.sent[n]) \/ IsLate(z, m)
  /\ s.closing => s.byHand \subseteq z.byHand

LEMMA TriesTyped ==
  ASSUME NEW s \in Lead, NEW t \in Tasks
  PROVE  s.task[t].try \in Nat /\ s.task[t] \in Task
<1>1. s.task[t] \in Task
  BY LeadFields
<1>2. s.task[t].try \in 0 .. MaxTries
  BY <1>1 DEF Task
<1> QED
  BY <1>1, <1>2, Finiteness

LEMMA RunFacts ==
  ASSUME NEW run \in Runs
  PROVE  run.task \in Tasks /\ run.try \in Nat /\ run = Run(run.task, run.try)
<1>1. run.task \in Tasks /\ run.try \in 0 .. MaxTries /\ run = [task |-> run.task, try |-> run.try]
  BY DEF Runs
<1> QED
  BY <1>1, Finiteness DEF Run

\* A teammate has one run at most.
LEMMA OneRun ==
  ASSUME NEW s, Steady(s), NEW n, NEW p \in Runs, NEW q \in Runs, IsIn(s, n, p), IsIn(s, n, q)
  PROVE  p = q
<1>1. /\ p.task \in Tasks /\ Busy(s, p.task) /\ s.task[p.task].owner = n /\ p = Run(p.task, p.try)
      /\ q.task \in Tasks /\ Busy(s, q.task) /\ s.task[q.task].owner = n /\ q = Run(q.task, q.try)
  BY RunFacts DEF IsIn
<1>2. p.task = q.task
  BY <1>1 DEF Steady, Single
<1>3. p.try = q.try
  BY <1>2 DEF IsIn
<1> QED
  BY <1>1, <1>2, <1>3

\* The lines v tell nothing of a run that the lines u do not.
NoNews(u, v) ==
  /\ \A p, st : Update(p, st) \in ToSet(v) => Update(p, st) \in ToSet(u)
  /\ \A p, q, st, x : Before(v, Update(p, st), Update(q, x)) => Before(u, Update(p, st), Update(q, x))

LEMMA MateFollows ==
  ASSUME NEW n \in Mates, NEW s, NEW z, NEW p, NEW u, NEW w, NEW act \in Runs \union {None},
         MateRuns(s, n, p, u, act), Carries(s, z, n), Closes(s, z), NoNews(u, w)
  PROVE  MateRuns(z, n, p, w, act)
<1>1. p = "closing" => z.closing /\ \A m \in ToSet(z.sent[n]) : IsLate(z, m)
  BY DEF MateRuns, Closes, IsLate
<1>2. p \in {"live", "closing"} /\ z.closing => z.stopping
  BY DEF MateRuns, Closes
<1>3. act # None => IsIn(z, n, act) /\ \A run \in Runs : Asg(run) \notin ToSet(z.sent[n])
  BY DEF MateRuns, Carries
<1>4. ASSUME NEW run \in Runs, NEW st \in Terminal, Update(run, st) \in ToSet(w)
      PROVE  IsIn(z, n, run) /\ act # run /\ Asg(run) \notin ToSet(z.sent[n])
  <2>1. IsIn(s, n, run) /\ act # run /\ Asg(run) \notin ToSet(s.sent[n])
    BY <1>4 DEF MateRuns, Ends, NoNews
  <2> QED
    BY <2>1 DEF Carries
<1>5. Ends(z, n, w, act)
  BY <1>4 DEF MateRuns, Ends, NoNews
<1> QED
  BY <1>1, <1>2, <1>3, <1>5 DEF MateRuns

LEMMA CarriesOn ==
  ASSUME NEW s, NEW y, NEW z, NEW n \in Mates, Carries(s, y, n), Carries(y, z, n)
  PROVE  Carries(s, z, n)
<1>1. ASSUME NEW run \in Runs, Asg(run) \in ToSet(z.sent[n]), Asg(run) \notin ToSet(s.sent[n])
      PROVE  \A q \in Runs : ~IsIn(s, n, q)
  <2>1. CASE Asg(run) \in ToSet(y.sent[n])
    BY <1>1, <2>1 DEF Carries
  <2>2. CASE Asg(run) \notin ToSet(y.sent[n])
    BY <1>1, <2>2 DEF Carries
  <2> QED
    BY <2>1, <2>2
<1> QED
  BY <1>1 DEF Carries

-----------------------------------------------------------------------------
(* Steps of the lead. *)

\* A request to stop a task is not dropped.
Keeps(s, z) == \A t \in Tasks : s.task[t].cancel => z.task[t].cancel

\* All that the rest of the system needs of a step of the lead.
Advance(s, z) ==
  Steady(z) /\ Closing(z) /\ Closes(s, z) /\ Keeps(s, z) /\ \A n \in Mates : Carries(s, z, n)

LEMMA ClosesOn ==
  ASSUME NEW s, NEW y, NEW z, Closes(s, y), Closes(y, z), z.closing = y.closing, z.stopping = y.stopping
  PROVE  Closes(s, z)
  BY DEF Closes, IsLate

LEMMA AdvanceOn ==
  ASSUME NEW s, NEW y, NEW z, Advance(s, y), Advance(y, z),
         z.closing = y.closing, z.stopping = y.stopping
  PROVE  Advance(s, z)
<1>1. Closes(s, z)
  BY ClosesOn DEF Advance
<1>2. Keeps(s, z)
  BY DEF Advance, Keeps
<1>3. \A n \in Mates : Carries(s, z, n)
  BY CarriesOn DEF Advance
<1> QED
  BY <1>1, <1>2, <1>3 DEF Advance

\* Runs and what is kept of them are as before.
SameWork(s, z) ==
  /\ z.requested = s.requested /\ z.record = s.record /\ z.running = s.running /\ s.byHand \subseteq z.byHand
  /\ \A n \in Mates : s.lease[n] => z.lease[n]
  /\ \A t \in Tasks :
       /\ z.task[t].try = s.task[t].try /\ z.task[t].cancel = s.task[t].cancel
       /\ Busy(s, t) \/ s.task[t].cancel => z.task[t].owner = s.task[t].owner /\ z.task[t].status = s.task[t].status
       /\ z.task[t].status = "in_progress" => s.task[t].status = "in_progress" \/ t \in z.byHand

LEMMA SameWorkRuns ==
  ASSUME NEW s, NEW z, Steady(s), SameWork(s, z),
         \A n \in Mates : Spare(z, n) /\ Orders(s, n, z.sent[n]),
         \A n \in Mates, run \in Runs : Asg(run) \in ToSet(z.sent[n]) => Asg(run) \in ToSet(s.sent[n])
  PROVE  Steady(z) /\ Keeps(s, z) /\ \A n \in Mates : Carries(s, z, n)
<1>0. \A t : Busy(z, t) <=> Busy(s, t)
  BY DEF SameWork, Busy
<1>1. ASSUME NEW t \in Tasks PROVE Tracked(z, t)
  <2>1. Tracked(s, t)
    BY DEF Steady
  <2> QED
    BY <1>0, <2>1 DEF Tracked, SameWork
<1>2. Single(z)
  BY <1>0 DEF Steady, Single, SameWork
<1>3. ASSUME NEW n \in Mates, NEW run \in Runs, IsIn(s, n, run) PROVE IsIn(z, n, run)
  <2>1. run.task \in Tasks
    BY RunFacts
  <2> QED
    BY <1>0, <1>3, <2>1 DEF IsIn, SameWork
<1>4. \A n \in Mates : Orders(z, n, z.sent[n])
  BY <1>3, OrdersStay DEF SameWork
<1>5. \A n \in Mates : Carries(s, z, n)
  BY <1>3 DEF Carries
<1> QED
  BY <1>1, <1>2, <1>4, <1>5 DEF Steady, Keeps, SameWork

\* The team does not start to close, nor stop closing.
LEMMA SameWorkAdvances ==
  ASSUME NEW s, NEW z, Steady(s), Closing(s), SameWork(s, z),
         z.closing = s.closing, z.stopping = s.stopping, \A n \in Mates : Spare(z, n) /\ Orders(s, n, z.sent[n]),
         \A n \in Mates : \A m \in ToSet(z.sent[n]) : m \in ToSet(s.sent[n]) \/ m.kind = "result"
  PROVE  Advance(s, z)
<1>0. \A run : Asg(run).kind = "assign"
  BY DEF Asg
<1>1. Steady(z) /\ Keeps(s, z) /\ \A n \in Mates : Carries(s, z, n)
  BY <1>0, SameWorkRuns
<1>2. Closing(z)
  <2>1. Stop.kind # "result"
    BY DEF Stop
  <2> QED
    BY <2>1 DEF Closing, SameWork, Busy
<1>3. Closes(s, z)
  BY DEF Closes, IsLate, SameWork
<1> QED
  BY <1>1, <1>2, <1>3 DEF Advance

\* Work is handed out.
LEMMA GivesTask ==
  ASSUME NEW s \in Lead, NEW z, NEW t \in Tasks, NEW n \in Mates, Gives(s, z, t, n)
  PROVE  /\ z.task[t].status = "in_progress" /\ z.task[t].owner = n /\ z.task[t].try > 0
         /\ z.task[t].cancel = s.task[t].cancel /\ z.running[t] = z.task[t].try /\ z.record[t] = "running" /\ z.status[n] = "working"
<1>1. s.task[t] \in Task /\ s.task[t].try \in Nat /\ s.task[t].try < MaxTries
  BY TriesTyped DEF Gives
<1>2. s.task[t].try + 1 > 0
  BY <1>1
<1>3. z.task[t] = [s.task[t] EXCEPT !.status = "in_progress", !.owner = n, !.try = s.task[t].try + 1]
  BY DEF Gives
<1>4. /\ z.task[t].status = "in_progress" /\ z.task[t].owner = n /\ z.task[t].try = s.task[t].try + 1
      /\ z.task[t].cancel = s.task[t].cancel
  BY <1>1, <1>3 DEF Task
<1>5. z.running[t] = s.task[t].try + 1 /\ z.record[t] = "running" /\ z.status[n] = "working"
  BY DEF Gives, Run
<1> QED
  BY <1>2, <1>4, <1>5

GivenRun(s, z, t, n, run) ==
  /\ run \in Runs /\ run.task = t /\ Asg(run) \in LeadMsg /\ IsIn(z, n, run)
  /\ z.sent[n] = Append(s.sent[n], Asg(run)) /\ z.last[n] = run

LEMMA GivesRun ==
  ASSUME NEW s \in Lead, NEW z, NEW t \in Tasks, NEW n \in Mates, Gives(s, z, t, n)
  PROVE  \E run : GivenRun(s, z, t, n, run)
<1> DEFINE run == Run(t, s.task[t].try + 1)
<1>1. s.task[t] \in Task /\ s.task[t].try \in Nat /\ s.task[t].try < MaxTries
  BY TriesTyped DEF Gives
<1>2. s.task[t].try + 1 \in 0 .. MaxTries
  BY <1>1, Finiteness
<1>3. run \in Runs /\ run.task = t /\ run.try = s.task[t].try + 1
  BY <1>2 DEF Run, Runs
<1>4. Asg(run) \in LeadMsg
  BY <1>3 DEF Asg, LeadMsg
<1>5. z.task[t] = [s.task[t] EXCEPT !.status = "in_progress", !.owner = n, !.try = s.task[t].try + 1]
  BY DEF Gives
<1>6. z.task[t].owner = n /\ z.task[t].try = s.task[t].try + 1 /\ Busy(z, t)
  BY <1>1, <1>5 DEF Task, Gives, Busy
<1>7. z.last[n] = run /\ z.sent[n] = Append(s.sent[n], Asg(run))
  BY DEF Gives, Asg
<1> HIDE DEF run
<1>8. IsIn(z, n, run)
  BY <1>3, <1>6 DEF IsIn
<1>9. GivenRun(s, z, t, n, run)
  BY <1>3, <1>4, <1>7, <1>8 DEF GivenRun
<1> QED
  BY <1>9

LEMMA TryAssignRuns ==
  ASSUME NEW s, LeadOk(s), Steady(s), Closing(s), NEW z, z = TryAssign(s)
  PROVE  z \in Lead /\ SameTeam(s, z) /\ Advance(s, z)
<1>1. s \in Lead /\ TasksOk(s)
  BY DEF LeadOk
<1>2. /\ z \in Lead /\ SameTeam(s, z) /\ z.requested = s.requested
      /\ \A t \in s.byHand \ z.byHand : \E n \in Mates : Gives(s, z, t, n)
      /\ \A t \in Tasks : SameTask(s, z, t) \/ \E n \in Mates : Gives(s, z, t, n)
      /\ \A n \in Mates : SameMate(s, z, n) \/ \E t \in Tasks : Gives(s, z, t, n)
  BY <1>1, TryAssignFacts
<1>3. ASSUME NEW t \in Tasks, NEW n \in Mates, Gives(s, z, t, n)
      PROVE  /\ ~s.closing /\ ~Busy(s, t) /\ s.requested[t] = None /\ ~s.task[t].cancel /\ s.lease[n]
             /\ \A u \in Tasks : ~(Busy(s, u) /\ s.task[u].owner = n)
  <2>1. ~s.closing /\ s.task[t].status = "pending" /\ s.status[n] = "idle" /\ s.lease[n]
    BY <1>3 DEF Gives
  <2>2. TaskOk(s, t) /\ Spare(s, n) /\ Tracked(s, t)
    BY <1>1 DEF TasksOk, Steady
  <2> QED
    BY <2>1, <2>2 DEF TaskOk, Spare, Tracked
<1>h. s.closing => s.byHand \subseteq z.byHand
  BY <1>2 DEF Gives
<1>4. ASSUME NEW t \in Tasks PROVE Tracked(z, t)
  <2>0. Tracked(s, t)
    BY DEF Steady
  <2>1. CASE SameTask(s, z, t) /\ \A n \in Mates : ~Gives(s, z, t, n)
    <3>1. t \in s.byHand => t \in z.byHand
      BY <1>2, <2>1
    <3> QED
      BY <1>2, <2>0, <2>1, <3>1 DEF Tracked, SameTask, SameTeam, Busy
  <2>2. ASSUME NEW n \in Mates, Gives(s, z, t, n) PROVE Tracked(z, t)
    <3>1. /\ z.task[t].status = "in_progress" /\ z.task[t].owner = n /\ z.task[t].try > 0
          /\ z.task[t].cancel = s.task[t].cancel /\ z.running[t] = z.task[t].try /\ Busy(z, t)
      BY <1>1, <2>2, GivesTask DEF Busy
    <3>2. s.requested[t] = None /\ ~s.task[t].cancel /\ s.lease[n]
      BY <1>3, <2>2
    <3> QED
      BY <1>2, <3>1, <3>2 DEF Tracked, SameTeam
  <2> QED
    BY <1>2, <2>1, <2>2
<1>5. ASSUME NEW t \in Tasks, Busy(z, t)
      PROVE  \/ SameTask(s, z, t) /\ Busy(s, t) /\ s.task[t].owner = z.task[t].owner
             \/ z.task[t].owner \in Mates /\ Gives(s, z, t, z.task[t].owner)
  <2>1. CASE SameTask(s, z, t)
    BY <1>5, <2>1 DEF SameTask, Busy
  <2>2. ASSUME NEW n \in Mates, Gives(s, z, t, n) PROVE z.task[t].owner = n
    BY <1>1, <2>2, GivesTask
  <2> QED
    BY <1>2, <2>1, <2>2
<1>6. ASSUME NEW t \in Tasks, NEW u \in Tasks, Busy(z, t), Busy(z, u), z.task[t].owner = z.task[u].owner
      PROVE  t = u
  <2>1. CASE Busy(s, t) /\ s.task[t].owner = z.task[t].owner /\ Busy(s, u) /\ s.task[u].owner = z.task[u].owner
    BY <1>6, <2>1 DEF Steady, Single
  <2>2. CASE z.task[t].owner \in Mates /\ Gives(s, z, t, z.task[t].owner) /\ Gives(s, z, u, z.task[t].owner)
    <3>1. z.last[z.task[t].owner].task = t
      <4>1. PICK run : GivenRun(s, z, t, z.task[t].owner, run)
        BY <1>1, <2>2, GivesRun
      <4> QED
        BY <4>1 DEF GivenRun
    <3>2. z.last[z.task[t].owner].task = u
      <4>1. PICK run : GivenRun(s, z, u, z.task[t].owner, run)
        BY <1>1, <2>2, GivesRun
      <4> QED
        BY <4>1 DEF GivenRun
    <3> QED
      BY <3>1, <3>2
  <2>3. ~(Busy(s, t) /\ s.task[t].owner = z.task[t].owner /\ z.task[u].owner \in Mates /\ Gives(s, z, u, z.task[u].owner))
    BY <1>3, <1>6
  <2>4. ~(Busy(s, u) /\ s.task[u].owner = z.task[u].owner /\ z.task[t].owner \in Mates /\ Gives(s, z, t, z.task[t].owner))
    BY <1>3, <1>6
  <2> QED
    BY <1>5, <1>6, <2>1, <2>2, <2>3, <2>4
<1>7. ASSUME NEW n \in Mates PROVE Spare(z, n)
  <2>1. CASE SameMate(s, z, n) /\ \A t \in Tasks : ~Gives(s, z, t, n)
    <3>1. Spare(s, n) /\ z.status[n] = s.status[n]
      BY <2>1 DEF Steady, SameMate
    <3>2. \A t \in Tasks : Busy(z, t) /\ z.task[t].owner = n => Busy(s, t) /\ s.task[t].owner = n
      BY <1>5, <2>1
    <3> QED
      BY <3>1, <3>2 DEF Spare
  <2>2. ASSUME NEW t \in Tasks, Gives(s, z, t, n) PROVE Spare(z, n)
    <3>1. z.status[n] = "working"
      BY <1>1, <2>2, GivesTask
    <3> QED
      BY <3>1 DEF Spare
  <2> QED
    BY <1>2, <2>1, <2>2
<1>8. ASSUME NEW n \in Mates, NEW run \in Runs, IsIn(s, n, run) PROVE IsIn(z, n, run)
  <2>1. run.task \in Tasks /\ Busy(s, run.task)
    BY <1>8, RunFacts DEF IsIn
  <2>2. SameTask(s, z, run.task)
    BY <1>2, <1>3, <2>1
  <2> QED
    BY <1>8, <2>2 DEF IsIn, SameTask, Busy
<1>9. ASSUME NEW n \in Mates PROVE Orders(z, n, z.sent[n])
  <2>1. Orders(s, n, s.sent[n]) /\ s.sent[n] \in Seq(LeadMsg)
    BY <1>1, LeadFields DEF Steady
  <2>0. Stop \in ToSet(s.sent[n]) => s.byHand \subseteq z.byHand
    BY <1>h DEF Closing
  <2>2. CASE SameMate(s, z, n)
    BY <1>8, <2>0, <2>1, <2>2, OrdersStay DEF SameMate
  <2>3. ASSUME NEW t \in Tasks, Gives(s, z, t, n) PROVE Orders(z, n, z.sent[n])
    <3>0. PICK run : GivenRun(s, z, t, n, run)
      BY <1>1, <2>3, GivesRun
    <3>1. run \in Runs /\ Asg(run) \in LeadMsg /\ z.sent[n] = Append(s.sent[n], Asg(run)) /\ IsIn(z, n, run)
      BY <3>0 DEF GivenRun
    <3>2. Stop \notin ToSet(s.sent[n])
      BY <1>3, <2>3 DEF Closing
    <3>3. ASSUME NEW p \in Runs PROVE Asg(p) \notin ToSet(s.sent[n])
      <4>1. Asg(p) \in ToSet(s.sent[n]) => IsIn(s, n, p)
        BY <2>1 DEF Orders
      <4>2. ~IsIn(s, n, p)
        BY <1>3, <2>3, RunFacts DEF IsIn
      <4> QED
        BY <4>1, <4>2
    <3>4. <<Asg(run)>> \in Seq(LeadMsg) /\ MayFollow(z, n, s.sent[n], <<Asg(run)>>)
      BY <3>1, <3>2, <3>3, OneMayFollow
    <3>5. Orders(z, n, s.sent[n] \o <<Asg(run)>>)
      BY <1>8, <2>0, <2>1, <3>4, OrdersCome
    <3>6. Append(s.sent[n], Asg(run)) = s.sent[n] \o <<Asg(run)>>
      BY <2>1, <3>1, AppendIsConcat
    <3> QED
      BY <3>1, <3>5, <3>6
  <2> QED
    BY <1>2, <2>2, <2>3
<1>10. ASSUME NEW n \in Mates, NEW m \in ToSet(z.sent[n]), m \notin ToSet(s.sent[n])
       PROVE  /\ ~s.closing
              /\ \E run \in Runs : m = Asg(run)
              /\ \A q \in Runs : ~IsIn(s, n, q)
  <2>1. PICK t \in Tasks : Gives(s, z, t, n)
    BY <1>2, <1>10 DEF SameMate
  <2>2. PICK run : GivenRun(s, z, t, n, run)
    BY <1>1, <2>1, GivesRun
  <2>3. s.sent[n] \in Seq(LeadMsg)
    BY <1>1, LeadFields
  <2>4. m = Asg(run)
    BY <1>10, <2>2, <2>3, AppendFacts DEF GivenRun
  <2>5. \A q \in Runs : ~IsIn(s, n, q)
    BY <1>3, <2>1, RunFacts DEF IsIn
  <2> QED
    BY <1>3, <2>1, <2>2, <2>4, <2>5 DEF GivenRun
<1>12. Closes(s, z)
  BY <1>2, <1>h, <1>10 DEF Closes, SameTeam
<1>13. Keeps(s, z)
  <2>1. ASSUME NEW t \in Tasks, s.task[t].cancel PROVE z.task[t].cancel
    <3>1. SameTask(s, z, t)
      BY <1>2, <1>3, <2>1
    <3> QED
      BY <2>1, <3>1 DEF SameTask
  <2> QED
    BY <2>1 DEF Keeps
<1>14. Closing(z)
  <2>1. Stop.kind # "assign" /\ \A run : Asg(run).kind = "assign"
    BY DEF Stop, Asg
  <2>2. \A n \in Mates : Stop \in ToSet(z.sent[n]) => Stop \in ToSet(s.sent[n])
    BY <1>10, <2>1
  <2>3. ASSUME s.closing, NEW t \in Tasks, Busy(z, t) PROVE z.task[t].cancel
    <3>1. Busy(s, t)
      BY <1>3, <1>5, <2>3
    <3> QED
      BY <1>13, <2>3, <3>1 DEF Closing, Keeps
  <2> QED
    BY <1>2, <2>2, <2>3 DEF Closing, SameTeam
<1>15. Steady(z)
  BY <1>4, <1>6, <1>7, <1>9 DEF Steady, Single
<1>16. \A n \in Mates : Carries(s, z, n)
  BY <1>8, <1>10 DEF Carries
<1> QED
  BY <1>2, <1>12, <1>13, <1>14, <1>15, <1>16 DEF Advance

\* Tasks are asked to stop.
OnlyAsks(s, z, S) ==
  /\ z.byHand = s.byHand
  /\ \A t \in Tasks :
       /\ Tracked(z, t) /\ (Busy(z, t) <=> Busy(s, t)) /\ z.task[t].try = s.task[t].try
       /\ Busy(s, t) => z.task[t].owner = s.task[t].owner /\ (t \in S => z.task[t].cancel)
       /\ s.task[t].cancel => z.task[t].cancel
  /\ \A n \in Mates : Orders(s, n, z.sent[n])
  /\ \A n \in Mates : \A m \in ToSet(z.sent[n]) :
       \/ m \in ToSet(s.sent[n])
       \/ m.kind = "cancel" /\ \E t \in S : Told(s, t) /\ s.task[t].owner = n /\ m.run.task = t

LEMMA RequestAsks ==
  ASSUME NEW s, s \in Lead, TasksOk(s), Steady(s), NEW S \in SUBSET Tasks, NEW st \in Requestable,
         NEW z, SameTeam(s, z), AllRequested(s, z, S, st),
         \A t \in Tasks : Told(s, t) => t \in s.byHand \/ Stop \notin ToSet(s.sent[s.task[t].owner])
  PROVE  OnlyAsks(s, z, S)
<1>1. ASSUME NEW t \in Tasks
      PROVE  /\ Tracked(z, t) /\ (Busy(z, t) <=> Busy(s, t)) /\ z.task[t].try = s.task[t].try
             /\ Busy(s, t) => z.task[t].owner = s.task[t].owner /\ (t \in S => z.task[t].cancel)
             /\ s.task[t].cancel => z.task[t].cancel
  <2>1. Tracked(s, t) /\ s.task[t] \in Task /\ z.lease = s.lease /\ z.byHand = s.byHand /\ TaskOk(s, t)
    BY LeadFields DEF Steady, SameTeam, TasksOk, AllRequested
  <2>2. CASE SameTask(s, z, t) /\ z.requested[t] = s.requested[t] /\ (t \in S => ~Open(s, t))
    <3>1. Busy(s, t) => t \notin S
      BY <2>1, <2>2 DEF Open, Tracked, Terminal
    <3> QED
      BY <2>1, <2>2, <3>1 DEF Tracked, SameTask, Busy
  <2>3. CASE Told(s, t) /\ z.task[t] = [s.task[t] EXCEPT !.cancel = TRUE] /\ z.requested[t] = st
             /\ z.running[t] = s.running[t] /\ z.record[t] = s.record[t]
    <3>1. /\ z.task[t].cancel /\ z.task[t].status = s.task[t].status /\ z.task[t].owner = s.task[t].owner
          /\ z.task[t].try = s.task[t].try /\ st # None
      BY <2>1, <2>3, NoneApart DEF Task
    <3>2. s.task[t].owner \in Mates /\ z.lease[s.task[t].owner] /\ (Busy(z, t) <=> Busy(s, t))
      BY <2>1, <2>3 DEF Task, Told, Busy
    <3>3. Tracked(z, t)
      BY <2>1, <2>3, <3>1, <3>2 DEF Tracked
    <3> QED
      BY <3>1, <3>2, <3>3
  <2>4. CASE s.task[t].cancel /\ SameTask(s, z, t) /\ z.requested[t] = st
    BY <2>1, <2>4, NoneApart DEF Tracked, SameTask, Busy
  <2>5. CASE /\ Open(s, t) /\ ~s.task[t].cancel /\ ~Told(s, t)
             /\ z.task[t] = WithStatus(s.task[t], st) /\ z.requested[t] = None
             /\ IF s.running[t] # 0 /\ st \in Terminal
                THEN z.running[t] = 0 /\ z.record[t] = st
                ELSE z.running[t] = s.running[t] /\ z.record[t] = s.record[t]
    <3>1. ~Busy(s, t)
      BY <2>1, <2>5, NoneApart DEF Told, Busy, Tracked
    <3>2. z.task[t].status = st /\ z.task[t].try = s.task[t].try /\ ~z.task[t].cancel /\ st # "in_progress"
      <4> DEFINE new == WithStatus(s.task[t], st)
      <4>1. new.status = st /\ new.try = s.task[t].try /\ ~new.cancel
        BY <2>1, StatusFacts
      <4> HIDE DEF new
      <4>2. z.task[t] = new
        BY <2>5 DEF new
      <4> QED
        BY <4>1, <4>2, NoneApart
    <3>3. s.running[t] = 0 /\ s.record[t] # "running"
      BY <2>1, <3>1 DEF Tracked, Busy
    <3>4. z.running[t] = 0 /\ z.record[t] # "running"
      BY <2>5, <3>3
    <3> QED
      BY <2>5, <3>1, <3>2, <3>4 DEF Tracked, Busy
  <2>6. Requested(s, z, t, st) \/ (t \notin S /\ SameTask(s, z, t) /\ z.requested[t] = s.requested[t])
    BY DEF AllRequested
  <2> QED
    BY <2>2, <2>3, <2>4, <2>5, <2>6 DEF Requested
<1>2. ASSUME NEW n \in Mates
      PROVE  /\ Orders(s, n, z.sent[n])
             /\ \A m \in ToSet(z.sent[n]) :
                  \/ m \in ToSet(s.sent[n])
                  \/ m.kind = "cancel" /\ \E t \in S : Told(s, t) /\ s.task[t].owner = n /\ m.run.task = t
  <2>0. Cancels(s, z, S, n)
    BY DEF AllRequested
  <2>1. PICK w \in Seq(LeadMsg) :
          /\ z.sent[n] = s.sent[n] \o w
          /\ \A m \in ToSet(w) : m.kind = "cancel" /\ \E t \in S : Told(s, t) /\ s.task[t].owner = n /\ m.run.task = t
    BY <2>0 DEF Cancels
  <2>2. s.sent[n] \in Seq(LeadMsg) /\ Orders(s, n, s.sent[n])
    BY LeadFields DEF Steady
  <2>3. \A x, y : Before(w, x, y) => x \in ToSet(w)
    BY DEF Before, ToSet
  <2>4. Stop \in ToSet(s.sent[n]) => \A m \in ToSet(w) : IsLate(s, m)
    BY <2>1 DEF IsLate
  <2>5. Stop \notin ToSet(w) /\ \A run : Asg(run) \notin ToSet(w)
    BY <2>1 DEF Stop, Asg
  <2>6. MayFollow(s, n, s.sent[n], w)
    BY <2>3, <2>4, <2>5 DEF MayFollow
  <2>7. Orders(s, n, s.sent[n] \o w)
    BY <2>2, <2>6, OrdersCome
  <2>8. ToSet(s.sent[n] \o w) = ToSet(s.sent[n]) \union ToSet(w)
    BY <2>2, ConcatFacts
  <2> QED
    BY <2>1, <2>7, <2>8
<1> QED
  BY <1>1, <1>2 DEF OnlyAsks, AllRequested

\* What asking leaves as it is, or does to the rest.
LEMMA AskedRuns ==
  ASSUME NEW s \in Lead, NEW z \in Lead, Steady(s), NEW S, OnlyAsks(s, z, S), z.status = s.status
  PROVE  Steady(z) /\ Keeps(s, z) /\ \A n \in Mates : Carries(s, z, n)
<1>1. \A n \in Mates, run \in Runs : IsIn(s, n, run) => IsIn(z, n, run)
  <2>1. ASSUME NEW n \in Mates, NEW run \in Runs, IsIn(s, n, run) PROVE IsIn(z, n, run)
    <3>1. run.task \in Tasks
      BY RunFacts
    <3> QED
      BY <2>1, <3>1 DEF IsIn, OnlyAsks
  <2> QED
    BY <2>1
<1>2. \A n \in Mates : Orders(z, n, z.sent[n])
  BY <1>1, OrdersStay DEF OnlyAsks
<1>3. Single(z)
  BY DEF Single, Steady, OnlyAsks
<1>4. \A n \in Mates : Spare(z, n)
  BY DEF Spare, Steady, OnlyAsks
<1>5. Steady(z)
  BY <1>2, <1>3, <1>4 DEF Steady, OnlyAsks
<1>7. \A n \in Mates, run \in Runs : Asg(run) \in ToSet(z.sent[n]) => Asg(run) \in ToSet(s.sent[n])
  <2>1. \A run : Asg(run).kind # "cancel"
    BY DEF Asg
  <2> QED
    BY <2>1 DEF OnlyAsks
<1>8. \A n \in Mates : Carries(s, z, n)
  BY <1>1, <1>7 DEF Carries
<1>9. Keeps(s, z)
  BY DEF Keeps, OnlyAsks
<1> QED
  BY <1>5, <1>8, <1>9

LEMMA RequestRuns ==
  ASSUME NEW s, LeadOk(s), Steady(s), Closing(s), NEW S \in SUBSET Tasks, NEW st \in Requestable,
         Grantable(s, S, st), NEW z, z = RequestState(s, S, st)
  PROVE  z \in Lead /\ SameTeam(s, z) /\ Advance(s, z)
<1>1. s \in Lead /\ TasksOk(s)
  BY DEF LeadOk
<1>2. z \in Lead /\ SameTeam(s, z) /\ AllRequested(s, z, S, st)
  BY <1>1, RequestFacts
<1>3. ASSUME NEW t \in Tasks, Told(s, t), t \notin s.byHand PROVE s.task[t].owner \in Mates /\ ~s.closing
  <2>1. s.task[t].status = "in_progress" /\ ~s.task[t].cancel /\ Tracked(s, t)
    BY <1>3 DEF Told, Steady
  <2> QED
    BY <1>3, <2>1 DEF Tracked, Closing
<1>4. \A t \in Tasks : Told(s, t) => t \in s.byHand \/ Stop \notin ToSet(s.sent[s.task[t].owner])
  BY <1>3 DEF Closing
<1>5. OnlyAsks(s, z, S)
  BY <1>1, <1>2, <1>4, RequestAsks
<1>6. z.status = s.status
  BY <1>2 DEF AllRequested
<1>7. Steady(z) /\ Keeps(s, z) /\ \A n \in Mates : Carries(s, z, n)
  BY <1>1, <1>2, <1>5, <1>6, AskedRuns
<1>8. \A n \in Mates : \A m \in ToSet(z.sent[n]) :
        m \in ToSet(s.sent[n]) \/ (m.kind = "cancel" /\ (m.run.task \in s.byHand \/ ~s.closing))
  BY <1>3, <1>5 DEF OnlyAsks
<1>9. Closes(s, z)
  BY <1>2, <1>5, <1>8 DEF Closes, SameTeam, IsLate, OnlyAsks
<1>10. Closing(z)
  <2>1. Stop.kind # "cancel"
    BY DEF Stop
  <2>2. \A n \in Mates : Stop \in ToSet(z.sent[n]) => Stop \in ToSet(s.sent[n])
    BY <1>8, <2>1
  <2>3. \A t \in Tasks : (Busy(z, t) <=> Busy(s, t)) /\ (s.task[t].cancel => z.task[t].cancel)
    BY <1>5 DEF OnlyAsks
  <2> QED
    BY <1>2, <2>2, <2>3 DEF Closing, SameTeam
<1> QED
  BY <1>2, <1>7, <1>9, <1>10 DEF Advance

\* Whatever runs besides S, or is asked to stop, has a process.
RunsOf(s, z, S) == \A t \in Tasks \ S : Busy(s, t) \/ s.task[t].cancel => z.lease[s.task[t].owner]

AllEnded(s, z, S) ==
  \A t \in Tasks :
    /\ Tracked(z, t) /\ z.task[t].try = s.task[t].try
    /\ Busy(z, t) <=> Busy(s, t) /\ t \notin S
    /\ t \notin S => z.task[t] = s.task[t]

LEMMA SettleRuns ==
  ASSUME NEW s, s \in Lead, Steady(s), NEW S \in SUBSET Tasks, NEW own \in Terminal, NEW asked \in [Tasks -> Requestable],
         NEW z, Settled(s, z, S, own, asked), RunsOf(s, z, S), z.byHand = s.byHand
  PROVE  AllEnded(s, z, S)
<1>1. ASSUME NEW t \in S
      PROVE  Tracked(z, t) /\ z.task[t].try = s.task[t].try /\ ~Busy(z, t)
  <2> DEFINE to == IF s.task[t].cancel THEN asked[t] ELSE own
  <2>1. to \in Requestable /\ s.task[t] \in Task
    BY LeadFields, NoneApart
  <2> HIDE DEF to
  <2>2. z.task[t] = WithStatus(s.task[t], to)
    BY DEF Settled, to
  <2>3. z.task[t].status = to /\ z.task[t].try = s.task[t].try /\ ~z.task[t].cancel
    BY <2>1, <2>2, StatusFacts
  <2>4. z.task[t].status # "in_progress"
    BY <2>1, <2>3, NoneApart
  <2>5. s.running[t] # 0 <=> Busy(s, t)
    <3>1. Tracked(s, t) /\ s.task[t].try \in Nat
      BY TriesTyped DEF Steady
    <3> QED
      BY <3>1 DEF Tracked
  <2>6. z.record[t] \in Terminal \/ (z.record[t] = s.record[t] /\ ~Busy(s, t))
    BY <2>5, NoneApart DEF Settled
  <2>7. z.requested[t] = None /\ z.running[t] = 0 /\ ~Busy(z, t)
    BY <2>6 DEF Settled, Terminal, Busy
  <2> QED
    BY <2>3, <2>4, <2>7 DEF Tracked
<1>2. ASSUME NEW t \in Tasks \ S PROVE Tracked(z, t) /\ z.task[t] = s.task[t]
  <2>1. SameTask(s, z, t) /\ z.requested[t] = s.requested[t] /\ Tracked(s, t)
    BY DEF Settled, Steady
  <2> QED
    BY <2>1 DEF SameTask, Tracked, Busy, RunsOf
<1>3. \A t \in Tasks \ S : Busy(z, t) <=> Busy(s, t)
  BY DEF Settled, SameTask, Busy
<1> QED
  BY <1>1, <1>2, <1>3 DEF AllEnded

-----------------------------------------------------------------------------
(* The lead's actions keep RunInv. *)

LEMMA LeadRuns ==
  ASSUME TeamInv, LeadOk(lead'), RunInv, Advance(lead, lead'), UNCHANGED <<proc, active>>,
         \A n \in Mates : NoNews(up[n], up'[n])
  PROVE  RunInv' /\ Keeps(lead, lead')
<1>1. lead \in Lead /\ lead' \in Lead /\ \A n \in Mates : active[n] \in Runs \union {None}
  BY DEF TeamInv, LeadOk, MatesTyped
<1>2. ASSUME NEW n \in Mates PROVE MateRuns(lead', n, proc[n], up'[n], active[n])
  <2>1. MateRuns(lead, n, proc[n], up[n], active[n]) /\ Carries(lead, lead', n) /\ Closes(lead, lead')
    BY DEF RunInv, Advance
  <2> QED
    BY <1>1, <2>1, MateFollows
<1> QED
  BY <1>2 DEF RunInv, Advance

\* A teammate that has no process.
LEMMA GoneMate ==
  ASSUME NEW s, NEW n, NEW p, p \notin {"live", "closing"}
  PROVE  MateRuns(s, n, p, <<>>, None)
<1>1. (\A x : x \notin ToSet(<<>>)) /\ \A x, y : ~Before(<<>>, x, y)
  BY DEF ToSet, Before
<1> QED
  BY <1>1 DEF MateRuns, Ends

LEMMA NoMates ==
  ASSUME TeamInv, NEW s, \A n \in Mates : ~lead.lease[n]
  PROVE  \A n \in Mates : MateRuns(s, n, proc[n], up[n], active[n])
<1>1. \A n \in Mates : proc[n] = "none" /\ up[n] = <<>> /\ active[n] = None
  BY DEF TeamInv, MateOk
<1> QED
  BY <1>1, GoneMate

LEMMA NothingSent ==
  ASSUME NEW s, NEW n
  PROVE  Orders(s, n, <<>>)
<1>1. ToSet(<<>>) = {} /\ \A x, y : ~Before(<<>>, x, y)
  BY DEF ToSet, Before
<1> QED
  BY <1>1 DEF Orders

LEMMA InitRuns ==
  ASSUME Init
  PROVE  RunInv
<1>1. lead = LeadInit /\ \A n \in Mates : proc[n] = "none" /\ up[n] = <<>> /\ active[n] = None
  BY DEF Init
<1>2. /\ \A t \in Tasks : /\ LeadInit.task[t].status = "absent" /\ ~LeadInit.task[t].cancel
                          /\ LeadInit.requested[t] = None /\ LeadInit.record[t] = "none" /\ LeadInit.running[t] = 0
      /\ \A n \in Mates : LeadInit.sent[n] = <<>>
      /\ ~LeadInit.closing /\ ~LeadInit.stopping
  BY DEF LeadInit, NoTask
<1> HIDE DEF LeadInit
<1>3. \A t \in Tasks : Tracked(lead, t) /\ ~Busy(lead, t)
  BY <1>1, <1>2 DEF Tracked, Busy
<1>4. \A n \in Mates : Orders(lead, n, lead.sent[n])
  BY <1>1, <1>2, NothingSent
<1>5. Steady(lead)
  BY <1>3, <1>4 DEF Steady, Single, Spare
<1>6. ToSet(<<>>) = {}
  BY DEF ToSet
<1>7. Closing(lead)
  BY <1>1, <1>2, <1>6 DEF Closing
<1>8. \A n \in Mates : MateRuns(lead, n, proc[n], up[n], active[n])
  BY <1>1, GoneMate
<1> QED
  BY <1>5, <1>7, <1>8 DEF RunInv

LEMMA CreateTeamRuns ==
  ASSUME TeamInv, RunInv, CreateTeam
  PROVE  RunInv' /\ Keeps(lead, lead')
<1>1. lead \in Lead /\ (\A n \in Mates : ~lead.lease[n]) /\ Steady(lead) /\ ~lead.closing /\ Closing(lead)
  BY DEF TeamInv, LeadOk, RunInv, CreateTeam
<1>2. lead' = [lead EXCEPT !.team = "active", !.task = LeadInit.task, !.running = LeadInit.running,
                           !.requested = LeadInit.requested, !.record = LeadInit.record, !.deps = LeadInit.deps,
                           !.root = LeadInit.root, !.byHand = {}, !.passedOver = {}]
      /\ UNCHANGED procVars
  BY DEF CreateTeam
<1>3. \A t \in Tasks : /\ LeadInit.task[t].status = "absent" /\ ~LeadInit.task[t].cancel
                       /\ LeadInit.requested[t] = None /\ LeadInit.record[t] = "none" /\ LeadInit.running[t] = 0
  BY DEF LeadInit, NoTask
<1> HIDE DEF LeadInit
<1>4. /\ lead'.task = LeadInit.task /\ lead'.requested = LeadInit.requested /\ lead'.record = LeadInit.record
      /\ lead'.running = LeadInit.running /\ lead'.sent = lead.sent /\ lead'.closing = lead.closing
      /\ lead'.stopping = lead.stopping
  BY <1>1, <1>2 DEF Lead
<1>5. \A t \in Tasks : Tracked(lead', t) /\ ~Busy(lead', t)
  BY <1>3, <1>4 DEF Tracked, Busy
<1>6. \A n \in Mates : lead.sent[n] = <<>>
  BY <1>1 DEF TeamInv, LeadOk, Forgotten
<1>7. \A n \in Mates : Orders(lead', n, lead'.sent[n])
  BY <1>4, <1>6, NothingSent
<1>8. Steady(lead')
  BY <1>5, <1>7 DEF Steady, Single, Spare
<1>9. Closing(lead')
  BY <1>1, <1>4 DEF Closing
<1>10. \A n \in Mates : MateRuns(lead', n, proc[n], up[n], active[n])
  BY <1>1, NoMates
<1>11. \A t \in Tasks : ~lead.task[t].cancel
  <2>1. ASSUME NEW t \in Tasks PROVE ~lead.task[t].cancel
    <3>1. Tracked(lead, t)
      BY <1>1 DEF Steady
    <3> QED
      BY <1>1, <3>1 DEF Tracked
  <2> QED
    BY <2>1
<1> QED
  BY <1>2, <1>8, <1>9, <1>10, <1>11 DEF RunInv, Keeps, procVars

LEMMA AddTeammateRuns ==
  ASSUME TeamInv, RunInv, NEW n \in Mates, AddTeammate(n)
  PROVE  RunInv' /\ Keeps(lead, lead')
<1>1. LeadOk(lead) /\ lead \in Lead /\ ~lead.lease[n] /\ ~lead.closing /\ MateOk(n) /\ MatesTyped
      /\ Steady(lead) /\ Closing(lead)
  BY DEF TeamInv, LeadOk, RunInv, AddTeammate
<1>2. lead' = [lead EXCEPT !.lease[n] = TRUE, !.status[n] = "spawning", !.home[n] = lead.workspace]
  BY DEF AddTeammate
<1>3. /\ lead'.task = lead.task /\ lead'.requested = lead.requested /\ lead'.record = lead.record
      /\ lead'.running = lead.running /\ lead'.sent = lead.sent /\ lead'.closing = lead.closing
      /\ lead'.stopping = lead.stopping /\ lead'.byHand = lead.byHand
      /\ lead'.lease[n] /\ \A m \in Mates \ {n} : lead'.lease[m] = lead.lease[m] /\ lead'.status[m] = lead.status[m]
  BY <1>1, <1>2 DEF Lead
<1>4. lead' \in Lead
  BY <1>1, <1>2 DEF Lead
<1>5. SameWork(lead, lead')
  BY <1>3 DEF SameWork, Busy
<1>6. \A m \in Mates : Spare(lead', m)
  <2>1. \A t \in Tasks : ~(Busy(lead, t) /\ lead.task[t].owner = n)
    BY <1>1 DEF Steady, Tracked
  <2> QED
    BY <1>1, <1>3, <2>1 DEF Steady, Spare, Busy
<1>7. \A m \in Mates : Orders(lead, m, lead'.sent[m])
  BY <1>1, <1>3 DEF Steady
<1>8. Advance(lead, lead')
  BY <1>1, <1>3, <1>5, <1>6, <1>7, SameWorkAdvances
<1>9. ASSUME NEW m \in Mates PROVE MateRuns(lead', m, proc'[m], up'[m], active[m])
  <2>1. CASE m = n
    <3>1. /\ proc'[n] = "live" /\ up'[n] = <<[kind |-> "ready"]>> /\ active[n] = None /\ lead.sent[n] = <<>>
      BY <1>1 DEF MateOk, MatesTyped, AddTeammate, LeadOk, Forgotten
    <3>2. [kind |-> "ready"] \in MateMsg
      BY DEF MateMsg
    <3>3. ToSet(<<[kind |-> "ready"]>>) = {[kind |-> "ready"]} /\ \A x, y : ~Before(<<[kind |-> "ready"]>>, x, y)
      BY <3>2, ShortFacts
    <3>4. \A run, st : Update(run, st) \notin ToSet(up'[n])
      BY <3>1, <3>3 DEF Update
    <3>5. Ends(lead', n, up'[n], active[n])
      BY <3>1, <3>3, <3>4 DEF Ends
    <3> QED
      BY <1>1, <1>3, <2>1, <3>1, <3>5 DEF MateRuns
  <2>2. CASE m # n
    <3>1. proc'[m] = proc[m] /\ up'[m] = up[m]
      BY <1>1, <2>2 DEF MatesTyped, AddTeammate
    <3>2. MateRuns(lead, m, proc[m], up[m], active[m]) /\ Carries(lead, lead', m) /\ Closes(lead, lead')
      BY <1>8 DEF RunInv, Advance
    <3>3. active[m] \in Runs \union {None} /\ NoNews(up[m], up'[m])
      BY <1>1, <3>1 DEF MatesTyped, NoNews
    <3> QED
      BY <3>1, <3>2, <3>3, MateFollows
  <2> QED
    BY <2>1, <2>2
<1>10. active' = active
  BY DEF AddTeammate
<1> QED
  BY <1>8, <1>9, <1>10 DEF RunInv, Advance

\* A task that does not run gets another status.
LEMMA IdleTaskRuns ==
  ASSUME NEW y, Steady(y), Closing(y), NEW t \in Tasks, NEW s,
         s.task[t].try = y.task[t].try, s.task[t].cancel = y.task[t].cancel,
         ~Busy(y, t), ~y.task[t].cancel,
         s.task[t].status = "in_progress" => t \in s.byHand, \A u \in Tasks \ {t} : s.task[u] = y.task[u],
         s.requested = y.requested, s.record = y.record, s.running = y.running, s.lease = y.lease,
         s.status = y.status, s.sent = y.sent, s.closing = y.closing, s.stopping = y.stopping,
         y.byHand \subseteq s.byHand
  PROVE  Advance(y, s)
<1>1. SameWork(y, s)
  BY DEF SameWork
<1>2. \A u \in Tasks : Busy(s, u) => Busy(y, u) /\ s.task[u].owner = y.task[u].owner
  BY DEF Busy
<1>3. \A n \in Mates : Spare(s, n) /\ Orders(y, n, s.sent[n])
  BY <1>2 DEF Steady, Spare
<1> QED
  BY <1>1, <1>3, SameWorkAdvances

LEMMA CreateTaskRuns ==
  ASSUME TeamInv, RunInv, NEW t \in Tasks, CreateTask(t)
  PROVE  RunInv' /\ Keeps(lead, lead')
<1> DEFINE s == [lead EXCEPT !.task[t].status = "pending", !.deps[t] = Deps[t], !.root[t] = lead.workspace]
           task == [lead.task EXCEPT ![t].status = "pending"]
           deps == [lead.deps EXCEPT ![t] = Deps[t]]
           root == [lead.root EXCEPT ![t] = lead.workspace]
<1>1. /\ LeadOk(lead) /\ lead \in Lead /\ TasksOk(lead) /\ Steady(lead) /\ Closing(lead)
      /\ lead.task[t].status = "absent" /\ lead.task[t] \in Task /\ lead.task \in [Tasks -> Task]
  BY DEF TeamInv, LeadOk, RunInv, CreateTask, Lead
<1>2. lead' = TryAssign(s) /\ UNCHANGED procVars
  BY DEF CreateTask
<1>3. task \in [Tasks -> Task] /\ task[t] = [lead.task[t] EXCEPT !.status = "pending"]
      /\ \A u \in Tasks \ {t} : task[u] = lead.task[u]
  <2>1. [lead.task[t] EXCEPT !.status = "pending"] \in Task
    BY <1>1 DEF Task, Requestable
  <2> QED
    BY <1>1, <2>1
<1>4. /\ s.requested = lead.requested /\ s.record = lead.record /\ s.running = lead.running /\ s.lease = lead.lease
      /\ s.status = lead.status /\ s.sent = lead.sent /\ s.closing = lead.closing /\ s.stopping = lead.stopping
      /\ s.last = lead.last /\ s.nested = lead.nested /\ s.byHand = lead.byHand /\ s.task = task
  BY <1>1 DEF Lead
<1>5. s = [lead EXCEPT !.task = task, !.deps = deps, !.root = root]
  BY <1>1 DEF Lead
<1>a. deps \in [Tasks -> SUBSET Tasks] /\ root \in [Tasks -> Workspaces \union {None}]
  BY <1>1, LeadAssumption DEF Lead
<1> HIDE DEF s, task, deps, root
<1>6. s \in Lead
  BY <1>1, <1>3, <1>5, <1>a DEF Lead
<1>7. /\ s.task[t].status = "pending" /\ s.task[t].try = lead.task[t].try /\ s.task[t].cancel = lead.task[t].cancel
      /\ \A u \in Tasks \ {t} : s.task[u] = lead.task[u]
  BY <1>1, <1>3, <1>4 DEF Task
<1>8. TaskOk(lead, t) /\ Tracked(lead, t)
  BY <1>1 DEF TasksOk, Steady
<1>9. TaskOk(s, t) /\ ~s.task[t].cancel
  BY <1>1, <1>4, <1>7, <1>8, NoneApart DEF TaskOk
<1>10. TasksOk(s)
  BY <1>1, <1>4, <1>7, <1>9 DEF TasksOk, TaskOk
<1>11. LeadOk(s)
  BY <1>1, <1>4, <1>6, <1>10 DEF LeadOk, Forgotten
<1>12. Advance(lead, s)
  <2>1. ~Busy(lead, t) /\ ~lead.task[t].cancel /\ s.task[t].status # "in_progress"
    BY <1>1, <1>7, <1>8, <1>9 DEF Tracked
  <2> QED
    BY <1>1, <1>4, <1>7, <2>1, IdleTaskRuns
<1>13. lead' \in Lead /\ SameTeam(s, lead') /\ Advance(s, lead')
  BY <1>2, <1>11, <1>12, TryAssignRuns DEF Advance
<1>14. LeadOk(lead')
  BY <1>2, <1>11, TryAssignOk
<1>15. Advance(lead, lead')
  BY <1>12, <1>13, AdvanceOn DEF SameTeam
<1> QED
  BY <1>2, <1>14, <1>15, LeadRuns DEF procVars, NoNews

LEMMA AlikeAdvances ==
  ASSUME NEW s, Steady(s), Closing(s), NEW z, Alike(s, z)
  PROVE  Advance(s, z)
<1>1. SameWork(s, z)
  BY DEF SameWork, Alike
<1>2. \A n \in Mates : Spare(z, n) /\ Orders(s, n, z.sent[n])
  BY DEF Steady, Spare, Alike, Busy
<1> QED
  BY <1>1, <1>2, SameWorkAdvances DEF Alike

\* The new status of a task, or the request for it.
LEMMA EditRuns ==
  ASSUME NEW y, LeadOk(y), Steady(y), Closing(y), NEW t \in Tasks, NEW st, NEW e, Edit(y, e, t, st)
  PROVE  Advance(y, e) /\ e.closing = y.closing /\ e.stopping = y.stopping
<1>1. y \in Lead /\ TaskOk(y, t) /\ Tracked(y, t) /\ y.task[t] \in Task /\ y.task \in [Tasks -> Task]
  BY DEF LeadOk, TasksOk, Steady, Lead
<1>2. CASE e = y
  BY <1>2, AlikeAdvances DEF Alike
<1>3. CASE st \in Requestable /\ Grantable(y, {t}, st) /\ e = RequestState(y, {t}, st)
  <2>1. {t} \in SUBSET Tasks
    OBVIOUS
  <2> QED
    BY <1>3, <2>1, RequestRuns DEF SameTeam
<1>4. CASE /\ st \in Requestable \union {"in_progress"} /\ Grantable(y, {t}, st) /\ y.task[t].status # "in_progress"
           /\ e = [SetStatus(y, t, st) EXCEPT !.byHand = IF st = "in_progress" THEN @ \union {t} ELSE @]
  <2>1. StatusSet(y, e, t, st)
    BY <1>4, SetStatusOk
  <2> DEFINE new == WithStatus(y.task[t], st)
  <2>2. /\ new.status = st /\ new.try = y.task[t].try /\ new \in Task
        /\ (st \in Requestable => ~new.cancel)
        /\ (st = "in_progress" => new.cancel = y.task[t].cancel)
    BY <1>1, <1>4, StatusFacts DEF Task
  <2> HIDE DEF new
  <2>3. e.task[t] = new /\ \A u \in Tasks \ {t} : e.task[u] = y.task[u]
    BY <1>1, <2>1 DEF StatusSet, new
  <2>4. ~Busy(y, t) /\ ~y.task[t].cancel
    BY <1>1, <1>4 DEF Tracked, TaskOk
  <2>5. new.cancel \in BOOLEAN /\ y.task[t].cancel \in BOOLEAN
    BY <1>1, <2>2 DEF Task
  <2>6. e.task[t].try = y.task[t].try /\ e.task[t].cancel = y.task[t].cancel
    BY <1>4, <2>2, <2>3, <2>4, <2>5
  <2>7. e.task[t].status = "in_progress" => t \in e.byHand
    BY <2>1, <2>2, <2>3 DEF StatusSet
  <2>8. /\ e.requested = y.requested /\ e.record = y.record /\ e.running = y.running /\ e.lease = y.lease
        /\ e.status = y.status /\ e.sent = y.sent /\ e.closing = y.closing /\ e.stopping = y.stopping
        /\ y.byHand \subseteq e.byHand
    BY <2>1 DEF StatusSet
  <2> QED
    BY <2>3, <2>4, <2>6, <2>7, <2>8, IdleTaskRuns
<1> QED
  BY <1>2, <1>3, <1>4 DEF Edit

LEMMA UpdateTaskRuns ==
  ASSUME TeamInv, RunInv, NEW t \in Tasks, NEW st \in LeadStatuses \union {None}, NEW deps \in NewDeps[t] \union {lead.deps[t]},
         UpdateTask(t, st, deps)
  PROVE  RunInv' /\ Keeps(lead, lead')
<1>1. UNCHANGED procVars /\ \E y, e : Updated(y, e, t, st)
  BY UpdateTaskFacts
<1>2. PICK y, e : Updated(y, e, t, st)
  BY <1>1
<1>3. Steady(lead) /\ Closing(lead)
  BY DEF RunInv
<1>4. Advance(lead, y) /\ y.closing = lead.closing /\ y.stopping = lead.stopping
  BY <1>2, <1>3, AlikeAdvances DEF Updated, Alike
<1>5. Advance(y, e) /\ e.closing = y.closing /\ e.stopping = y.stopping
  BY <1>2, <1>4, EditRuns DEF Updated, Advance
<1>6. Advance(e, lead') /\ lead'.closing = e.closing /\ lead'.stopping = e.stopping
  <2>1. LeadOk(e) /\ Steady(e) /\ Closing(e)
    BY <1>2, <1>5 DEF Updated, Advance
  <2>2. CASE lead' = TryAssign(e)
    BY <2>1, <2>2, TryAssignRuns DEF SameTeam
  <2>3. CASE Alike(e, lead')
    BY <2>1, <2>3, AlikeAdvances DEF Alike
  <2> QED
    BY <1>2, <2>2, <2>3 DEF Updated
<1>7. Advance(lead, e)
  BY <1>4, <1>5, AdvanceOn
<1>8. LeadOk(lead') /\ Advance(lead, lead')
  BY <1>2, <1>6, <1>7, AdvanceOn DEF Updated
<1> QED
  BY <1>1, <1>8, LeadRuns DEF procVars, NoNews

LEMMA SwitchWorkspaceRuns ==
  ASSUME TeamInv, RunInv, NEW w \in Workspaces, SwitchWorkspace(w)
  PROVE  RunInv' /\ Keeps(lead, lead')
<1>1. LeadOk(lead') /\ Alike(lead, lead') /\ UNCHANGED procVars
  BY SwitchWorkspaceFacts
<1>2. Advance(lead, lead')
  BY <1>1, AlikeAdvances DEF RunInv
<1> QED
  BY <1>1, <1>2, LeadRuns DEF procVars, NoNews

LEMMA StopTaskRuns ==
  ASSUME TeamInv, RunInv, NEW t \in Tasks, StopTask(t)
  PROVE  RunInv' /\ Keeps(lead, lead')
<1>1. /\ LeadOk(lead) /\ Steady(lead) /\ Closing(lead) /\ UNCHANGED procVars
      /\ lead' = RequestState(lead, {t}, "cancelled")
  BY DEF TeamInv, RunInv, StopTask
<1>2. {t} \in SUBSET Tasks /\ "cancelled" \in Requestable /\ Grantable(lead, {t}, "cancelled")
  BY NoneApart DEF Grantable
<1>3. LeadOk(lead') /\ Advance(lead, lead')
  BY <1>1, <1>2, RequestOk, RequestRuns
<1> QED
  BY <1>1, <1>3, LeadRuns DEF procVars, NoNews

\* shutdown. When it is called again every process has ended.
LEMMA ShutdownRuns ==
  ASSUME TeamInv, RunInv, Shutdown
  PROVE  RunInv' /\ Keeps(lead, lead')
<1> DEFINE s == [lead EXCEPT !.closing = TRUE, !.stopping = TRUE]
           z == RequestState(s, Tasks, "cancelled")
           sent == [n \in Mates |-> IF proc[n] = "live" THEN Append(z.sent[n], Stop) ELSE z.sent[n]]
<1>1. /\ LeadOk(s) /\ LeadOk(z) /\ SameTeam(s, z) /\ AllRequested(s, z, Tasks, "cancelled") /\ s \in Lead
      /\ lead' = [z EXCEPT !.sent = sent] /\ s.closing /\ s.stopping
      /\ s.task = lead.task /\ s.requested = lead.requested /\ s.record = lead.record /\ s.running = lead.running
      /\ s.sent = lead.sent /\ s.status = lead.status /\ s.lease = lead.lease /\ s.byHand = lead.byHand
  BY ShutdownFacts
<1> HIDE DEF s, z
<1>2. \A n \in Mates : IF proc[n] = "live" THEN sent[n] = Append(z.sent[n], Stop) ELSE sent[n] = z.sent[n]
  OBVIOUS
<1> HIDE DEF sent
<1>3. lead \in Lead /\ z \in Lead /\ TasksOk(s) /\ Steady(lead) /\ Closing(lead) /\ ~lead.stopping /\ UNCHANGED procVars
  BY <1>1 DEF TeamInv, LeadOk, RunInv, Shutdown
<1>4. ASSUME lead.closing
      PROVE  /\ \A n \in Mates : proc[n] # "live"
             /\ \A t \in Tasks : Told(s, t) => t \in s.byHand
  <2>1. \A n \in Mates : MateRuns(lead, n, proc[n], up[n], active[n])
    BY DEF RunInv
  <2>2. \A t \in Tasks : Busy(lead, t) => lead.task[t].cancel
    BY <1>3, <1>4 DEF Closing
  <2>3. \A t \in Tasks : Told(s, t) => t \in s.byHand
    <3>1. \A t \in Tasks : Tracked(lead, t)
      BY <1>3 DEF Steady
    <3> QED
      BY <1>1, <2>2, <3>1 DEF Told, Tracked
  <2> QED
    BY <1>3, <1>4, <2>1, <2>3 DEF MateRuns
<1>5. Steady(s)
  <2>1. \A t \in Tasks : Tracked(s, t)
    BY <1>1, <1>3 DEF Steady, Tracked, Busy
  <2>2. Single(s) /\ \A n \in Mates : Spare(s, n)
    BY <1>1, <1>3 DEF Steady, Single, Spare, Busy
  <2>3. \A n \in Mates : Orders(s, n, s.sent[n])
    BY <1>1, <1>3 DEF Steady, Orders, IsIn, Busy, IsLate
  <2> QED
    BY <2>1, <2>2, <2>3 DEF Steady
<1>6. OnlyAsks(s, z, Tasks)
  <2>1. ASSUME NEW t \in Tasks, Told(s, t), t \notin s.byHand PROVE Stop \notin ToSet(s.sent[s.task[t].owner])
    <3>1. s.task[t].owner \in Mates /\ ~lead.closing
      BY <1>1, <1>4, <2>1, LeadFields DEF Told, Task
    <3> QED
      BY <1>1, <1>3, <3>1 DEF Closing
  <2>2. "cancelled" \in Requestable /\ Tasks \in SUBSET Tasks
    BY NoneApart
  <2> QED
    BY <1>1, <1>3, <1>5, <2>1, <2>2, RequestAsks
<1>7. Steady(z) /\ Keeps(s, z) /\ \A n \in Mates : Carries(s, z, n)
  BY <1>1, <1>3, <1>5, <1>6, AskedRuns DEF AllRequested
<1>8. /\ lead'.task = z.task /\ lead'.requested = z.requested /\ lead'.record = z.record /\ lead'.running = z.running
      /\ lead'.status = z.status /\ lead'.lease = z.lease /\ lead'.sent = sent /\ lead'.byHand = z.byHand
      /\ z.byHand = lead.byHand /\ lead'.closing /\ lead'.stopping
  BY <1>1, <1>3, <1>6 DEF Lead, SameTeam, OnlyAsks
<1>9. ASSUME NEW n \in Mates
      PROVE  /\ Orders(z, n, sent[n])
             /\ \A m \in ToSet(sent[n]) : m \in ToSet(z.sent[n]) \/ (m = Stop /\ ~lead.closing)
  <2>1. CASE proc[n] # "live"
    BY <1>2, <1>7, <2>1 DEF Steady
  <2>2. CASE proc[n] = "live"
    <3>1. z.sent[n] \in Seq(LeadMsg) /\ Stop \in LeadMsg /\ sent[n] = Append(z.sent[n], Stop) /\ ~lead.closing
      BY <1>2, <1>3, <1>4, <2>2, LeadFields DEF LeadMsg, Stop
    <3>2. Stop \notin ToSet(z.sent[n])
      <4>1. Stop \notin ToSet(s.sent[n])
        BY <1>1, <1>3, <3>1 DEF Closing
      <4>2. Stop.kind # "cancel"
        BY DEF Stop
      <4> QED
        BY <1>6, <4>1, <4>2 DEF OnlyAsks
    <3>3. Stop.kind # "assign"
      BY DEF Stop
    <3>4. <<Stop>> \in Seq(LeadMsg) /\ MayFollow(z, n, z.sent[n], <<Stop>>)
      BY <3>1, <3>2, <3>3, OneMayFollow
    <3>5. Orders(z, n, z.sent[n])
      BY <1>7 DEF Steady
    <3>6. Orders(z, n, z.sent[n] \o <<Stop>>)
      BY <3>1, <3>2, <3>4, <3>5, OrdersCome
    <3>7. Append(z.sent[n], Stop) = z.sent[n] \o <<Stop>>
      BY <3>1, AppendIsConcat
    <3>8. ToSet(Append(z.sent[n], Stop)) = ToSet(z.sent[n]) \union {Stop}
      BY <3>1, AppendFacts
    <3> QED
      BY <3>1, <3>6, <3>7, <3>8
  <2> QED
    BY <2>1, <2>2
<1>10. Steady(lead')
  <2>1. \A t \in Tasks : Tracked(lead', t)
    BY <1>7, <1>8 DEF Steady, Tracked, Busy
  <2>2. Single(lead') /\ \A n \in Mates : Spare(lead', n)
    BY <1>7, <1>8 DEF Steady, Single, Spare, Busy
  <2>3. \A n \in Mates : Orders(lead', n, lead'.sent[n])
    BY <1>8, <1>9 DEF Orders, IsIn, Busy, IsLate
  <2> QED
    BY <2>1, <2>2, <2>3 DEF Steady
<1>11. Closing(lead')
  <2>1. \A t \in Tasks : Busy(z, t) => z.task[t].cancel
    BY <1>6 DEF OnlyAsks
  <2> QED
    BY <1>8, <2>1 DEF Closing, Busy
<1>12. ASSUME NEW n \in Mates, NEW m \in ToSet(sent[n]), m \notin ToSet(lead.sent[n])
       PROVE  m.kind \in {"cancel", "shutdown"} /\ (IsLate(lead', m) \/ ~lead.closing)
  <2>1. CASE m = Stop /\ ~lead.closing
    BY <2>1 DEF Stop
  <2>2. CASE m \in ToSet(z.sent[n])
    <3>1. m.kind = "cancel" /\ \E t \in Tasks : Told(s, t) /\ m.run.task = t
      BY <1>1, <1>6, <1>12, <2>2 DEF OnlyAsks
    <3>2. lead.closing => m.run.task \in s.byHand
      BY <1>4, <3>1
    <3> QED
      BY <1>1, <1>8, <3>1, <3>2 DEF IsLate
  <2> QED
    BY <1>9, <1>12, <2>1, <2>2
<1>13. Closes(lead, lead')
  BY <1>8, <1>12 DEF Closes
<1>14. \A n \in Mates : Carries(lead, lead', n)
  <2>1. \A n \in Mates, run \in Runs : IsIn(lead, n, run) => IsIn(lead', n, run)
    BY <1>1, <1>7, <1>8 DEF Carries, IsIn, Busy
  <2>3. \A run : Asg(run).kind \notin {"cancel", "shutdown"}
    BY DEF Asg
  <2>4. \A n \in Mates, run \in Runs : Asg(run) \in ToSet(lead'.sent[n]) => Asg(run) \in ToSet(lead.sent[n])
    BY <1>8, <1>12, <2>3
  <2> QED
    BY <2>1, <2>4 DEF Carries
<1>15. Keeps(lead, lead')
  BY <1>1, <1>7, <1>8 DEF Keeps
<1>16. Advance(lead, lead')
  BY <1>10, <1>11, <1>13, <1>14, <1>15 DEF Advance
<1>17. LeadOk(lead')
  BY ShutdownTyped DEF TeamInv
<1> QED
  BY <1>3, <1>16, <1>17, LeadRuns DEF procVars, NoNews

LEMMA ShutdownDoneRuns ==
  ASSUME TeamInv, RunInv, ShutdownDone
  PROVE  RunInv' /\ Keeps(lead, lead')
<1>1. lead \in Lead /\ LeadOk(lead) /\ Steady(lead) /\ UNCHANGED procVars /\ \A n \in Mates : ~lead.lease[n]
  BY DEF TeamInv, LeadOk, RunInv, ShutdownDone
<1>2. lead' = [lead EXCEPT !.team = "completed", !.closing = FALSE, !.stopping = FALSE, !.status = LeadInit.status]
  BY DEF ShutdownDone
<1> HIDE DEF LeadInit
<1>3. /\ lead'.task = lead.task /\ lead'.requested = lead.requested /\ lead'.record = lead.record
      /\ lead'.running = lead.running /\ lead'.lease = lead.lease /\ lead'.sent = lead.sent /\ lead'.byHand = lead.byHand
      /\ ~lead'.closing /\ ~lead'.stopping
  BY <1>1, <1>2 DEF Lead
<1>4. \A t \in Tasks : Tracked(lead', t) /\ ~Busy(lead', t)
  BY <1>1, <1>3 DEF Steady, Tracked, Busy
<1>5. \A n \in Mates : lead'.sent[n] = <<>>
  BY <1>1, <1>3 DEF LeadOk, Forgotten
<1>6. \A n \in Mates : Orders(lead', n, lead'.sent[n])
  BY <1>5, NothingSent
<1>7. Steady(lead')
  BY <1>4, <1>6 DEF Steady, Single, Spare
<1>8. ToSet(<<>>) = {}
  BY DEF ToSet
<1>9. Closing(lead')
  BY <1>3, <1>5, <1>8 DEF Closing
<1>10. \A n \in Mates : MateRuns(lead', n, proc[n], up[n], active[n])
  BY <1>1, NoMates
<1>11. Keeps(lead, lead')
  BY <1>3 DEF Keeps
<1> QED
  BY <1>1, <1>7, <1>9, <1>10, <1>11 DEF RunInv, procVars

LEMMA ShutdownFailsRuns ==
  ASSUME TeamInv, RunInv, ShutdownFails
  PROVE  RunInv' /\ Keeps(lead, lead')
<1>1. /\ lead \in Lead /\ Steady(lead) /\ Closing(lead) /\ UNCHANGED procVars /\ lead.stopping
      /\ \A n \in Mates : proc[n] \in {"none", "exited"}
  BY DEF TeamInv, LeadOk, RunInv, ShutdownFails
<1>2. lead' = [lead EXCEPT !.stopping = FALSE]
  BY DEF ShutdownFails
<1>3. /\ lead'.task = lead.task /\ lead'.requested = lead.requested /\ lead'.record = lead.record
      /\ lead'.running = lead.running /\ lead'.lease = lead.lease /\ lead'.sent = lead.sent
      /\ lead'.status = lead.status /\ lead'.closing = lead.closing /\ lead.closing /\ ~lead'.stopping
      /\ lead'.byHand = lead.byHand
  BY <1>1, <1>2 DEF Lead, Closing
<1>4. Steady(lead')
  <2>1. \A t \in Tasks : Tracked(lead', t)
    BY <1>1, <1>3 DEF Steady, Tracked, Busy
  <2>2. Single(lead') /\ \A n \in Mates : Spare(lead', n)
    BY <1>1, <1>3 DEF Steady, Single, Spare, Busy
  <2>3. \A n \in Mates : Orders(lead', n, lead'.sent[n])
    BY <1>1, <1>3 DEF Steady, Orders, IsIn, Busy, IsLate
  <2> QED
    BY <2>1, <2>2, <2>3 DEF Steady
<1>5. Closing(lead')
  BY <1>1, <1>3 DEF Closing, Busy
<1>6. \A n \in Mates : MateRuns(lead', n, proc[n], up[n], active[n])
  BY <1>1, <1>3 DEF RunInv, MateRuns, Ends, IsIn, Busy, IsLate
<1>7. Keeps(lead, lead')
  BY <1>3 DEF Keeps
<1> QED
  BY <1>1, <1>4, <1>5, <1>6, <1>7 DEF RunInv, procVars

LEMMA GoneRuns ==
  ASSUME TeamInv, RunInv, NEW n \in Mates, Kill(n) \/ Crash(n)
  PROVE  RunInv' /\ lead' = lead
<1>1. proc' = [proc EXCEPT ![n] = "exited"] /\ UNCHANGED <<lead, up, active>>
  BY DEF Kill, Crash
<1>2. ASSUME NEW m \in Mates PROVE MateRuns(lead, m, proc'[m], up[m], active[m])
  <2>1. MateRuns(lead, m, proc[m], up[m], active[m]) /\ proc'[m] \in {proc[m], "exited"}
    BY <1>1 DEF RunInv, TeamInv, MatesTyped
  <2> QED
    BY <2>1 DEF MateRuns
<1> QED
  BY <1>1, <1>2 DEF RunInv

-----------------------------------------------------------------------------
(* The lead reads a line, or hears that a process is gone. *)

\* What RequestKept says of a step.
Fulfils(s, z) ==
  \A t \in Tasks : s.task[t].cancel /\ ~z.task[t].cancel /\ ~s.closing
    => \/ z.task[t].status = s.requested[t]
       \/ s.requested[t] = "pending" /\ z.task[t].try = s.task[t].try + 1

LEMMA TakenRuns ==
  ASSUME TeamInv, NEW n \in Mates, up[n] # <<>>, Taken(n)
  PROVE  /\ UNCHANGED <<proc, active>> /\ \A m \in Mates : NoNews(up[m], up'[m])
         /\ Head(up[n]) \in ToSet(up[n]) /\ \A y \in ToSet(up'[n]) : y \in ToSet(up[n]) /\ Before(up[n], Head(up[n]), y)
<1>1. up \in [Mates -> Seq(MateMsg)] /\ up' = [up EXCEPT ![n] = Tail(up[n])]
  BY DEF TeamInv, MatesTyped, Taken
<1>2. up'[n] = Tail(up[n]) /\ up[n] \in Seq(MateMsg)
  BY <1>1
<1>3. /\ ToSet(up[n]) = {Head(up[n])} \union ToSet(up'[n])
      /\ \A x, y : Before(up[n], x, y) <=> Before(up'[n], x, y) \/ (x = Head(up[n]) /\ y \in ToSet(up'[n]))
  <2> DEFINE w == up[n]
             rest == Tail(w)
             first == Head(w)
  <2>1. /\ ToSet(w) = {first} \union ToSet(rest)
        /\ \A x, y : Before(w, x, y) <=> Before(rest, x, y) \/ (x = first /\ y \in ToSet(rest))
    BY <1>2, TailFacts
  <2>2. up'[n] = rest
    BY <1>2
  <2> HIDE DEF w, rest, first
  <2>3. /\ ToSet(w) = {first} \union ToSet(up'[n])
        /\ \A x, y : Before(w, x, y) <=> Before(up'[n], x, y) \/ (x = first /\ y \in ToSet(up'[n]))
    BY <2>1, <2>2
  <2> QED
    BY <2>3 DEF w, first
<1>4. ASSUME NEW m \in Mates PROVE NoNews(up[m], up'[m])
  <2>1. CASE m = n
    BY <1>3, <2>1 DEF NoNews
  <2>2. CASE m # n
    BY <1>1, <2>2 DEF NoNews
  <2> QED
    BY <2>1, <2>2
<1> QED
  BY <1>3, <1>4 DEF Taken

\* Only the status of a teammate changes; one that is to be given work has no task.
LEMMA StatusRuns ==
  ASSUME LeadOk(lead), Steady(lead), Closing(lead), NEW n \in Mates,
         NEW st \in {"none", "spawning", "idle", "working", "shutdown"},
         st = "idle" => \A t \in Tasks : ~(Busy(lead, t) /\ lead.task[t].owner = n), st # "spawning",
         NEW z, z = [lead EXCEPT !.status[n] = st]
  PROVE  LeadOk(z) /\ Advance(lead, z)
<1>1. lead \in Lead
  BY DEF LeadOk
<1>2. LeadOk(z)
  BY StatusOk
<1>3. /\ z.task = lead.task /\ z.requested = lead.requested /\ z.record = lead.record /\ z.running = lead.running
      /\ z.lease = lead.lease /\ z.sent = lead.sent /\ z.closing = lead.closing /\ z.stopping = lead.stopping
      /\ z.byHand = lead.byHand /\ z.status[n] = st /\ \A m \in Mates \ {n} : z.status[m] = lead.status[m]
  BY <1>1 DEF Lead
<1>4. SameWork(lead, z)
  BY <1>3 DEF SameWork, Busy
<1>5. \A m \in Mates : Spare(z, m)
  BY <1>3 DEF Steady, Spare, Busy
<1>7. \A m \in Mates : Orders(lead, m, z.sent[m])
  BY <1>3 DEF Steady
<1>8. Advance(lead, z)
  BY <1>3, <1>4, <1>5, <1>7, SameWorkAdvances
<1> QED
  BY <1>2, <1>8

LEMMA OnStatusRuns ==
  ASSUME TeamInv, RunInv, NEW n \in Mates, OnReady(n) \/ OnIdle(n) \/ OnShutdownAck(n)
  PROVE  RunInv' /\ Keeps(lead, lead')
<1> DEFINE idle == [lead EXCEPT !.status[n] = "idle"]
           down == [lead EXCEPT !.status[n] = "shutdown"]
<1>1. LeadOk(lead) /\ lead \in Lead /\ up[n] # <<>> /\ Taken(n) /\ Steady(lead) /\ Closing(lead)
  <2>1. PICK kind : Line(n, kind)
    BY DEF OnReady, OnIdle, OnShutdownAck
  <2> QED
    BY <2>1, LineFacts DEF OnReady, OnIdle, OnShutdownAck, RunInv
<1>2. \/ lead' = lead
      \/ lead' = down
      \/ lead' = TryAssign(idle) /\ \A t \in Tasks : ~(Busy(lead, t) /\ lead.task[t].owner = n)
  <2>1. CASE OnReady(n)
    BY <1>1, <2>1 DEF OnReady, Steady, Spare
  <2>2. CASE OnIdle(n)
    BY <1>1, <2>2 DEF OnIdle, Steady, Tracked
  <2>3. CASE OnShutdownAck(n)
    BY <2>3 DEF OnShutdownAck
  <2> QED
    BY <2>1, <2>2, <2>3
<1>3. LeadOk(down) /\ Advance(lead, down)
  <2>1. down = [lead EXCEPT !.status[n] = "shutdown"]
    OBVIOUS
  <2> HIDE DEF down
  <2> QED
    BY <1>1, <2>1, StatusRuns
<1>4. Advance(lead, lead)
  <2>1. SameWork(lead, lead)
    BY DEF SameWork
  <2>2. \A m \in Mates : Spare(lead, m) /\ Orders(lead, m, lead.sent[m])
    BY <1>1 DEF Steady
  <2> QED
    BY <1>1, <2>1, <2>2, SameWorkAdvances
<1>5. ASSUME \A t \in Tasks : ~(Busy(lead, t) /\ lead.task[t].owner = n), lead' = TryAssign(idle)
      PROVE  LeadOk(lead') /\ Advance(lead, lead')
  <2>1. idle = [lead EXCEPT !.status[n] = "idle"]
    OBVIOUS
  <2> HIDE DEF idle
  <2>2. LeadOk(idle) /\ Advance(lead, idle)
    BY <1>1, <1>5, <2>1, StatusRuns
  <2>3. lead' \in Lead /\ SameTeam(idle, lead') /\ Advance(idle, lead')
    BY <1>5, <2>2, TryAssignRuns DEF Advance
  <2>4. LeadOk(lead')
    BY <1>5, <2>2, TryAssignOk
  <2>5. Advance(lead, lead')
    BY <2>2, <2>3, AdvanceOn DEF SameTeam
  <2> QED
    BY <2>4, <2>5
<1> HIDE DEF down, idle
<1>6. LeadOk(lead') /\ Advance(lead, lead')
  BY <1>1, <1>2, <1>3, <1>4, <1>5
<1>7. UNCHANGED <<proc, active>> /\ \A m \in Mates : NoNews(up[m], up'[m])
  BY <1>1, TakenRuns
<1> QED
  BY <1>6, <1>7, LeadRuns

\* The run that ends was the only one of the teammate, and it executes none any more.
LEMMA RunEnds ==
  ASSUME TeamInv, RunInv, NEW n \in Mates, NEW run \in Runs, NEW st \in Terminal, Update(run, st) \in ToSet(up[n])
  PROVE  /\ IsIn(lead, n, run) /\ active[n] = None /\ \A q \in Runs : Asg(q) \notin ToSet(lead.sent[n])
         /\ \A t \in Tasks : Busy(lead, t) /\ lead.task[t].owner = n => t = run.task
<1>1. /\ MateRuns(lead, n, proc[n], up[n], active[n]) /\ Steady(lead) /\ active[n] \in Runs \union {None}
      /\ Ends(lead, n, up[n], active[n]) /\ Orders(lead, n, lead.sent[n])
  BY DEF RunInv, TeamInv, MatesTyped, MateRuns, Steady
<1>2. IsIn(lead, n, run) /\ active[n] # run /\ Asg(run) \notin ToSet(lead.sent[n])
  BY <1>1 DEF Ends
<1>3. \A q \in Runs : IsIn(lead, n, q) => q = run
  BY <1>1, <1>2, OneRun
<1>4. active[n] = None
  BY <1>1, <1>2, <1>3 DEF MateRuns
<1>5. \A q \in Runs : Asg(q) \notin ToSet(lead.sent[n])
  BY <1>1, <1>2, <1>3 DEF Orders
<1>6. \A t \in Tasks : Busy(lead, t) /\ lead.task[t].owner = n => t = run.task
  BY <1>1, <1>2, RunFacts DEF Steady, Single, IsIn
<1> QED
  BY <1>2, <1>4, <1>5, <1>6

\* The lead takes note of the end of a run.
RunEnd(s, n, run, st) ==
  [Settle(s, {run.task}, st, [t \in Tasks |-> Asked(s, t)]) EXCEPT !.status[n] = "idle"]

LEMMA RunEndsRuns ==
  ASSUME TeamInv, RunInv, NEW n \in Mates, up[n] # <<>>, Taken(n), NEW run \in Runs, NEW st \in Terminal,
         Head(up[n]) = Update(run, st),
         lead' = RunEnd(lead, n, run, st), LeadOk(lead')
  PROVE  RunInv' /\ Fulfils(lead, lead')
<1> DEFINE asked == [t \in Tasks |-> Asked(lead, t)]
           S == {run.task}
           s == Settle(lead, S, st, asked)
<1>0. s = Settle(lead, S, st, asked) /\ lead' = [s EXCEPT !.status[n] = "idle"] /\ \A t \in Tasks : asked[t] = Asked(lead, t)
  BY DEF RunEnd
<1>1. /\ lead \in Lead /\ TasksOk(lead) /\ Steady(lead) /\ Closing(lead) /\ MatesTyped
      /\ run.task \in Tasks /\ S \in SUBSET Tasks
  BY RunFacts DEF TeamInv, LeadOk, RunInv
<1>2. asked \in [Tasks -> Requestable] /\ \A t \in S : lead.task[t].cancel /\ asked[t] = "pending" => lead.task[t].try < MaxTries
  BY <1>1, AskedFacts
<1>s. \A t : t \in S <=> t = run.task
  OBVIOUS
<1> HIDE DEF asked, s, S
<1>3. /\ s \in Lead /\ SameTeam(lead, s) /\ s.status = lead.status /\ s.sent = lead.sent /\ s.byHand = lead.byHand
      /\ Settled(lead, s, S, st, asked)
  BY <1>0, <1>1, <1>2, SettleFacts
<1>4. /\ lead'.task = s.task /\ lead'.requested = s.requested /\ lead'.record = s.record /\ lead'.running = s.running
      /\ lead'.lease = lead.lease /\ lead'.sent = lead.sent /\ lead'.closing = lead.closing /\ lead'.stopping = lead.stopping
      /\ lead'.byHand = lead.byHand /\ lead'.status[n] = "idle" /\ \A m \in Mates \ {n} : lead'.status[m] = lead.status[m]
  BY <1>0, <1>3 DEF Lead, SameTeam
<1>a. AllEnded(lead, s, S)
  <2>1. RunsOf(lead, s, S)
    BY <1>1, <1>3, <1>s DEF Steady, Tracked, SameTeam, RunsOf
  <2> QED
    BY <1>1, <1>2, <1>3, <2>1, SettleRuns
<1>5. \A t \in Tasks :
        /\ Tracked(s, t) /\ s.task[t].try = lead.task[t].try
        /\ Busy(s, t) <=> Busy(lead, t) /\ t \notin S
        /\ t \notin S => s.task[t] = lead.task[t]
  BY <1>a DEF AllEnded
<1>6. /\ IsIn(lead, n, run) /\ active[n] = None /\ \A q \in Runs : Asg(q) \notin ToSet(lead.sent[n])
      /\ \A t \in Tasks : Busy(lead, t) /\ lead.task[t].owner = n => t \in S
  <2>1. Update(run, st) \in ToSet(up[n])
    BY TakenRuns
  <2> QED
    BY <1>s, <2>1, RunEnds
<1>7. ASSUME NEW t \in Tasks, Busy(lead', t)
      PROVE  Busy(lead, t) /\ lead'.task[t] = lead.task[t] /\ t \notin S /\ lead.task[t].owner # n
  BY <1>4, <1>5, <1>6, <1>7 DEF Busy
<1>8. \A t \in Tasks : Tracked(lead', t)
  BY <1>3, <1>4, <1>5 DEF Tracked, Busy, SameTeam
<1>9. Single(lead') /\ \A m \in Mates : Spare(lead', m)
  BY <1>1, <1>4, <1>7 DEF Steady, Single, Spare
<1>10. ASSUME NEW m \in Mates \ {n}, NEW q \in Runs, IsIn(lead, m, q) PROVE IsIn(lead', m, q)
  <2>1. q.task \in Tasks /\ q.task \notin S
    BY <1>6, <1>s, <1>10, RunFacts DEF IsIn
  <2>2. lead'.task[q.task] = lead.task[q.task] /\ (Busy(lead', q.task) <=> Busy(lead, q.task))
    BY <1>4, <1>5, <2>1 DEF Busy
  <2> QED
    BY <1>10, <2>2 DEF IsIn
<1>11. ASSUME NEW m \in Mates PROVE Orders(lead', m, lead'.sent[m])
  <2>1. Orders(lead, m, lead.sent[m])
    BY <1>1 DEF Steady
  <2>2. CASE m = n
    BY <1>4, <1>6, <2>1, <2>2 DEF Orders, IsLate
  <2>3. CASE m # n
    BY <1>4, <1>10, <2>1, <2>3, OrdersStay
  <2> QED
    BY <2>2, <2>3
<1>12. Closing(lead')
  BY <1>1, <1>4, <1>7 DEF Closing
<1>13. Closes(lead, lead')
  BY <1>4 DEF Closes, IsLate
<1>14. /\ UNCHANGED <<proc, active>> /\ \A m \in Mates : NoNews(up[m], up'[m])
       /\ Head(up[n]) \in ToSet(up[n]) /\ \A y \in ToSet(up'[n]) : y \in ToSet(up[n]) /\ Before(up[n], Head(up[n]), y)
  BY TakenRuns
<1>15. ASSUME NEW m \in Mates PROVE MateRuns(lead', m, proc[m], up'[m], active[m])
  <2>1. MateRuns(lead, m, proc[m], up[m], active[m]) /\ active[m] \in Runs \union {None}
    BY <1>1 DEF RunInv, MatesTyped
  <2>2. CASE m = n
    <3>1. /\ proc[n] = "closing" => lead'.closing /\ \A x \in ToSet(lead'.sent[n]) : IsLate(lead', x)
          /\ proc[n] \in {"live", "closing"} /\ lead'.closing => lead'.stopping
      BY <1>4, <2>1, <2>2 DEF MateRuns, IsLate
    <3>2. ASSUME NEW q \in Runs, NEW x \in Terminal PROVE Update(q, x) \notin ToSet(up'[n])
      BY <1>14, <2>1, <2>2 DEF MateRuns, Ends
    <3>3. Ends(lead', n, up'[n], active[n])
      BY <1>14, <2>1, <2>2, <3>2 DEF MateRuns, Ends, NoNews
    <3> QED
      BY <1>6, <2>2, <3>1, <3>3 DEF MateRuns
  <2>3. CASE m # n
    <3>1. Carries(lead, lead', m)
      BY <1>4, <1>10, <2>3 DEF Carries
    <3> QED
      BY <1>13, <1>14, <2>1, <3>1, MateFollows
  <2> QED
    BY <2>2, <2>3
<1>17. Fulfils(lead, lead')
  <2>1. ASSUME NEW t \in Tasks, lead.task[t].cancel, ~lead'.task[t].cancel PROVE lead'.task[t].status = lead.requested[t]
    <3>1. t \in S
      BY <1>4, <1>5, <2>1
    <3>2. Asked(lead, t) = lead.requested[t]
      <4>1. Tracked(lead, t)
        BY <1>1 DEF Steady
      <4> QED
        BY <2>1, <4>1 DEF Asked, Tracked
    <3>3. lead'.task[t] = WithStatus(lead.task[t], asked[t]) /\ asked[t] = lead.requested[t] /\ asked[t] \in Requestable
      BY <1>0, <1>2, <1>3, <1>4, <2>1, <3>1, <3>2 DEF Settled
    <3>4. lead.task[t] \in Task
      BY <1>1, LeadFields
    <3> QED
      BY <3>3, <3>4, StatusFacts
  <2> QED
    BY <2>1 DEF Fulfils
<1>18. Steady(lead')
  BY <1>8, <1>9, <1>11 DEF Steady
<1> QED
  BY <1>12, <1>14, <1>15, <1>17, <1>18 DEF RunInv

LEMMA OnTaskUpdateRuns ==
  ASSUME TeamInv, RunInv, NEW n \in Mates, OnTaskUpdate(n)
  PROVE  RunInv' /\ (Keeps(lead, lead') \/ Fulfils(lead, lead'))
<1> DEFINE m == Head(up[n])
           working == [lead EXCEPT !.status[n] = "working"]
<1>1. /\ LeadOk(lead) /\ lead \in Lead /\ up[n] # <<>> /\ Taken(n) /\ m \in MateMsg /\ m.kind = "update"
      /\ Steady(lead) /\ Closing(lead)
  <2>1. Line(n, "update") /\ Taken(n)
    BY DEF OnTaskUpdate
  <2> QED
    BY <2>1, LineFacts DEF RunInv
<1>2. m.run \in Runs /\ m.status \in Terminal \union {"in_progress"} /\ m = Update(m.run, m.status)
  BY <1>1, UpLines
<1>3. m.status \in Terminal => Current(n, m.run)
  <2>1. Update(m.run, m.status) \in ToSet(up[n])
    BY <1>1, <1>2, TakenRuns
  <2>2. m.status \in Terminal => IsIn(lead, n, m.run)
    BY <1>2, <2>1, RunEnds
  <2> QED
    BY <1>1, <1>2, <2>2, RunFacts DEF Current, IsIn, Steady, Tracked
<1>4. CASE m.status \in Terminal
  <2>1. lead' = RunEnd(lead, n, m.run, m.status)
    BY <1>2, <1>3, <1>4, NoneApart DEF OnTaskUpdate, RunEnd
  <2> HIDE DEF m
  <2>2. Head(up[n]) = Update(m.run, m.status)
    BY <1>2 DEF m
  <2>3. LeadOk(lead')
    BY OnTaskUpdateTyped DEF TeamInv
  <2> QED
    BY <1>1, <1>2, <1>4, <2>1, <2>2, <2>3, RunEndsRuns
<1>5. CASE m.status = "in_progress"
  <2>1. lead' \in {lead, working}
    BY <1>5 DEF OnTaskUpdate
  <2>2. LeadOk(working) /\ Advance(lead, working)
    <3>1. working = [lead EXCEPT !.status[n] = "working"]
      OBVIOUS
    <3> HIDE DEF working
    <3> QED
      BY <1>1, <3>1, StatusRuns
  <2>3. Advance(lead, lead)
    <3>1. SameWork(lead, lead)
      BY DEF SameWork
    <3>2. \A k \in Mates : Spare(lead, k) /\ Orders(lead, k, lead.sent[k])
      BY <1>1 DEF Steady
    <3> QED
      BY <1>1, <3>1, <3>2, SameWorkAdvances
  <2> HIDE DEF working, m
  <2>4. LeadOk(lead') /\ Advance(lead, lead')
    BY <1>1, <2>1, <2>2, <2>3
  <2>5. UNCHANGED <<proc, active>> /\ \A k \in Mates : NoNews(up[k], up'[k])
    BY <1>1, TakenRuns
  <2> QED
    BY <2>4, <2>5, LeadRuns
<1> QED
  BY <1>2, <1>4, <1>5

\* Only nested threads and lines on the way change.
SameTasks(s, z) ==
  /\ z.task = s.task /\ z.requested = s.requested /\ z.record = s.record /\ z.running = s.running
  /\ z.status = s.status /\ z.lease = s.lease /\ z.closing = s.closing /\ z.stopping = s.stopping
  /\ z.byHand = s.byHand

LEMMA SameTasksAdvance ==
  ASSUME NEW s, NEW z, Steady(s), Closing(s), SameTasks(s, z),
         \A n \in Mates : Orders(s, n, z.sent[n]),
         \A n \in Mates : \A m \in ToSet(z.sent[n]) : m \in ToSet(s.sent[n]) \/ m.kind = "result"
  PROVE  Advance(s, z)
<1>1. SameWork(s, z)
  BY DEF SameWork, SameTasks, Busy
<1>2. \A n \in Mates : Spare(z, n)
  BY DEF Steady, Spare, SameTasks, Busy
<1> QED
  BY <1>1, <1>2, SameWorkAdvances DEF SameTasks

LEMMA OnThreadsRuns ==
  ASSUME TeamInv, RunInv, NEW n \in Mates, OnThreadAcquire(n) \/ OnThreadRelease(n)
  PROVE  RunInv' /\ Keeps(lead, lead')
<1>1. /\ lead \in Lead /\ up[n] # <<>> /\ Taken(n) /\ Steady(lead) /\ Closing(lead)
  BY DEF TeamInv, LeadOk, RunInv, OnThreadAcquire, OnThreadRelease, Line
<1>2. LeadOk(lead') /\ lead' \in Lead
  BY AcquireFacts, ReleaseFacts DEF LeadOk
<1>3. SameTasks(lead, lead')
  <2>1. CASE OnThreadAcquire(n)
    BY <1>1, <2>1 DEF OnThreadAcquire, Write, Lead, SameTasks
  <2>2. CASE OnThreadRelease(n)
    BY <1>1, <2>2 DEF OnThreadRelease, Lead, SameTasks
  <2> QED
    BY <2>1, <2>2
<1>4. ASSUME NEW k \in Mates
      PROVE  /\ Orders(lead, k, lead'.sent[k])
             /\ \A m \in ToSet(lead'.sent[k]) : m \in ToSet(lead.sent[k]) \/ m.kind = "result"
  <2>0. Orders(lead, k, lead.sent[k]) /\ lead.sent[k] \in Seq(LeadMsg)
    BY <1>1, LeadFields DEF Steady
  <2>1. CASE lead'.sent[k] = lead.sent[k]
    BY <2>0, <2>1
  <2>2. CASE \E m \in LeadMsg : m.kind = "result" /\ lead'.sent[k] = Append(lead.sent[k], m)
    <3>1. PICK m \in LeadMsg : m.kind = "result" /\ lead'.sent[k] = Append(lead.sent[k], m)
      BY <2>2
    <3>2. <<m>> \in Seq(LeadMsg) /\ MayFollow(lead, k, lead.sent[k], <<m>>)
      BY <3>1, OneMayFollow DEF IsLate
    <3>3. Orders(lead, k, lead.sent[k] \o <<m>>)
      BY <2>0, <3>2, OrdersCome
    <3>4. Append(lead.sent[k], m) = lead.sent[k] \o <<m>>
      BY <2>0, AppendIsConcat
    <3>5. ToSet(Append(lead.sent[k], m)) = ToSet(lead.sent[k]) \union {m}
      BY <2>0, AppendFacts
    <3> QED
      BY <3>1, <3>3, <3>4, <3>5
  <2>3. lead'.sent[k] = lead.sent[k] \/ \E m \in LeadMsg : m.kind = "result" /\ lead'.sent[k] = Append(lead.sent[k], m)
    <3>1. CASE OnThreadRelease(n)
      BY <3>1, ReleaseFacts
    <3>2. CASE OnThreadAcquire(n)
      <4>1. PICK r \in Requests, ok \in BOOLEAN :
              /\ lead'.sent[n] = Append(lead.sent[n], [kind |-> "result", req |-> r, ok |-> ok])
              /\ \A m \in Mates \ {n} : lead'.sent[m] = lead.sent[m]
        BY <3>2, AcquireFacts
      <4> DEFINE m == [kind |-> "result", req |-> r, ok |-> ok]
      <4>2. m \in LeadMsg /\ m.kind = "result"
        BY DEF LeadMsg
      <4> HIDE DEF m
      <4>3. k = n => lead'.sent[k] = Append(lead.sent[k], m)
        BY <4>1 DEF m
      <4> QED
        BY <4>1, <4>2, <4>3
    <3> QED
      BY <3>1, <3>2
  <2> QED
    BY <2>1, <2>2, <2>3
<1>5. Advance(lead, lead')
  BY <1>1, <1>2, <1>3, <1>4, SameTasksAdvance
<1>6. UNCHANGED <<proc, active>> /\ \A m \in Mates : NoNews(up[m], up'[m])
  BY <1>1, TakenRuns
<1> QED
  BY <1>2, <1>5, <1>6, LeadRuns

\* What the exit of n leaves: its tasks have ended, the others are as they were.
LEMMA ExitedRuns ==
  ASSUME NEW s, s \in Lead, TasksOk(s), Steady(s), Closing(s), NEW n \in Mates, NEW z, z = Exited(s, n)
  PROVE  /\ z \in Lead /\ Steady(z) /\ Closing(z) /\ Closes(s, z)
         /\ \A m \in Mates \ {n} : Carries(s, z, m)
<1> DEFINE S == RunsOn(s, n)
           own == ExitOutcome(s)
           asked == ExitAsked(s)
<1>1. /\ z \in Lead /\ z.closing = s.closing /\ z.stopping = s.stopping /\ z.byHand = s.byHand
      /\ ~z.lease[n] /\ z.status[n] = "shutdown" /\ z.sent[n] = <<>>
      /\ \A m \in Mates \ {n} : z.status[m] = s.status[m] /\ z.sent[m] = s.sent[m] /\ z.lease[m] = s.lease[m]
      /\ Settled(s, z, S, own, asked)
  BY ExitFacts DEF Forgotten, SameMate
<1>2. S \in SUBSET Tasks /\ \A t \in Tasks : t \in S <=> s.task[t].status = "in_progress" /\ s.task[t].owner = n
  BY DEF RunsOn
<1>3. own \in Terminal /\ asked \in [Tasks -> Requestable]
      /\ \A t \in Tasks : asked[t] = IF s.closing THEN "cancelled" ELSE Asked(s, t)
  <2>1. \A t \in Tasks : Asked(s, t) \in Requestable
    BY AskedFacts
  <2> QED
    BY <2>1, NoneApart DEF ExitOutcome, ExitAsked
<1> HIDE DEF S, own, asked
<1>4. AllEnded(s, z, S)
  <2>1. ASSUME NEW t \in Tasks \ S, Busy(s, t) \/ s.task[t].cancel PROVE z.lease[s.task[t].owner]
    <3>1. Tracked(s, t) /\ s.task[t].owner # n
      BY <1>2, <2>1 DEF Steady, Tracked, TasksOk, TaskOk
    <3> QED
      BY <1>1, <2>1, <3>1 DEF Tracked
  <2>2. RunsOf(s, z, S)
    BY <1>2, <2>1 DEF RunsOf
  <2> QED
    BY <1>1, <1>2, <1>3, <2>2, SettleRuns
<1>5. \A t \in Tasks : Busy(z, t) => Busy(s, t) /\ z.task[t] = s.task[t] /\ s.task[t].owner # n
  BY <1>2, <1>4 DEF AllEnded, Steady, Tracked
<1>6. Single(z)
  BY <1>5 DEF Steady, Single
<1>7. \A m \in Mates : Spare(z, m)
  BY <1>1, <1>5 DEF Steady, Spare
<1>8. ASSUME NEW m \in Mates \ {n}, NEW q \in Runs, IsIn(s, m, q) PROVE IsIn(z, m, q)
  <2>1. q.task \in Tasks /\ q.task \notin S
    BY <1>2, <1>8, RunFacts DEF IsIn
  <2>2. z.task[q.task] = s.task[q.task] /\ (Busy(z, q.task) <=> Busy(s, q.task))
    BY <1>4, <2>1 DEF AllEnded
  <2> QED
    BY <1>8, <2>2 DEF IsIn
<1>9. ASSUME NEW m \in Mates PROVE Orders(z, m, z.sent[m])
  <2>1. CASE m = n
    BY <1>1, <2>1, NothingSent
  <2>2. CASE m # n
    <3>1. Orders(s, m, s.sent[m]) /\ z.sent[m] = s.sent[m]
      BY <1>1, <2>2 DEF Steady
    <3> QED
      BY <1>1, <1>8, <2>2, <3>1, OrdersStay
  <2> QED
    BY <2>1, <2>2
<1>10. Steady(z)
  BY <1>4, <1>6, <1>7, <1>9 DEF Steady, AllEnded
<1>11. ToSet(<<>>) = {}
  BY DEF ToSet
<1>12. \A m \in Mates : \A x \in ToSet(z.sent[m]) : x \in ToSet(s.sent[m])
  BY <1>1, <1>11
<1>13. Closing(z)
  BY <1>1, <1>5, <1>12 DEF Closing
<1>14. Closes(s, z)
  BY <1>1, <1>12 DEF Closes
<1>15. \A m \in Mates \ {n} : Carries(s, z, m)
  BY <1>8, <1>12 DEF Carries
<1> QED
  BY <1>1, <1>10, <1>13, <1>14, <1>15

LEMMA OnExitRuns ==
  ASSUME TeamInv, RunInv, NEW n \in Mates, OnExit(n)
  PROVE  RunInv' /\ Fulfils(lead, lead')
<1> DEFINE y == Exited(lead, n)
<1>1. /\ lead \in Lead /\ TasksOk(lead) /\ Steady(lead) /\ Closing(lead) /\ MatesTyped
      /\ LeadOk(y) /\ lead' = TryAssign(y) /\ y = Exited(lead, n)
  BY OnExitFacts DEF TeamInv, LeadOk, RunInv, OnExit
<1> HIDE DEF y
<1>2. /\ y \in Lead /\ Steady(y) /\ Closing(y) /\ Closes(lead, y)
      /\ \A m \in Mates \ {n} : Carries(lead, y, m)
  BY <1>1, ExitedRuns
<1>3. lead' \in Lead /\ SameTeam(y, lead') /\ Advance(y, lead')
  BY <1>1, <1>2, TryAssignRuns
<1>4. Closes(lead, lead')
  BY <1>2, <1>3, ClosesOn DEF Advance, SameTeam
<1>5. ASSUME NEW m \in Mates PROVE MateRuns(lead', m, proc'[m], up'[m], active'[m])
  <2>1. CASE m = n
    <3>1. proc'[n] = "none" /\ up'[n] = <<>> /\ active'[n] = None
      BY <1>1 DEF MatesTyped, OnExit
    <3> QED
      BY <2>1, <3>1, GoneMate
  <2>2. CASE m # n
    <3>1. proc'[m] = proc[m] /\ up'[m] = up[m] /\ active'[m] = active[m] /\ active[m] \in Runs \union {None}
      BY <1>1, <2>2 DEF MatesTyped, OnExit
    <3>2. Carries(lead, lead', m)
      BY <1>2, <1>3, <2>2, CarriesOn DEF Advance
    <3>3. MateRuns(lead, m, proc[m], up[m], active[m]) /\ NoNews(up[m], up'[m])
      BY <3>1 DEF RunInv, NoNews
    <3> QED
      BY <1>4, <3>1, <3>2, <3>3, MateFollows
  <2> QED
    BY <2>1, <2>2
<1>6. ASSUME NEW t \in Tasks, lead.task[t].cancel, ~lead'.task[t].cancel, ~lead.closing
      PROVE  \/ lead'.task[t].status = lead.requested[t]
             \/ lead.requested[t] = "pending" /\ lead'.task[t].try = lead.task[t].try + 1
  <2>1. ~y.task[t].cancel
    BY <1>3, <1>6 DEF Advance, Keeps
  <2>2. y.task[t].status = lead.requested[t] /\ y.task[t].try = lead.task[t].try
    <3>1. Settled(lead, y, RunsOn(lead, n), ExitOutcome(lead), ExitAsked(lead))
      BY <1>1, ExitFacts
    <3>2. t \in RunsOn(lead, n)
      BY <1>6, <2>1, <3>1 DEF Settled, SameTask
    <3>3. y.task[t] = WithStatus(lead.task[t], ExitAsked(lead)[t])
      BY <1>6, <3>1, <3>2 DEF Settled
    <3>4. ExitAsked(lead)[t] = lead.requested[t] /\ ExitAsked(lead)[t] \in Requestable
      <4>1. Tracked(lead, t)
        BY <1>1 DEF Steady
      <4>2. Asked(lead, t) = lead.requested[t]
        BY <1>6, <4>1 DEF Asked, Tracked
      <4>3. lead.requested[t] \in Requestable
        BY <1>1, <1>6, <4>1, LeadFields DEF Tracked
      <4> QED
        BY <1>6, <4>2, <4>3 DEF ExitAsked
    <3>5. lead.task[t] \in Task
      BY <1>1, LeadFields
    <3> HIDE DEF ExitAsked
    <3> QED
      BY <3>3, <3>4, <3>5, StatusFacts
  <2>3. SameTask(y, lead', t) \/ \E m \in Mates : Gives(y, lead', t, m)
    BY <1>1, TryAssignFacts DEF LeadOk
  <2>4. CASE SameTask(y, lead', t)
    BY <2>2, <2>4 DEF SameTask
  <2>5. ASSUME NEW m \in Mates, Gives(y, lead', t, m)
        PROVE  lead.requested[t] = "pending" /\ lead'.task[t].try = lead.task[t].try + 1
    <3>1. y.task[t].status = "pending" /\ y.task[t] \in Task
      BY <1>2, <2>5, LeadFields DEF Gives
    <3>2. lead'.task[t] = [y.task[t] EXCEPT !.status = "in_progress", !.owner = m, !.try = y.task[t].try + 1]
      BY <2>5 DEF Gives
    <3>3. lead'.task[t].try = y.task[t].try + 1
      BY <3>1, <3>2 DEF Task
    <3> QED
      BY <2>2, <3>1, <3>3
  <2> QED
    BY <2>3, <2>4, <2>5
<1>7. Fulfils(lead, lead')
  BY <1>6 DEF Fulfils
<1> QED
  BY <1>3, <1>5, <1>7 DEF RunInv, Advance

-----------------------------------------------------------------------------
(* Steps of the processes. *)

\* A process takes the first line; of the rest of the system only its own part may change.
LEMMA HeardRuns ==
  ASSUME TeamInv, RunInv, NEW n \in Mates, lead.sent[n] # <<>>, Heard(n)
  PROVE  /\ Advance(lead, lead') /\ lead \in Lead /\ lead' \in Lead /\ SameTasks(lead, lead')
         /\ lead'.sent[n] = Tail(lead.sent[n])
         /\ lead.sent[n] \in Seq(LeadMsg) /\ Head(lead.sent[n]) \in LeadMsg
<1>1. /\ LeadOk(lead') /\ lead.sent[n] \in Seq(LeadMsg) /\ Head(lead.sent[n]) \in LeadMsg
      /\ lead'.sent[n] = Tail(lead.sent[n]) /\ \A m \in Mates \ {n} : lead'.sent[m] = lead.sent[m]
  BY HeardOk
<1>2. lead \in Lead /\ lead' \in Lead /\ Steady(lead) /\ Closing(lead)
  BY <1>1 DEF TeamInv, RunInv, LeadOk
<1>3. SameTasks(lead, lead')
  BY <1>2 DEF Heard, Lead, SameTasks
<1>4. Orders(lead, n, lead.sent[n])
  BY <1>2 DEF Steady
<1>5. Orders(lead, n, Tail(lead.sent[n])) /\ ToSet(lead.sent[n]) = {Head(lead.sent[n])} \union ToSet(Tail(lead.sent[n]))
  BY <1>1, <1>4, OrderTaken
<1>6. \A m \in Mates : Orders(lead, m, lead'.sent[m]) /\ ToSet(lead'.sent[m]) \subseteq ToSet(lead.sent[m])
  <2>1. ASSUME NEW m \in Mates
        PROVE  Orders(lead, m, lead'.sent[m]) /\ ToSet(lead'.sent[m]) \subseteq ToSet(lead.sent[m])
    <3>1. CASE m = n
      BY <1>1, <1>5, <3>1
    <3>2. CASE m # n
      BY <1>1, <1>2, <3>2 DEF Steady
    <3> QED
      BY <3>1, <3>2
  <2> QED
    BY <2>1
<1>7. Advance(lead, lead')
  BY <1>2, <1>3, <1>6, SameTasksAdvance
<1> QED
  BY <1>1, <1>2, <1>3, <1>7

\* One process acts: the others see no difference.
LEMMA OneMateRuns ==
  ASSUME TeamInv, RunInv, LeadOk(lead'), Advance(lead, lead'), NEW n \in Mates,
         \A m \in Mates \ {n} : proc'[m] = proc[m] /\ up'[m] = up[m] /\ active'[m] = active[m],
         MateRuns(lead', n, proc'[n], up'[n], active'[n])
  PROVE  RunInv'
<1>1. lead \in Lead /\ lead' \in Lead /\ \A m \in Mates : active[m] \in Runs \union {None}
  BY DEF TeamInv, LeadOk, MatesTyped
<1>2. ASSUME NEW m \in Mates PROVE MateRuns(lead', m, proc'[m], up'[m], active'[m])
  <2>1. CASE m # n
    <3>1. MateRuns(lead, m, proc[m], up[m], active[m]) /\ Carries(lead, lead', m) /\ Closes(lead, lead')
          /\ proc'[m] = proc[m] /\ NoNews(up[m], up'[m]) /\ active'[m] = active[m]
      BY <2>1 DEF RunInv, Advance, NoNews
    <3> QED
      BY <1>1, <3>1, MateFollows
  <2> QED
    BY <2>1
<1> QED
  BY <1>2 DEF RunInv, Advance

LEMMA StandsStill ==
  ASSUME TeamInv, RunInv
  PROVE  LeadOk(lead) /\ Advance(lead, lead)
<1>1. LeadOk(lead) /\ lead \in Lead /\ Steady(lead) /\ Closing(lead)
  BY DEF TeamInv, LeadOk, RunInv
<1>2. SameTasks(lead, lead)
  BY DEF SameTasks
<1>3. \A n \in Mates : Orders(lead, n, lead.sent[n])
  BY <1>1 DEF Steady
<1> QED
  BY <1>1, <1>2, <1>3, SameTasksAdvance

LEMMA UpdatesApart ==
  ASSUME NEW run, NEW st, NEW q, NEW x
  PROVE  Update(run, st) = Update(q, x) => run = q /\ st = x
  BY DEF Update

\* A process that is given a run executes none.
LEMMA OnAssignRuns ==
  ASSUME TeamInv, RunInv, NEW n \in Mates, OnAssign(n)
  PROVE  RunInv' /\ Keeps(lead, lead')
<1> DEFINE run == Head(lead.sent[n]).run
<1>1. /\ proc[n] = "live" /\ lead.sent[n] # <<>> /\ Head(lead.sent[n]).kind = "assign" /\ Heard(n)
      /\ UNCHANGED proc
  BY DEF OnAssign, Order
<1>2. /\ Advance(lead, lead') /\ lead \in Lead /\ lead' \in Lead /\ SameTasks(lead, lead') /\ LeadOk(lead')
      /\ lead'.sent[n] = Tail(lead.sent[n])
      /\ lead.sent[n] \in Seq(LeadMsg) /\ Head(lead.sent[n]) \in LeadMsg
  BY <1>1, HeardRuns, HeardOk
<1>3. run \in Runs /\ Head(lead.sent[n]) = Asg(run)
  BY <1>1, <1>2, DownLines DEF Asg
<1>4. Orders(lead, n, lead.sent[n]) /\ MateRuns(lead, n, proc[n], up[n], active[n])
  BY DEF RunInv, Steady
<1>5. /\ ToSet(lead.sent[n]) = {Asg(run)} \union ToSet(Tail(lead.sent[n]))
      /\ IsIn(lead, n, run) /\ \A q \in Runs : Asg(q) \notin ToSet(Tail(lead.sent[n]))
  BY <1>1, <1>2, <1>3, <1>4, OrderTaken
<1>6. active[n] = None
  BY <1>3, <1>4, <1>5 DEF MateRuns
<1> DEFINE w == <<Update(run, "in_progress")>>
<1>7. active' = [active EXCEPT ![n] = run] /\ Say(n, w)
  BY <1>6 DEF OnAssign
<1> HIDE DEF run
<1>8. Update(run, "in_progress") \in MateMsg
  BY <1>3 DEF Update, MateMsg
<1>9. w \in Seq(MateMsg) /\ ToSet(w) = {Update(run, "in_progress")}
  BY <1>8, ShortFacts
<1> HIDE DEF w
<1>10. /\ up'[n] = up[n] \o w /\ up[n] \in Seq(MateMsg) /\ active'[n] = run
       /\ \A m \in Mates \ {n} : up'[m] = up[m] /\ active'[m] = active[m]
  BY <1>7, <1>9, SayOk DEF TeamInv, MatesTyped
<1>11. ToSet(up'[n]) = ToSet(up[n]) \union {Update(run, "in_progress")}
  BY <1>9, <1>10, ConcatFacts
<1>12. IsIn(lead', n, run) /\ \A q \in Runs : Asg(q) \notin ToSet(lead'.sent[n])
  BY <1>2, <1>5 DEF IsIn, SameTasks, Busy
<1>13. Ends(lead', n, up'[n], run)
  <2>1. \A q, st : st \in Terminal => Update(q, st) # Update(run, "in_progress")
    BY UpdatesApart, NoneApart
  <2>2. Ends(lead, n, up[n], active[n])
    BY <1>4 DEF MateRuns
  <2>3. ASSUME NEW q \in Runs, NEW st \in Terminal, Update(q, st) \in ToSet(up'[n])
        PROVE  IsIn(lead', n, q) /\ run # q /\ Asg(q) \notin ToSet(lead'.sent[n])
    <3>1. IsIn(lead, n, q) /\ Asg(q) \notin ToSet(lead.sent[n])
      BY <1>11, <2>1, <2>2, <2>3 DEF Ends
    <3> QED
      BY <1>2, <1>5, <1>12, <3>1 DEF SameTasks, IsIn, Busy
  <2>4. ASSUME NEW p \in Runs, NEW q \in Runs, NEW st \in Terminal, NEW x \in Terminal
        PROVE  ~Before(up'[n], Update(p, st), Update(q, x))
    <3>1. ~Before(up[n], Update(p, st), Update(q, x))
      BY <2>2 DEF Ends
    <3>2. Update(p, st) \notin ToSet(w) /\ Update(q, x) \notin ToSet(w)
      BY <1>9, <2>1
    <3>3. Before(w, Update(p, st), Update(q, x)) => Update(q, x) \in ToSet(w)
      BY DEF Before, ToSet
    <3> QED
      BY <1>9, <1>10, <3>1, <3>2, <3>3, ConcatFacts
  <2> QED
    BY <2>3, <2>4 DEF Ends
<1>14. MateRuns(lead', n, proc'[n], up'[n], active'[n])
  <2>1. lead'.closing = lead.closing /\ lead'.stopping = lead.stopping /\ proc'[n] = "live"
    BY <1>1, <1>2 DEF SameTasks
  <2>2. lead'.closing => lead'.stopping
    BY <1>1, <1>4, <2>1 DEF MateRuns
  <2>3. MateRuns(lead', n, proc'[n], up'[n], run)
    BY <1>12, <1>13, <2>1, <2>2 DEF MateRuns
  <2> QED
    BY <1>10, <2>3
<1>15. \A m \in Mates \ {n} : proc'[m] = proc[m] /\ up'[m] = up[m] /\ active'[m] = active[m]
  BY <1>1, <1>10
<1> QED
  BY <1>2, <1>14, <1>15, OneMateRuns DEF Advance

LEMMA PlainLines ==
  ASSUME NEW u \in Seq(MateMsg), NEW w \in Seq(MateMsg), NEW v, v = u \o w, \A m \in ToSet(w) : m.kind # "update"
  PROVE  NoNews(u, v)
<1>1. /\ ToSet(v) = ToSet(u) \union ToSet(w)
      /\ \A x, y : Before(v, x, y) <=> Before(u, x, y) \/ Before(w, x, y) \/ (x \in ToSet(u) /\ y \in ToSet(w))
  BY ConcatFacts
<1>2. \A q, st : Update(q, st) \notin ToSet(w)
  BY DEF Update
<1>3. \A x, y : Before(w, x, y) => y \in ToSet(w)
  BY DEF Before, ToSet
<1> QED
  BY <1>1, <1>2, <1>3 DEF NoNews

\* It takes another line, or writes lines that tell nothing of a run.
LEMMA PlainRuns ==
  ASSUME TeamInv, RunInv, LeadOk(lead'), Advance(lead, lead'), SameTasks(lead, lead'), NEW n \in Mates,
         ToSet(lead'.sent[n]) \subseteq ToSet(lead.sent[n]),
         \/ proc'[n] = proc[n]
         \/ proc[n] = "live" /\ proc'[n] = "closing" /\ lead.closing /\ \A m \in ToSet(lead'.sent[n]) : IsLate(lead, m)
         \/ proc'[n] = "exited",
         NoNews(up[n], up'[n]),
         active'[n] = active[n],
         \A m \in Mates \ {n} : proc'[m] = proc[m] /\ up'[m] = up[m] /\ active'[m] = active[m]
  PROVE  RunInv' /\ Keeps(lead, lead')
<1>1. MateRuns(lead, n, proc[n], up[n], active[n])
  BY DEF RunInv
<1>2. /\ proc'[n] = "closing" => lead'.closing /\ \A m \in ToSet(lead'.sent[n]) : IsLate(lead', m)
      /\ proc'[n] \in {"live", "closing"} /\ lead'.closing => lead'.stopping
  BY <1>1 DEF MateRuns, SameTasks, IsLate
<1>3. active[n] # None => IsIn(lead', n, active[n]) /\ \A run \in Runs : Asg(run) \notin ToSet(lead'.sent[n])
  BY <1>1 DEF MateRuns, SameTasks, IsIn, Busy
<1>4. Ends(lead', n, up'[n], active[n])
  BY <1>1 DEF MateRuns, Ends, NoNews, SameTasks, IsIn, Busy
<1>5. MateRuns(lead', n, proc'[n], up'[n], active'[n])
  BY <1>2, <1>3, <1>4 DEF MateRuns
<1> QED
  BY <1>5, OneMateRuns DEF Advance

LEMMA MateReadsRuns ==
  ASSUME TeamInv, RunInv, NEW n \in Mates, OnCancel(n) \/ OnThreadResult(n) \/ OnShutdown(n)
  PROVE  RunInv' /\ Keeps(lead, lead')
<1>1. lead.sent[n] # <<>> /\ Heard(n) /\ active' = active
  BY DEF OnCancel, OnThreadResult, OnShutdown, Order
<1>2. /\ Advance(lead, lead') /\ SameTasks(lead, lead') /\ LeadOk(lead') /\ lead'.sent[n] = Tail(lead.sent[n])
      /\ lead.sent[n] \in Seq(LeadMsg) /\ Head(lead.sent[n]) \in LeadMsg
  BY <1>1, HeardRuns, HeardOk
<1>3. Orders(lead, n, lead.sent[n])
  BY DEF RunInv, Steady
<1>4. /\ ToSet(lead.sent[n]) = {Head(lead.sent[n])} \union ToSet(lead'.sent[n])
      /\ Head(lead.sent[n]) = Stop => \A m \in ToSet(lead'.sent[n]) : IsLate(lead, m)
  <2> DEFINE w == lead.sent[n]
             rest == Tail(w)
             first == Head(w)
  <2>1. /\ ToSet(w) = {first} \union ToSet(rest)
        /\ first = Stop => \A m \in ToSet(rest) : IsLate(lead, m)
    BY <1>1, <1>2, <1>3, OrderTaken
  <2>2. lead'.sent[n] = rest
    BY <1>2
  <2> HIDE DEF w, rest, first
  <2>3. /\ ToSet(w) = {first} \union ToSet(lead'.sent[n])
        /\ first = Stop => \A m \in ToSet(lead'.sent[n]) : IsLate(lead, m)
    BY <2>1, <2>2
  <2> QED
    BY <2>3 DEF w, first
<1>5. CASE OnCancel(n) \/ OnThreadResult(n)
  <2>1. UNCHANGED <<up, proc>>
    BY <1>5 DEF OnCancel, OnThreadResult
  <2>2. NoNews(up[n], up'[n])
    BY <2>1 DEF NoNews
  <2> QED
    BY <1>1, <1>2, <1>4, <2>1, <2>2, PlainRuns
<1>6. CASE OnShutdown(n)
  <2>1. proc[n] = "live" /\ proc' = [proc EXCEPT ![n] = "closing"] /\ Head(lead.sent[n]).kind = "shutdown"
        /\ Say(n, Releases(pending[n])) /\ pending[n] \in SUBSET Requests /\ up[n] \in Seq(MateMsg)
        /\ proc \in [Mates -> {"none", "live", "closing", "exited"}]
    BY <1>6 DEF OnShutdown, Order, TeamInv, MatesTyped
  <2>2. Head(lead.sent[n]) = Stop
    BY <1>2, <2>1, DownLines
  <2>3. lead.closing
    BY <1>4, <2>2 DEF RunInv, Closing
  <2>4. Releases(pending[n]) \in Seq(MateMsg) /\ \A m \in ToSet(Releases(pending[n])) : m.kind = "release"
    BY <2>1, ReleasesFacts
  <2>5. up'[n] = up[n] \o Releases(pending[n]) /\ \A m \in Mates \ {n} : up'[m] = up[m]
    BY <2>1, <2>4, SayOk
  <2>7. NoNews(up[n], up'[n])
    <3>1. \A m \in ToSet(Releases(pending[n])) : m.kind # "update"
      BY <2>4
    <3> QED
      BY <2>1, <2>4, <2>5, <3>1, PlainLines
  <2>8. proc'[n] = "closing" /\ \A m \in Mates \ {n} : proc'[m] = proc[m]
    BY <2>1
  <2> QED
    BY <1>1, <1>2, <1>4, <2>1, <2>2, <2>3, <2>5, <2>7, <2>8, PlainRuns
<1> QED
  BY <1>5, <1>6

\* It writes about threads, or that it is done.
LEMMA SaysRuns ==
  ASSUME TeamInv, RunInv, NEW n \in Mates, NEW w \in Seq(MateMsg), Say(n, w), \A m \in ToSet(w) : m.kind # "update",
         UNCHANGED <<lead, active>>, proc'[n] \in {proc[n], "exited"}, \A m \in Mates \ {n} : proc'[m] = proc[m]
  PROVE  RunInv'
<1>1. up'[n] = up[n] \o w /\ up[n] \in Seq(MateMsg) /\ \A m \in Mates \ {n} : up'[m] = up[m]
  BY SayOk DEF TeamInv, MatesTyped
<1>3. NoNews(up[n], up'[n])
  BY <1>1, PlainLines
<1>4. LeadOk(lead') /\ Advance(lead, lead') /\ SameTasks(lead, lead')
  BY StandsStill DEF SameTasks
<1> QED
  BY <1>1, <1>3, <1>4, PlainRuns

LEMMA ProcessRuns ==
  ASSUME TeamInv, RunInv, NEW n \in Mates,
         Exit(n) \/ \E r \in Requests : Acquire(n, r) \/ AcquireTimesOut(n, r) \/ ReleaseThread(n, r)
  PROVE  RunInv' /\ lead' = lead
<1>1. CASE Exit(n)
  <2> DEFINE w == Append(Releases(granted[n]), [kind |-> "ack"])
  <2>1. Say(n, w) /\ proc' = [proc EXCEPT ![n] = "exited"] /\ UNCHANGED <<lead, active>>
        /\ granted[n] \in SUBSET Requests /\ proc \in [Mates -> {"none", "live", "closing", "exited"}]
    BY <1>1 DEF Exit, TeamInv, MatesTyped
  <2>2. Releases(granted[n]) \in Seq(MateMsg) /\ (\A m \in ToSet(Releases(granted[n])) : m.kind = "release")
        /\ [kind |-> "ack"] \in MateMsg
    BY <2>1, ReleasesFacts DEF MateMsg
  <2>3. w \in Seq(MateMsg) /\ ToSet(w) = ToSet(Releases(granted[n])) \union {[kind |-> "ack"]}
    BY <2>2, AppendFacts
  <2>4. \A m \in ToSet(w) : m.kind # "update"
    BY <2>2, <2>3
  <2>5. proc'[n] = "exited" /\ \A m \in Mates \ {n} : proc'[m] = proc[m]
    BY <2>1
  <2> HIDE DEF w
  <2> QED
    BY <2>1, <2>3, <2>4, <2>5, SaysRuns
<1>2. ASSUME NEW r \in Requests, Acquire(n, r) PROVE RunInv' /\ lead' = lead
  <2> DEFINE acq == [kind |-> "acquire", req |-> r]
  <2>1. Say(n, <<acq>>) /\ UNCHANGED <<lead, proc, active>>
    BY <1>2 DEF Acquire
  <2>2. acq \in MateMsg /\ acq.kind # "update"
    BY DEF MateMsg
  <2> HIDE DEF acq
  <2>3. <<acq>> \in Seq(MateMsg) /\ ToSet(<<acq>>) = {acq}
    BY <2>2, ShortFacts
  <2> QED
    BY <2>1, <2>2, <2>3, SaysRuns
<1>3. ASSUME NEW r \in Requests, AcquireTimesOut(n, r) \/ ReleaseThread(n, r) PROVE RunInv' /\ lead' = lead
  <2>1. Say(n, Releases({r})) /\ UNCHANGED <<lead, proc, active>>
    BY <1>3 DEF AcquireTimesOut, ReleaseThread
  <2>2. Releases({r}) \in Seq(MateMsg) /\ \A m \in ToSet(Releases({r})) : m.kind # "update"
    BY ReleasesFacts
  <2> QED
    BY <2>1, <2>2, SaysRuns
<1> QED
  BY <1>1, <1>2, <1>3

\* A run ends and says how.
LEMMA FinishRuns ==
  ASSUME TeamInv, RunInv, NEW n \in Mates, Finish(n)
  PROVE  RunInv' /\ lead' = lead
<1>1. /\ active[n] # None /\ active' = [active EXCEPT ![n] = None] /\ UNCHANGED <<lead, proc>>
      /\ active \in [Mates -> Runs \union {None}] /\ up[n] \in Seq(MateMsg)
  BY DEF Finish, TeamInv, MatesTyped
<1> DEFINE run == active[n]
           idle == [kind |-> "idle", run |-> run]
<1>2. \A m \in Mates \ {n} : up'[m] = up[m]
  BY FinishTyped
<1>3. PICK st \in Terminal, w \in {<<>>, <<idle>>} :
        /\ w \in Seq(MateMsg) /\ Update(run, st) \in MateMsg /\ run \in Runs
        /\ up'[n] = up[n] \o (<<Update(run, st)>> \o w)
  BY FinishTyped
<1>4. idle.kind # "update" /\ idle \in MateMsg
  BY <1>3 DEF MateMsg
<1> HIDE DEF idle, run
<1>5. ToSet(w) \subseteq {idle}
  BY <1>3, <1>4, ShortFacts
<1>6. <<Update(run, st)>> \in Seq(MateMsg) /\ ToSet(<<Update(run, st)>>) = {Update(run, st)}
  BY <1>3, ShortFacts
<1>7. /\ <<Update(run, st)>> \o w \in Seq(MateMsg)
      /\ ToSet(<<Update(run, st)>> \o w) = {Update(run, st)} \union ToSet(w)
  BY <1>3, <1>6, ConcatFacts
<1>8. /\ ToSet(up'[n]) = ToSet(up[n]) \union {Update(run, st)} \union ToSet(w)
      /\ \A x, y : Before(up'[n], x, y) =>
           Before(up[n], x, y) \/ x \in ToSet(w) \/ y \in ToSet(w) \/ (x \in ToSet(up[n]) /\ y = Update(run, st))
  <2> DEFINE one == <<Update(run, st)>>
             said == one \o w
             before == up[n]
  <2>1. one \in Seq(MateMsg) /\ ToSet(one) = {Update(run, st)} /\ \A x, y : ~Before(one, x, y)
    BY <1>3, ShortFacts
  <2> HIDE DEF one
  <2>2. /\ said \in Seq(MateMsg) /\ ToSet(said) = {Update(run, st)} \union ToSet(w)
        /\ \A x, y : Before(said, x, y) => x \in ToSet(w) \/ y \in ToSet(w)
    <3>1. /\ ToSet(said) = ToSet(one) \union ToSet(w)
          /\ \A x, y : Before(said, x, y) <=> Before(one, x, y) \/ Before(w, x, y) \/ (x \in ToSet(one) /\ y \in ToSet(w))
      BY <1>3, <2>1, ConcatFacts
    <3>2. \A x, y : Before(w, x, y) => y \in ToSet(w)
      BY DEF Before, ToSet
    <3>3. said \in Seq(MateMsg)
      BY <1>3, <2>1
    <3> QED
      BY <2>1, <3>1, <3>2, <3>3
  <2>3. before \in Seq(MateMsg) /\ up'[n] = before \o said
    BY <1>1, <1>3 DEF one
  <2> HIDE DEF said, before
  <2>4. /\ ToSet(before \o said) = ToSet(before) \union ToSet(said)
        /\ \A x, y : Before(before \o said, x, y) <=>
             Before(before, x, y) \/ Before(said, x, y) \/ (x \in ToSet(before) /\ y \in ToSet(said))
    BY <2>2, <2>3, ConcatFacts
  <2>5. /\ ToSet(up'[n]) = ToSet(before) \union ToSet(said)
        /\ \A x, y : Before(up'[n], x, y) <=>
             Before(before, x, y) \/ Before(said, x, y) \/ (x \in ToSet(before) /\ y \in ToSet(said))
    BY <2>3, <2>4
  <2>6. /\ ToSet(up'[n]) = ToSet(before) \union {Update(run, st)} \union ToSet(w)
        /\ \A x, y : Before(up'[n], x, y) =>
             Before(before, x, y) \/ x \in ToSet(w) \/ y \in ToSet(w) \/ (x \in ToSet(before) /\ y = Update(run, st))
    BY <2>2, <2>5
  <2> QED
    BY <2>6 DEF before
<1>9. \A q, x : Update(q, x) \notin ToSet(w)
  BY <1>4, <1>5 DEF Update
<1>10. MateRuns(lead, n, proc[n], up[n], run) /\ Steady(lead) /\ Ends(lead, n, up[n], run)
  BY DEF RunInv, MateRuns, run
<1>11. IsIn(lead, n, run) /\ \A q \in Runs : Asg(q) \notin ToSet(lead.sent[n])
  BY <1>1, <1>10 DEF MateRuns, run
<1>12. \A q \in Runs, x \in Terminal : Update(q, x) \notin ToSet(up[n])
  BY <1>3, <1>10, <1>11, OneRun DEF Ends
<1>13. MateRuns(lead, n, proc[n], up'[n], None)
  <2>1. ASSUME NEW q \in Runs, NEW x \in Terminal, Update(q, x) \in ToSet(up'[n]) PROVE q = run
    <3>1. Update(q, x) = Update(run, st)
      BY <1>8, <1>9, <1>12, <2>1
    <3> QED
      BY <3>1, UpdatesApart
  <2>2. \A q \in Runs : q # None
    BY NoneApart
  <2>3. ASSUME NEW p \in Runs, NEW q \in Runs, NEW y \in Terminal, NEW x \in Terminal
        PROVE  ~Before(up'[n], Update(p, y), Update(q, x))
    <3>1. ~Before(up[n], Update(p, y), Update(q, x))
      BY <1>10 DEF Ends
    <3>2. Update(p, y) \notin ToSet(up[n])
      BY <1>12
    <3> QED
      BY <1>8, <1>9, <3>1, <3>2
  <2>4. Ends(lead, n, up'[n], None)
    BY <1>11, <2>1, <2>2, <2>3 DEF Ends
  <2> QED
    BY <1>10, <2>4 DEF MateRuns
<1>14. active'[n] = None /\ \A m \in Mates \ {n} : active'[m] = active[m]
  BY <1>1
<1>15. LeadOk(lead') /\ Advance(lead, lead') /\ lead' = lead
  BY <1>1, StandsStill
<1>16. MateRuns(lead', n, proc'[n], up'[n], active'[n])
  BY <1>1, <1>13, <1>14
<1>17. \A m \in Mates \ {n} : proc'[m] = proc[m] /\ up'[m] = up[m] /\ active'[m] = active[m]
  BY <1>1, <1>2, <1>14
<1> QED
  BY <1>1, <1>15, <1>16, <1>17, OneMateRuns

-----------------------------------------------------------------------------
LEMMA NextRuns ==
  ASSUME TeamInv, RunInv, [Next]_vars
  PROVE  RunInv' /\ (Keeps(lead, lead') \/ Fulfils(lead, lead'))
<1>0. lead' = lead => Keeps(lead, lead')
  BY DEF Keeps
<1>1. CASE UNCHANGED vars
  BY <1>0, <1>1 DEF RunInv, vars, procVars
<1>2. CASE CreateTeam \/ Shutdown \/ ShutdownDone \/ ShutdownFails
  BY <1>2, CreateTeamRuns, ShutdownRuns, ShutdownDoneRuns, ShutdownFailsRuns
<1>3. CASE \/ \E t \in Tasks : CreateTask(t) \/ StopTask(t)
           \/ \E t \in Tasks, st \in LeadStatuses \union {None} :
                \E deps \in NewDeps[t] \union {lead.deps[t]} : UpdateTask(t, st, deps)
           \/ \E w \in Workspaces : SwitchWorkspace(w)
  BY <1>3, CreateTaskRuns, StopTaskRuns, UpdateTaskRuns, SwitchWorkspaceRuns
<1>4. ASSUME NEW n \in Mates,
             AddTeammate(n) \/ Kill(n) \/ LeadReads(n) \/ OnExit(n) \/ MateReads(n) \/ Finish(n) \/ Exit(n) \/ Crash(n)
      PROVE  RunInv' /\ (Keeps(lead, lead') \/ Fulfils(lead, lead'))
  <2>1. CASE AddTeammate(n) \/ OnExit(n)
    BY <2>1, AddTeammateRuns, OnExitRuns
  <2>2. CASE Kill(n) \/ Finish(n) \/ Exit(n) \/ Crash(n)
    BY <1>0, <2>2, GoneRuns, FinishRuns, ProcessRuns
  <2>3. CASE LeadReads(n)
    BY <2>3, OnStatusRuns, OnTaskUpdateRuns, OnThreadsRuns DEF LeadReads
  <2>4. CASE MateReads(n)
    BY <2>4, OnAssignRuns, MateReadsRuns DEF MateReads
  <2> QED
    BY <1>4, <2>1, <2>2, <2>3, <2>4
<1>5. CASE \E n \in Mates, r \in Requests : Acquire(n, r) \/ AcquireTimesOut(n, r) \/ ReleaseThread(n, r)
  BY <1>0, <1>5, ProcessRuns
<1> QED
  BY <1>1, <1>2, <1>3, <1>4, <1>5 DEF Next

\* The lead's tasks, its run store and the processes agree, whatever is on the way between
\* them: RunInv.
THEOREM RunInvariant == Spec => [](TeamInv /\ RunInv)
<1>1. Init => TeamInv /\ RunInv
  BY InitTyped, InitRuns
<1>2. TeamInv /\ RunInv /\ [Next]_vars => (TeamInv /\ RunInv)'
  BY NextTyped, NextRuns
<1> QED
  BY <1>1, <1>2, PTL DEF Spec

\* A process never executes a run that the lead does not take to be in progress there.
THEOREM RunsOwned == Spec => []RunsAreOwned
<1>1. TeamInv /\ RunInv => RunsAreOwned
  <2> SUFFICES ASSUME TeamInv, RunInv, NEW n \in Mates, active[n] # None PROVE Current(n, active[n])
    BY DEF RunsAreOwned
  <2>1. MateRuns(lead, n, proc[n], up[n], active[n]) /\ active[n] \in Runs /\ active[n].task \in Tasks
    BY RunFacts DEF RunInv, TeamInv, MatesTyped
  <2>2. IsIn(lead, n, active[n]) /\ Tracked(lead, active[n].task)
    BY <2>1 DEF MateRuns, RunInv, Steady
  <2> QED
    BY <2>2 DEF IsIn, Tracked, Current
<1> QED
  BY <1>1, RunInvariant, PTL

\* A teammate is never given a run while it executes one; and a closing process is sent nothing
\* that it does not listen for but the cancellation of a task without a run, which the lead put
\* in progress itself.
THEOREM MatesNeverBusy == Spec => []NeverBusy
<1>1. TeamInv /\ RunInv => NeverBusy
  <2> SUFFICES ASSUME TeamInv, RunInv, NEW n \in Mates
               PROVE  /\ Alive(n) /\ Order(n, "assign") => active[n] = None
                      /\ proc[n] = "closing" => \A m \in ToSet(lead.sent[n]) : IsLate(lead, m)
    BY DEF NeverBusy, IsLate
  <2>1. MateRuns(lead, n, proc[n], up[n], active[n]) /\ Orders(lead, n, lead.sent[n]) /\ lead.sent[n] \in Seq(LeadMsg)
    BY LeadFields DEF RunInv, Steady, TeamInv, LeadOk
  <2>2. ASSUME Order(n, "assign") PROVE active[n] = None
    <3>1. lead.sent[n] # <<>> /\ Head(lead.sent[n]).kind = "assign"
      BY <2>2 DEF Order
    <3>2. Head(lead.sent[n]) \in LeadMsg /\ Head(lead.sent[n]) \in ToSet(lead.sent[n])
      BY <2>1, <3>1, TailFacts
    <3>3. \E run \in Runs : Asg(run) \in ToSet(lead.sent[n])
      BY <3>1, <3>2, DownLines DEF Asg
    <3> QED
      BY <2>1, <3>3 DEF MateRuns
  <2> QED
    BY <2>1, <2>2 DEF MateRuns
<1> QED
  BY <1>1, RunInvariant, PTL

\* The run inspector shows an attempt as running exactly while it is the attempt in progress at
\* its task; and a task in progress without one is a task that the lead put in progress itself.
THEOREM RecordsAgree == Spec => []RecordsMatch
<1>1. TeamInv /\ RunInv => RecordsMatch
  <2> SUFFICES ASSUME TeamInv, RunInv, NEW t \in Tasks
               PROVE  /\ lead.running[t] # 0 => lead.task[t].status = "in_progress" /\ lead.running[t] = lead.task[t].try
                      /\ (lead.record[t] = "running") <=> (lead.running[t] # 0)
                      /\ lead.task[t].status = "in_progress" /\ lead.running[t] = 0 => t \in lead.byHand
    BY DEF RecordsMatch
  <2>1. Tracked(lead, t) /\ lead.task[t].try \in Nat
    BY TriesTyped DEF RunInv, Steady, TeamInv, LeadOk
  <2> QED
    BY <2>1 DEF Tracked, Busy
<1> QED
  BY <1>1, RunInvariant, PTL

\* A task that was asked to stop ends in the state the lead asked for last, however its run
\* ended and also when its process died, unless the team is closing.
THEOREM RequestsKept == Spec => RequestKept
<1>1. TeamInv /\ RunInv /\ [Next]_vars =>
        [\A t \in Tasks :
           lead.task[t].cancel /\ ~lead'.task[t].cancel /\ ~lead.closing
             => \/ lead'.task[t].status = lead.requested[t]
                \/ lead.requested[t] = "pending" /\ lead'.task[t].try = lead.task[t].try + 1]_vars
  <2> SUFFICES ASSUME TeamInv, RunInv, [Next]_vars
               PROVE  \A t \in Tasks :
                        lead.task[t].cancel /\ ~lead'.task[t].cancel /\ ~lead.closing
                          => \/ lead'.task[t].status = lead.requested[t]
                             \/ lead.requested[t] = "pending" /\ lead'.task[t].try = lead.task[t].try + 1
    OBVIOUS
  <2>1. Keeps(lead, lead') \/ Fulfils(lead, lead')
    BY NextRuns
  <2> QED
    BY <2>1 DEF Keeps, Fulfils
<1> QED
  BY <1>1, RunInvariant, PTL DEF Spec, RequestKept
=============================================================================
