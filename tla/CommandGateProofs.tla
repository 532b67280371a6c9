-------------------------- MODULE CommandGateProofs --------------------------
(***************************************************************************)
(* Proofs about CommandGate for every value of its constants: type         *)
(* correctness, the agreement of holders and tickets, that a started       *)
(* command holds its resources until its process tree is gone, and that    *)
(* two live commands therefore never share a resource.                     *)
(*                                                                         *)
(* The inductive invariant follows a launch through the gate: the          *)
(* resources it has armed stay in state "starting" until its process is    *)
(* recorded, and stay its own while the process tree is alive.             *)
(***************************************************************************)
EXTENDS CommandGate, TLAPS

-----------------------------------------------------------------------------
(* What each edit of a resource record preserves, for every record the program can hold: its  *)
(* type, the agreement of holder and tickets, and a started holder whose process tree is not  *)
(* proven gone.                                                                               *)

\* A process is recorded exactly when the command runs, and it is the spawner's own
\* unless the command was adopted.
HolderOk(s) ==
  /\ s.holder.state # "running" => s.holder.process = None
  /\ (s.holder.state = "running" /\ s.holder.spawner # None) => s.holder.process = s.holder.spawner

RecordOk(s) == s \in ResourceState /\ SlotAgrees(s) /\ HolderOk(s)

\* The edit from s to e leaves a started holder in place, unless its process is in gone.
Keeps(s, e, gone) ==
  (s.holder.state = "starting" \/ (s.holder.state = "running" /\ s.holder.process \notin gone))
    => e.holder = s.holder

-----------------------------------------------------------------------------
\* What a transaction does first: only closed tickets disappear.
LEMMA PurgeOk ==
  ASSUME NEW s, RecordOk(s)
  PROVE  /\ RecordOk(Purge(s))
         /\ Purge(s).holder = s.holder
         /\ \A t \in Requests : s.tickets[t].state = "absent" => Purge(s).tickets[t].state = "absent"
<1>1. s \in ResourceState /\ SlotAgrees(s) /\ HolderOk(s)  BY DEF RecordOk
<1>2. Purge(s) \in ResourceState
  BY <1>1 DEF Purge, ResourceState, NoTicket, Ticket
<1>3. Purge(s).holder = s.holder  BY <1>1 DEF Purge, ResourceState
<1>4. \A t \in Requests : Purge(s).tickets[t] =
        IF s.tickets[t].aged /\ s.tickets[t].state \notin Active THEN NoTicket ELSE s.tickets[t]
  BY <1>1 DEF Purge, ResourceState
<1>5. SlotAgrees(Purge(s))
  BY <1>1, <1>3, <1>4 DEF SlotAgrees, InState, NoTicket, ResourceState, Holder, Started, Active, Unused
<1>6. HolderOk(Purge(s))  BY <1>1, <1>3 DEF HolderOk
<1> QED  BY <1>2, <1>3, <1>4, <1>5, <1>6 DEF RecordOk, NoTicket

\* A closed ticket gives up the resource if it held it.
LEMMA CloseOk ==
  ASSUME NEW s, NEW t \in Requests, NEW outcome \in Closed, RecordOk(s)
  PROVE  /\ RecordOk(Close(s, t, outcome))
         /\ Close(s, t, outcome).holder = IF s.holder.request = t THEN NoHolder ELSE s.holder
         /\ \A u \in Requests : s.tickets[u].state = "absent" /\ u # t
              => Close(s, t, outcome).tickets[u].state = "absent"
<1> DEFINE c == Close(s, t, outcome)
<1>1. s \in ResourceState /\ SlotAgrees(s) /\ HolderOk(s)  BY DEF RecordOk
<1>2. c.holder = IF s.holder.request = t THEN NoHolder ELSE s.holder
  BY <1>1 DEF Close, ResourceState
<1>3. /\ c.tickets \in [Requests -> Ticket]
      /\ \A u \in Requests : c.tickets[u].state = IF u = t THEN outcome ELSE s.tickets[u].state
  BY <1>1 DEF Close, ResourceState, Ticket, Closed
<1>4. NoHolder \in Holder  BY DEF NoHolder, Holder
<1>5. c \in ResourceState
  BY <1>1, <1>2, <1>3, <1>4 DEF Close, ResourceState
<1>6. SlotAgrees(c)
  BY <1>1, <1>2, <1>3 DEF SlotAgrees, InState, NoHolder, ResourceState, Holder, Started, Closed
<1>7. HolderOk(c)  BY <1>1, <1>2 DEF HolderOk, NoHolder
<1> QED  BY <1>2, <1>3, <1>5, <1>6, <1>7 DEF RecordOk

\* reconcile frees an unused reservation or a command whose process tree is gone.
LEMMA ReconciledOk ==
  ASSUME NEW s, NEW blocking, NEW gone, RecordOk(s)
  PROVE  /\ RecordOk(Reconciled(s, blocking, gone))
         /\ Keeps(s, Reconciled(s, blocking, gone), gone)
         /\ Reconciled(s, blocking, gone).holder \in {s.holder, NoHolder}
         /\ \A t \in Requests : s.tickets[t].state = "absent"
              => Reconciled(s, blocking, gone).tickets[t].state = "absent"
<1> DEFINE c == [s EXCEPT !.blockers = @ \intersect blocking]
<1>1. s \in ResourceState /\ SlotAgrees(s) /\ HolderOk(s)  BY DEF RecordOk
<1>2. c.holder = s.holder /\ c.tickets = s.tickets  BY <1>1 DEF ResourceState
<1>3. c \in ResourceState  BY <1>1 DEF ResourceState
<1>4. RecordOk(c)
  BY <1>1, <1>2, <1>3 DEF RecordOk, SlotAgrees, InState, HolderOk
<1>5. s.holder.state # "none" => s.holder.request \in Requests
  BY <1>1 DEF SlotAgrees
<1>6. s.holder.state # "none" => s.tickets[s.holder.request].state # "absent"
  BY <1>1 DEF SlotAgrees, ResourceState, Holder, Started
<1>7. CASE s.holder.state = "reserved" /\ s.holder.lapsed
  <2>1. Reconciled(s, blocking, gone) = Close(c, s.holder.request, "expired")
    BY <1>7 DEF Reconciled
  <2>2. s.holder.request \in Requests /\ "expired" \in Closed  BY <1>5, <1>7 DEF Closed
  <2> HIDE DEF c
  <2> QED  BY <1>2, <1>4, <1>6, <1>7, <2>1, <2>2, CloseOk DEF Keeps
<1>8. CASE ~(s.holder.state = "reserved" /\ s.holder.lapsed) /\ s.holder.state = "running" /\ s.holder.process \in gone
  <2>1. Reconciled(s, blocking, gone) = Close(c, s.holder.request, "completed")
    BY <1>8 DEF Reconciled
  <2>2. s.holder.request \in Requests /\ "completed" \in Closed  BY <1>5, <1>8 DEF Closed
  <2> HIDE DEF c
  <2> QED  BY <1>2, <1>4, <1>6, <1>8, <2>1, <2>2, CloseOk DEF Keeps
<1>9. CASE ~(s.holder.state = "reserved" /\ s.holder.lapsed) /\ ~(s.holder.state = "running" /\ s.holder.process \in gone)
  <2>1. Reconciled(s, blocking, gone) = c  BY <1>9 DEF Reconciled
  <2> HIDE DEF c
  <2> QED  BY <1>2, <1>4, <2>1 DEF Keeps
<1> QED  BY <1>7, <1>8, <1>9

\* A new ticket in a free slot of the table: request and claimCommand.
LEMMA QueueOk ==
  ASSUME NEW s, RecordOk(s), NEW p \in Principals, NEW t \in Requests,
         NEW l \in Launches \union {None}, s.tickets[t].state = "absent"
  PROVE  /\ RecordOk([s EXCEPT !.tickets[t] = NewTicket(s, p, "queued", l)])
         /\ [s EXCEPT !.tickets[t] = NewTicket(s, p, "queued", l)].holder = s.holder
<1> DEFINE e == [s EXCEPT !.tickets[t] = NewTicket(s, p, "queued", l)]
<1>1. s \in ResourceState /\ SlotAgrees(s) /\ HolderOk(s)  BY DEF RecordOk
<1>2. NewTicket(s, p, "queued", l) \in Ticket
  BY <1>1 DEF NewTicket, Ticket, ResourceState, Active, Unused
<1>3. /\ e.holder = s.holder
      /\ e.tickets = [s.tickets EXCEPT ![t] = NewTicket(s, p, "queued", l)]
  BY <1>1 DEF ResourceState
<1>4. e \in ResourceState  BY <1>1, <1>2 DEF ResourceState
<1>5. SlotAgrees(e)
  BY <1>1, <1>3 DEF SlotAgrees, InState, ResourceState, Holder, NewTicket, Started
<1>6. HolderOk(e)  BY <1>1, <1>3 DEF HolderOk
<1> QED  BY <1>3, <1>4, <1>5, <1>6 DEF RecordOk

\* claimCommand assigns an unused ticket to a launch.
LEMMA AssignOk ==
  ASSUME NEW s, RecordOk(s), NEW t \in Requests, NEW l \in Launches
  PROVE  /\ RecordOk([s EXCEPT !.tickets[t].launch = l])
         /\ [s EXCEPT !.tickets[t].launch = l].holder = s.holder
<1> DEFINE e == [s EXCEPT !.tickets[t].launch = l]
<1>1. s \in ResourceState /\ SlotAgrees(s) /\ HolderOk(s)  BY DEF RecordOk
<1>2. /\ e.holder = s.holder
      /\ e.tickets \in [Requests -> Ticket]
      /\ \A u \in Requests : e.tickets[u].state = s.tickets[u].state
  BY <1>1 DEF ResourceState, Ticket
<1>3. e \in ResourceState  BY <1>1, <1>2 DEF ResourceState
<1>4. SlotAgrees(e)  BY <1>1, <1>2 DEF SlotAgrees, InState
<1>5. HolderOk(e)  BY <1>1, <1>2 DEF HolderOk
<1> QED  BY <1>2, <1>3, <1>4, <1>5 DEF RecordOk

\* grant: a queued ticket takes the free resource.
LEMMA ReserveOk ==
  ASSUME NEW s, RecordOk(s), NEW t \in Requests, s.holder.state = "none"
  PROVE  RecordOk(Reserve(s, t))
<1> DEFINE e == Reserve(s, t)
<1>1. s \in ResourceState /\ SlotAgrees(s) /\ HolderOk(s)  BY DEF RecordOk
<1>2. /\ e.holder = [state |-> "reserved", request |-> t, lapsed |-> FALSE,
                      spawner |-> None, process |-> None]
      /\ e.tickets \in [Requests -> Ticket]
      /\ \A u \in Requests : e.tickets[u].state = IF u = t THEN "reserved" ELSE s.tickets[u].state
  BY <1>1 DEF Reserve, ResourceState, Ticket, Active, Unused
<1>3. e.holder \in Holder  BY <1>2 DEF Holder
<1>4. e \in ResourceState  BY <1>1, <1>2, <1>3 DEF Reserve, ResourceState
<1>5. SlotAgrees(e)  BY <1>1, <1>2 DEF SlotAgrees, InState, Started
<1>6. HolderOk(e)  BY <1>2 DEF HolderOk
<1> QED  BY <1>4, <1>5, <1>6 DEF RecordOk

\* set_controller revokes unused tickets only.
LEMMA InstallOk ==
  ASSUME NEW s, RecordOk(s), NEW policy \in Policy, NEW admitted \in SUBSET Launches, NEW gone
  PROVE  RecordOk(Install(s, policy, admitted)) /\ Keeps(s, Install(s, policy, admitted), gone)
<1> DEFINE e == Install(s, policy, admitted)
           revoked == {t \in Requests :
             \/ s.holder.state = "reserved" /\ s.holder.request = t
             \/ /\ s.tickets[t].state = "queued"
                /\ ~IsEnrolled(s.tickets[t].owner, policy.participants \union {policy.controller})}
<1>1. s \in ResourceState /\ SlotAgrees(s) /\ HolderOk(s)  BY DEF RecordOk
<1>2. e.holder = IF s.holder.state = "reserved" THEN NoHolder ELSE s.holder
  BY <1>1 DEF Install, ResourceState
<1>3. e.tickets = [t \in Requests |->
        IF t \in revoked THEN [s.tickets[t] EXCEPT !.state = "stale"] ELSE s.tickets[t]]
  BY <1>1 DEF Install, ResourceState
<1>4. /\ e.tickets \in [Requests -> Ticket]
      /\ \A t \in Requests : e.tickets[t].state = IF t \in revoked THEN "stale" ELSE s.tickets[t].state
  <2>1. s.tickets \in [Requests -> Ticket]  BY <1>1 DEF ResourceState
  <2> HIDE DEF e, revoked
  <2> QED  BY <1>3, <2>1 DEF Ticket, Closed
<1>5. e.holder \in Holder  BY <1>1, <1>2 DEF ResourceState, Holder, NoHolder
<1>6. e \in ResourceState
  <2>1. /\ e.epoch = s.epoch + 1 /\ e.controller = policy.controller
        /\ e.participants = policy.participants /\ e.profile = policy.profile
        /\ e.enrolled = s.enrolled \union (policy.participants \union {policy.controller})
    BY <1>1 DEF Install, ResourceState
  <2>2. e.blockers \subseteq Launches  BY <1>1 DEF Install, ResourceState
  <2>3. /\ e.epoch \in Nat /\ e.controller \in Principals \union {None}
        /\ e.participants \in SUBSET Principals /\ e.profile \in {"strict", "build"}
        /\ e.enrolled \in SUBSET Principals
    BY <1>1, <2>1 DEF ResourceState, Policy
  <2>4. e = [s EXCEPT !.epoch = e.epoch, !.controller = e.controller,
                      !.participants = e.participants, !.enrolled = e.enrolled,
                      !.profile = e.profile, !.blockers = e.blockers,
                      !.tickets = e.tickets, !.holder = e.holder]
    BY <1>1 DEF Install, ResourceState
  <2> HIDE DEF e
  <2> QED  BY <1>1, <1>4, <1>5, <2>2, <2>3, <2>4 DEF ResourceState
<1>7. \A t \in Requests : t \in revoked => s.tickets[t].state \in Unused
  BY <1>1 DEF SlotAgrees, Unused
<1>8. SlotAgrees(e)
  <2> HIDE DEF e, revoked
  <2>1. CASE s.holder.state = "reserved"
    <3>1. \A t \in Requests : e.tickets[t].state \in {"reserved"} \union Started => t \notin revoked /\ s.tickets[t].state \in {"reserved"} \union Started
      BY <1>4 DEF Started
    <3>2. s.holder.request \in revoked  BY <1>1, <2>1 DEF revoked, SlotAgrees
    <3> QED  BY <1>1, <1>2, <2>1, <3>1, <3>2 DEF SlotAgrees, InState, NoHolder
  <2>2. CASE s.holder.state # "reserved"
    <3>1. e.holder = s.holder  BY <1>2, <2>2
    <3>2. s.holder.state # "none" => s.holder.request \notin revoked
      BY <1>1, <1>7, <2>2 DEF SlotAgrees, ResourceState, Holder, Unused, Started
    <3> QED  BY <1>1, <1>4, <3>1, <3>2 DEF SlotAgrees, InState, Started
  <2> QED  BY <2>1, <2>2
<1>9. HolderOk(e)  BY <1>1, <1>2 DEF HolderOk, NoHolder
<1> QED  BY <1>2, <1>6, <1>8, <1>9 DEF RecordOk, Keeps

\* beforeSpawn: the reservation becomes a started holder of launch l.
LEMMA StartOk ==
  ASSUME NEW s, RecordOk(s), NEW l \in Launches, s.holder.state = "reserved"
  PROVE  RecordOk(Start(s, l)) /\ Start(s, l).holder.state = "starting" /\ Start(s, l).holder.spawner = l
<1> DEFINE e == Start(s, l)
<1>1. s \in ResourceState /\ SlotAgrees(s) /\ HolderOk(s)  BY DEF RecordOk
<1>2. s.holder.request \in Requests  BY <1>1 DEF SlotAgrees
<1>3. /\ e.holder = [s.holder EXCEPT !.state = "starting", !.spawner = l]
      /\ e.tickets = [s.tickets EXCEPT ![s.holder.request].state = "starting"]
  BY <1>1 DEF Start, ResourceState
<1>4. /\ e.holder \in Holder /\ e.holder.state = "starting" /\ e.holder.spawner = l
      /\ e.holder.request = s.holder.request /\ e.holder.process = s.holder.process
  BY <1>1, <1>3 DEF ResourceState, Holder, Started
<1>5. /\ e.tickets \in [Requests -> Ticket]
      /\ \A u \in Requests : e.tickets[u].state = IF u = s.holder.request THEN "starting" ELSE s.tickets[u].state
  <2>1. s.tickets \in [Requests -> Ticket]  BY <1>1 DEF ResourceState
  <2> HIDE DEF e
  <2> QED  BY <1>2, <1>3, <2>1 DEF Ticket, Active, Started
<1>6. e \in ResourceState  BY <1>1, <1>4, <1>5 DEF Start, ResourceState
<1>7. SlotAgrees(e)
  <2> HIDE DEF e
  <2> QED  BY <1>1, <1>2, <1>4, <1>5 DEF SlotAgrees, InState, Started
<1>8. HolderOk(e)
  <2> HIDE DEF e
  <2> QED  BY <1>1, <1>4 DEF HolderOk
<1> QED  BY <1>4, <1>6, <1>7, <1>8 DEF RecordOk

\* recordSpawn: the process of the starting command is recorded.
LEMMA RunOk ==
  ASSUME NEW s, RecordOk(s), NEW l \in Launches, s.holder.state = "starting", s.holder.spawner = l
  PROVE  /\ RecordOk(Run(s, l))
         /\ Run(s, l).holder.state = "running"
         /\ Run(s, l).holder.spawner = l
         /\ Run(s, l).holder.process = l
<1> DEFINE e == Run(s, l)
<1>1. s \in ResourceState /\ SlotAgrees(s) /\ HolderOk(s)  BY DEF RecordOk
<1>2. s.holder.request \in Requests  BY <1>1 DEF SlotAgrees
<1>3. /\ e.holder = [s.holder EXCEPT !.state = "running", !.process = l]
      /\ e.tickets = [s.tickets EXCEPT ![s.holder.request].state = "running"]
  BY <1>1 DEF Run, ResourceState
<1>4. /\ e.holder \in Holder /\ e.holder.state = "running" /\ e.holder.spawner = l
      /\ e.holder.request = s.holder.request /\ e.holder.process = l
  BY <1>1, <1>3 DEF ResourceState, Holder, Started
<1>5. /\ e.tickets \in [Requests -> Ticket]
      /\ \A u \in Requests : e.tickets[u].state = IF u = s.holder.request THEN "running" ELSE s.tickets[u].state
  <2>1. s.tickets \in [Requests -> Ticket]  BY <1>1 DEF ResourceState
  <2> HIDE DEF e
  <2> QED  BY <1>2, <1>3, <2>1 DEF Ticket, Active, Started
<1>6. e \in ResourceState  BY <1>1, <1>4, <1>5 DEF Run, ResourceState
<1>7. SlotAgrees(e)
  <2> HIDE DEF e
  <2> QED  BY <1>1, <1>2, <1>4, <1>5 DEF SlotAgrees, InState, Started
<1>8. HolderOk(e)
  <2> HIDE DEF e
  <2> QED  BY <1>4 DEF HolderOk
<1> QED  BY <1>4, <1>6, <1>7, <1>8 DEF RecordOk

\* adoptRunning takes a free resource under a new ticket.
LEMMA AdoptOk ==
  ASSUME NEW s, RecordOk(s), NEW p \in Principals, NEW t \in Requests, NEW l \in Launches,
         s.holder.state = "none"
  PROVE  RecordOk(Adopt(s, p, t, l))
<1> DEFINE e == Adopt(s, p, t, l)
<1>1. s \in ResourceState /\ SlotAgrees(s) /\ HolderOk(s)  BY DEF RecordOk
<1>2. NewTicket(s, p, "running", None) \in Ticket
  BY <1>1 DEF NewTicket, Ticket, ResourceState, Active, Started
<1>3. /\ e.holder = [state |-> "running", request |-> t, lapsed |-> TRUE,
                      spawner |-> None, process |-> l]
      /\ e.tickets = [s.tickets EXCEPT ![t] = NewTicket(s, p, "running", None)]
  BY <1>1 DEF Adopt, ResourceState
<1>4. e.holder \in Holder  BY <1>3 DEF Holder, Started
<1>5. e \in ResourceState  BY <1>1, <1>2, <1>3, <1>4 DEF Adopt, ResourceState
<1>6. SlotAgrees(e)
  <2>1. s.tickets \in [Requests -> Ticket]  BY <1>1 DEF ResourceState
  <2> HIDE DEF e
  <2> QED  BY <1>1, <1>3, <2>1 DEF SlotAgrees, InState, NewTicket, Started
<1>7. HolderOk(e)
  <2> HIDE DEF e
  <2> QED  BY <1>3 DEF HolderOk
<1> QED  BY <1>5, <1>6, <1>7 DEF RecordOk

\* endRun ends unused tickets only.
LEMMA EndOwnedOk ==
  ASSUME NEW s, RecordOk(s), NEW p \in Principals, NEW gone
  PROVE  RecordOk(EndOwned(s, p)) /\ Keeps(s, EndOwned(s, p), gone)
<1> DEFINE e == EndOwned(s, p)
           ended == {t \in InState(s, Unused) : s.tickets[t].owner = p}
<1>1. s \in ResourceState /\ SlotAgrees(s) /\ HolderOk(s)  BY DEF RecordOk
<1>2. e.holder = IF s.holder.request \in ended THEN NoHolder ELSE s.holder
  BY <1>1 DEF EndOwned, ResourceState
<1>3. e.tickets = [t \in Requests |->
        IF t \in ended THEN [s.tickets[t] EXCEPT !.state = "ended"] ELSE s.tickets[t]]
  BY <1>1 DEF EndOwned, ResourceState
<1>4. /\ e.tickets \in [Requests -> Ticket]
      /\ \A t \in Requests : e.tickets[t].state = IF t \in ended THEN "ended" ELSE s.tickets[t].state
  <2>1. s.tickets \in [Requests -> Ticket]  BY <1>1 DEF ResourceState
  <2> HIDE DEF e, ended
  <2> QED  BY <1>3, <2>1 DEF Ticket, Closed
<1>5. e.holder \in Holder  BY <1>1, <1>2 DEF ResourceState, Holder, NoHolder
<1>6. e \in ResourceState
  <2>1. e = [s EXCEPT !.tickets = e.tickets, !.holder = e.holder]
    BY <1>1 DEF EndOwned, ResourceState
  <2> HIDE DEF e
  <2> QED  BY <1>1, <1>4, <1>5, <2>1 DEF ResourceState
<1>7. ended \subseteq Requests /\ \A t \in ended : s.tickets[t].state \in Unused
  BY DEF InState
<1>8. s.holder.state \in Started => s.holder.request \notin ended
  <2> HIDE DEF ended
  <2> QED  BY <1>1, <1>7 DEF SlotAgrees, Unused, Started
<1>9. SlotAgrees(e)
  <2> HIDE DEF e, ended
  <2>1. CASE s.holder.request \in ended
    BY <1>1, <1>2, <1>4, <1>7, <2>1 DEF SlotAgrees, InState, NoHolder, Started
  <2>2. CASE s.holder.request \notin ended
    BY <1>1, <1>2, <1>4, <1>7, <2>2 DEF SlotAgrees, InState, Started
  <2> QED  BY <2>1, <2>2
<1>10. HolderOk(e)
  <2> HIDE DEF e, ended
  <2> QED  BY <1>1, <1>2 DEF HolderOk, NoHolder
<1>11. Keeps(s, e, gone)
  <2> HIDE DEF e, ended
  <2> QED  BY <1>2, <1>8 DEF Keeps, Started
<1> QED  BY <1>6, <1>9, <1>10, <1>11 DEF RecordOk

\* Time passing leaves every state as it is.
LEMMA AgeOk ==
  ASSUME NEW s, RecordOk(s), NEW e,
         e.holder \in Holder, e.tickets \in [Requests -> Ticket],
         e = [s EXCEPT !.tickets = e.tickets, !.holder = e.holder],
         \/ e.holder = s.holder
         \/ s.holder.state = "reserved" /\ e.holder = [s.holder EXCEPT !.lapsed = TRUE],
         \A t \in Requests : e.tickets[t].state = s.tickets[t].state, NEW gone
  PROVE  RecordOk(e) /\ Keeps(s, e, gone)
<1>1. s \in ResourceState /\ SlotAgrees(s) /\ HolderOk(s) /\ s.holder \in Holder
  BY DEF RecordOk, ResourceState
<1>2. e \in ResourceState  BY <1>1 DEF ResourceState
<1>3. /\ e.holder.state = s.holder.state /\ e.holder.request = s.holder.request
      /\ e.holder.process = s.holder.process /\ e.holder.spawner = s.holder.spawner
  BY <1>1 DEF Holder
<1>4. SlotAgrees(e)  BY <1>1, <1>3 DEF SlotAgrees, InState
<1>5. HolderOk(e)  BY <1>1, <1>3 DEF HolderOk
<1> QED  BY <1>2, <1>4, <1>5 DEF RecordOk, Keeps
-----------------------------------------------------------------------------
(* What the edits leave alone: the policy, the launches tickets are assigned *)
(* to, closed tickets, and the blockers a policy still waits for.            *)

\* The policy stays in force, and of its blockers at most those outside live are dropped.
PolicyKept(s, e, live) ==
  /\ e.epoch = s.epoch /\ e.controller = s.controller /\ e.participants = s.participants
  /\ e.enrolled = s.enrolled /\ e.profile = s.profile
  /\ e.blockers \subseteq s.blockers
  /\ s.blockers \intersect live \subseteq e.blockers

\* The ticket is assigned to no launch it was not assigned to, and waits for none it did not wait for.
TicketStays(j, k) ==
  /\ k.launch \in {j.launch, None}
  /\ k.state = "queued" /\ k.launch # None => j.state = "queued"

LaunchesKept(s, e) == \A t \in Requests : TicketStays(s.tickets[t], e.tickets[t])

\* Recent closed tickets are recent closed tickets still.
ClosedKept(s, e) ==
  \A t \in Requests :
    (s.tickets[t].state \in Closed /\ ~s.tickets[t].aged)
      => (e.tickets[t].state \in Closed /\ ~e.tickets[t].aged)

\* No ticket is of a later epoch than the policy; while blockers remain there is no
\* reservation, and a holder that was granted was granted under an earlier epoch.
GrantOk(s) ==
  /\ \A t \in Requests : s.tickets[t].epoch <= s.epoch
  /\ (s.blockers # {} /\ s.holder.state # "none") =>
       /\ s.holder.state \in Started
       /\ s.holder.spawner # None => s.tickets[s.holder.request].epoch < s.epoch

\* An edit that is none of set_controller's, claimCommand's or the clock's.
Quiet(s, e, live) == PolicyKept(s, e, live) /\ LaunchesKept(s, e) /\ ClosedKept(s, e)

\* Quiet edits compose.
LEMMA QuietTrans ==
  ASSUME NEW a, NEW b, NEW c, NEW live, Quiet(a, b, live), Quiet(b, c, live)
  PROVE  Quiet(a, c, live)
<1>1. PolicyKept(a, c, live)  BY DEF Quiet, PolicyKept
<1>2. LaunchesKept(a, c)  BY DEF Quiet, LaunchesKept, TicketStays
<1>3. ClosedKept(a, c)  BY DEF Quiet, ClosedKept
<1> QED  BY <1>1, <1>2, <1>3 DEF Quiet

\* The sweep of aged tickets forgets no ticket that is active or recent.
LEMMA PurgeQuiet ==
  ASSUME NEW s, RecordOk(s), NEW live
  PROVE  Quiet(s, Purge(s), live) /\ (GrantOk(s) => GrantOk(Purge(s)))
<1> DEFINE e == Purge(s)
<1>1. s \in ResourceState /\ SlotAgrees(s)  BY DEF RecordOk
<1>2. /\ e.holder = s.holder /\ PolicyKept(s, e, live) /\ e.blockers = s.blockers
      /\ \A t \in Requests : e.tickets[t] =
           IF s.tickets[t].aged /\ s.tickets[t].state \notin Active THEN NoTicket ELSE s.tickets[t]
  BY <1>1 DEF Purge, ResourceState, PolicyKept
<1> HIDE DEF e
<1>3. LaunchesKept(s, e)  BY <1>2 DEF LaunchesKept, TicketStays, NoTicket
<1>4. ClosedKept(s, e)  BY <1>2 DEF ClosedKept
<1>5. ASSUME GrantOk(s)  PROVE GrantOk(e)
  <2>1. s.epoch \in Nat /\ e.epoch = s.epoch  BY <1>1, <1>2 DEF ResourceState, PolicyKept
  <2>2. \A t \in Requests : e.tickets[t].epoch <= e.epoch
    BY <1>2, <1>5, <2>1 DEF GrantOk, NoTicket
  <2>3. s.holder.state # "none" =>
          s.holder.request \in Requests /\ e.tickets[s.holder.request] = s.tickets[s.holder.request]
    BY <1>1, <1>2 DEF SlotAgrees, ResourceState, Holder, Started, Active, Unused
  <2> QED  BY <1>2, <1>5, <2>1, <2>2, <2>3 DEF GrantOk
<1> QED  BY <1>2, <1>3, <1>4, <1>5 DEF Quiet, e

\* Closing a ticket changes nothing but the ticket and its own holder.
LEMMA CloseQuiet ==
  ASSUME NEW s, RecordOk(s), NEW t \in Requests, NEW outcome \in Closed, NEW live
  PROVE  Quiet(s, Close(s, t, outcome), live) /\ (GrantOk(s) => GrantOk(Close(s, t, outcome)))
<1> DEFINE e == Close(s, t, outcome)
<1>1. s \in ResourceState /\ SlotAgrees(s)  BY DEF RecordOk
<1>2. /\ PolicyKept(s, e, live) /\ e.blockers = s.blockers
      /\ e.holder = IF s.holder.request = t THEN NoHolder ELSE s.holder
      /\ \A u \in Requests : /\ e.tickets[u].state = IF u = t THEN outcome ELSE s.tickets[u].state
                             /\ e.tickets[u].launch = s.tickets[u].launch
                             /\ e.tickets[u].aged = s.tickets[u].aged
                             /\ e.tickets[u].epoch = s.tickets[u].epoch
  BY <1>1 DEF Close, ResourceState, Ticket, PolicyKept
<1> HIDE DEF e
<1>3. LaunchesKept(s, e) /\ ClosedKept(s, e)  BY <1>2 DEF LaunchesKept, TicketStays, ClosedKept, Closed
<1>4. ASSUME GrantOk(s)  PROVE GrantOk(e)
  <2>1. s.holder.state # "none" => s.holder.request \in Requests  BY <1>1 DEF SlotAgrees
  <2> QED  BY <1>2, <1>4, <2>1 DEF GrantOk, NoHolder, PolicyKept
<1> QED  BY <1>2, <1>3, <1>4 DEF Quiet, e

\* reconcile drops the blockers that no longer block, and keeps the others.
LEMMA ReconciledQuiet ==
  ASSUME NEW s, RecordOk(s), NEW blocking, NEW gone, NEW live, live \subseteq blocking
  PROVE  /\ Quiet(s, Reconciled(s, blocking, gone), live)
         /\ GrantOk(s) => GrantOk(Reconciled(s, blocking, gone))
<1> DEFINE c == [s EXCEPT !.blockers = @ \intersect blocking]
<1>1. s \in ResourceState /\ SlotAgrees(s) /\ HolderOk(s)  BY DEF RecordOk
<1>2. /\ c.holder = s.holder /\ c.tickets = s.tickets /\ c \in ResourceState
      /\ c.blockers = s.blockers \intersect blocking /\ c.epoch = s.epoch
  BY <1>1 DEF ResourceState
<1>3. RecordOk(c)  BY <1>1, <1>2 DEF RecordOk, SlotAgrees, InState, HolderOk
<1>4. PolicyKept(s, c, live)  BY <1>1 DEF PolicyKept, ResourceState
<1> HIDE DEF c
<1>5. Quiet(s, c, live) /\ (GrantOk(s) => GrantOk(c))
  BY <1>2, <1>4 DEF Quiet, LaunchesKept, TicketStays, ClosedKept, GrantOk
<1>6. \/ Reconciled(s, blocking, gone) = c
      \/ \E o \in Closed : s.holder.request \in Requests /\ Reconciled(s, blocking, gone) = Close(c, s.holder.request, o)
  BY <1>1 DEF Reconciled, SlotAgrees, c, Closed
<1> QED  BY <1>3, <1>5, <1>6, CloseQuiet, QuietTrans

\* A grant is given under the policy in force, when no blocker is left.
LEMMA ReserveQuiet ==
  ASSUME NEW s, RecordOk(s), NEW t \in Requests, s.tickets[t].state = "queued", s.blockers = {}, NEW live
  PROVE  Quiet(s, Reserve(s, t), live) /\ (GrantOk(s) => GrantOk(Reserve(s, t)))
<1> DEFINE e == Reserve(s, t)
<1>1. s \in ResourceState  BY DEF RecordOk
<1>2. /\ PolicyKept(s, e, live) /\ e.blockers = {} /\ e.epoch = s.epoch /\ s.epoch \in Nat
      /\ \A u \in Requests : /\ u # t => e.tickets[u] = s.tickets[u]
                             /\ e.tickets[u].launch = s.tickets[u].launch
      /\ e.tickets[t].epoch = s.epoch /\ e.tickets[t].state = "reserved"
  BY <1>1 DEF Reserve, ResourceState, Ticket, PolicyKept
<1> HIDE DEF e
<1>3. LaunchesKept(s, e) /\ ClosedKept(s, e)  BY <1>2 DEF LaunchesKept, TicketStays, ClosedKept, Closed
<1>4. GrantOk(s) => GrantOk(e)  BY <1>2 DEF GrantOk
<1> QED  BY <1>2, <1>3, <1>4 DEF Quiet, e

\* Starting the reserved command, or recording its process, changes its own ticket only.
LEMMA AdvanceQuiet ==
  ASSUME NEW s, RecordOk(s), NEW l \in Launches, NEW e, NEW live,
         \/ s.holder.state = "reserved" /\ e = Start(s, l)
         \/ s.holder.state = "starting" /\ s.holder.spawner = l /\ e = Run(s, l)
  PROVE  Quiet(s, e, live) /\ (GrantOk(s) => GrantOk(e))
<1>1. s \in ResourceState /\ SlotAgrees(s)  BY DEF RecordOk
<1>2. /\ s.holder.request \in Requests
      /\ s.tickets[s.holder.request].state \notin Closed
  BY <1>1 DEF SlotAgrees, Closed
<1> DEFINE phase == IF s.holder.state = "reserved" THEN "starting" ELSE "running"
<1>3. /\ PolicyKept(s, e, live) /\ e.blockers = s.blockers /\ e.epoch = s.epoch
      /\ e.tickets = [s.tickets EXCEPT ![s.holder.request].state = phase]
      /\ \/ s.holder.state = "reserved" /\ e.holder = [s.holder EXCEPT !.state = "starting", !.spawner = l]
         \/ s.holder.state = "starting" /\ e.holder = [s.holder EXCEPT !.state = "running", !.process = l]
  BY <1>1 DEF Start, Run, ResourceState, PolicyKept
<1>4. /\ e.holder.state \in Started /\ e.holder.request = s.holder.request
      /\ s.holder.state = "starting" => e.holder.spawner = s.holder.spawner
  <2>1. s.holder \in Holder  BY <1>1 DEF ResourceState
  <2> QED  BY <1>3, <2>1 DEF Holder, Started
<1>7. \A u \in Requests : /\ u # s.holder.request => e.tickets[u] = s.tickets[u]
                          /\ u = s.holder.request => e.tickets[u].state # "queued"
                          /\ e.tickets[u].launch = s.tickets[u].launch
                          /\ e.tickets[u].epoch = s.tickets[u].epoch
  <2>1. s.tickets \in [Requests -> Ticket]  BY <1>1 DEF ResourceState
  <2>2. phase # "queued"  OBVIOUS
  <2> HIDE DEF phase
  <2> QED  BY <1>2, <1>3, <2>1, <2>2 DEF Ticket
<1>5. LaunchesKept(s, e) /\ ClosedKept(s, e)  BY <1>2, <1>7 DEF LaunchesKept, TicketStays, ClosedKept
<1>6. ASSUME GrantOk(s)  PROVE GrantOk(e)
  BY <1>2, <1>3, <1>4, <1>6, <1>7 DEF GrantOk, Started
<1> QED  BY <1>3, <1>5, <1>6 DEF Quiet

\* The tickets a run ends stay closed, and its reservation was nobody else's.
LEMMA EndOwnedQuiet ==
  ASSUME NEW s, RecordOk(s), NEW p \in Principals, NEW live
  PROVE  Quiet(s, EndOwned(s, p), live) /\ (GrantOk(s) => GrantOk(EndOwned(s, p)))
<1> DEFINE e == EndOwned(s, p)
           ended == {t \in InState(s, Unused) : s.tickets[t].owner = p}
<1>1. s \in ResourceState /\ SlotAgrees(s)  BY DEF RecordOk
<1>2. /\ PolicyKept(s, e, live) /\ e.blockers = s.blockers
      /\ e.holder = IF s.holder.request \in ended THEN NoHolder ELSE s.holder
      /\ e.tickets = [t \in Requests |->
           IF t \in ended THEN [s.tickets[t] EXCEPT !.state = "ended"] ELSE s.tickets[t]]
      /\ s.tickets \in [Requests -> Ticket]
  BY <1>1 DEF EndOwned, ResourceState, PolicyKept
<1> HIDE DEF e, ended
<1>3. \A u \in Requests : /\ e.tickets[u].state = IF u \in ended THEN "ended" ELSE s.tickets[u].state
                          /\ e.tickets[u].launch = s.tickets[u].launch
                          /\ e.tickets[u].aged = s.tickets[u].aged
                          /\ e.tickets[u].epoch = s.tickets[u].epoch
  BY <1>2 DEF Ticket
<1>4. LaunchesKept(s, e) /\ ClosedKept(s, e)  BY <1>3 DEF LaunchesKept, TicketStays, ClosedKept, Closed
<1>5. ASSUME GrantOk(s)  PROVE GrantOk(e)
  <2>1. s.holder.state # "none" => s.holder.request \in Requests  BY <1>1 DEF SlotAgrees
  <2> QED  BY <1>2, <1>3, <1>5, <2>1 DEF GrantOk, NoHolder, PolicyKept
<1> QED  BY <1>2, <1>4, <1>5 DEF Quiet, e
\* A new ticket, or an assigned one, leaves policy, closed tickets and other assignments alone.
LEMMA TicketKept ==
  ASSUME NEW s, RecordOk(s), NEW p \in Principals, NEW t \in Requests,
         NEW l \in Launches \union {None}, NEW e, NEW live,
         \/ s.tickets[t].state = "absent" /\ e = [s EXCEPT !.tickets[t] = NewTicket(s, p, "queued", l)]
         \/ /\ s.tickets[t].state = "absent" /\ s.holder.state = "none" /\ l \in Launches
            /\ e = Adopt(s, p, t, l)
         \/ s.tickets[t].state \in Unused /\ e = [s EXCEPT !.tickets[t].launch = l]
  PROVE  /\ PolicyKept(s, e, live) /\ ClosedKept(s, e)
         /\ \A u \in Requests : \/ TicketStays(s.tickets[u], e.tickets[u])
                                \/ u = t /\ e.tickets[u].launch = l /\ l # None /\ e.holder = s.holder
         /\ GrantOk(s) => GrantOk(e)
<1>1. s \in ResourceState /\ SlotAgrees(s) /\ s.tickets \in [Requests -> Ticket]
  BY DEF RecordOk, ResourceState
<1>2. /\ \/ e.holder = s.holder
         \/ e.holder.state = "running" /\ e.holder.spawner = None /\ e.tickets[t].launch = None
      /\ \A u \in Requests \ {t} : e.tickets[u] = s.tickets[u]
      /\ \/ /\ s.tickets[t].state = "absent" /\ e.tickets[t].epoch = s.epoch
            /\ e.tickets[t].launch \in {l, None}
            /\ e.tickets[t].launch = l => (e.holder = s.holder \/ l = None)
         \/ /\ s.tickets[t].state \in Unused /\ e.tickets[t].epoch = s.tickets[t].epoch
            /\ e.tickets[t].launch = l /\ e.holder = s.holder
  <2>1. CASE s.tickets[t].state = "absent" /\ e = [s EXCEPT !.tickets[t] = NewTicket(s, p, "queued", l)]
    <3>1. e.holder = s.holder /\ e.tickets = [s.tickets EXCEPT ![t] = NewTicket(s, p, "queued", l)]
      BY <1>1, <2>1 DEF ResourceState
    <3> QED  BY <1>1, <2>1, <3>1 DEF NewTicket
  <2>2. CASE s.tickets[t].state = "absent" /\ l \in Launches /\ e = Adopt(s, p, t, l)
    <3>1. /\ e.holder.state = "running" /\ e.holder.spawner = None
          /\ e.tickets = [s.tickets EXCEPT ![t] = NewTicket(s, p, "running", None)]
      BY <1>1, <2>2 DEF ResourceState, Adopt
    <3> QED  BY <1>1, <2>2, <3>1, ConstantsAssumption DEF NewTicket
  <2>3. CASE s.tickets[t].state \in Unused /\ e = [s EXCEPT !.tickets[t].launch = l]
    <3>1. e.holder = s.holder /\ e.tickets = [s.tickets EXCEPT ![t].launch = l]
      BY <1>1, <2>3 DEF ResourceState
    <3> QED  BY <1>1, <2>3, <3>1 DEF Ticket
  <2> QED  BY <2>1, <2>2, <2>3
<1>3. PolicyKept(s, e, live) /\ e.blockers = s.blockers /\ e.epoch = s.epoch /\ s.epoch \in Nat
  BY <1>1 DEF ResourceState, PolicyKept, Adopt
<1>4. ClosedKept(s, e)  BY <1>2 DEF ClosedKept, Closed, Unused
<1>5. \A u \in Requests : \/ TicketStays(s.tickets[u], e.tickets[u])
                          \/ u = t /\ e.tickets[u].launch = l /\ l # None /\ e.holder = s.holder
  BY <1>2 DEF TicketStays
<1>6. ASSUME GrantOk(s)  PROVE GrantOk(e)
  <2>1. \A u \in Requests : e.tickets[u].epoch <= e.epoch  BY <1>2, <1>3, <1>6 DEF GrantOk
  <2>2. s.holder.state # "none" => s.holder.request \in Requests /\ s.tickets[s.holder.request].state # "absent"
    BY <1>1 DEF SlotAgrees, ResourceState, Holder, Started
  <2>3. s.holder.state # "none" => e.tickets[s.holder.request].epoch = s.tickets[s.holder.request].epoch
    BY <1>2, <2>2
  <2> QED  BY <1>2, <1>3, <1>6, <2>1, <2>3 DEF GrantOk, Started
<1> QED  BY <1>3, <1>4, <1>5, <1>6

\* A new policy is of a later epoch than every grant; it waits for each admitted launch it
\* governs, but for the one that holds the resource.
LEMMA InstallKept ==
  ASSUME NEW s, RecordOk(s), NEW policy \in Policy, NEW admitted \in SUBSET Launches
  PROVE  /\ LaunchesKept(s, Install(s, policy, admitted)) /\ ClosedKept(s, Install(s, policy, admitted))
         /\ GrantOk(s) => GrantOk(Install(s, policy, admitted))
         /\ \A l \in admitted \ {HolderLaunch(s)} :
              Governs(Install(s, policy, admitted), l) => l \in Install(s, policy, admitted).blockers
<1> DEFINE e == Install(s, policy, admitted)
           revoked == {t \in Requests :
             \/ s.holder.state = "reserved" /\ s.holder.request = t
             \/ /\ s.tickets[t].state = "queued"
                /\ ~IsEnrolled(s.tickets[t].owner, policy.participants \union {policy.controller})}
<1>1. s \in ResourceState /\ SlotAgrees(s) /\ s.tickets \in [Requests -> Ticket] /\ s.epoch \in Nat
  BY DEF RecordOk, ResourceState
<1>2. /\ e.holder = IF s.holder.state = "reserved" THEN NoHolder ELSE s.holder
      /\ e.tickets = [t \in Requests |->
           IF t \in revoked THEN [s.tickets[t] EXCEPT !.state = "stale"] ELSE s.tickets[t]]
      /\ e.epoch = s.epoch + 1
  BY <1>1 DEF Install, ResourceState
<1>3. \A l \in admitted \ {HolderLaunch(s)} : Governs(e, l) => l \in e.blockers
  BY <1>1 DEF Install, ResourceState, Governs, InProfile
<1> HIDE DEF e, revoked
<1>4. \A t \in Requests : /\ e.tickets[t].state = IF t \in revoked THEN "stale" ELSE s.tickets[t].state
                          /\ e.tickets[t].launch = s.tickets[t].launch
                          /\ e.tickets[t].aged = s.tickets[t].aged
                          /\ e.tickets[t].epoch = s.tickets[t].epoch
                          /\ e.tickets[t].epoch \in Nat
  BY <1>1, <1>2 DEF Ticket
<1>5. LaunchesKept(s, e) /\ ClosedKept(s, e)  BY <1>4 DEF LaunchesKept, TicketStays, ClosedKept, Closed
<1>6. ASSUME GrantOk(s)  PROVE GrantOk(e)
  <2>1. \A t \in Requests : e.tickets[t].epoch < e.epoch  BY <1>1, <1>2, <1>4, <1>6 DEF GrantOk
  <2>2. \A t \in Requests : e.tickets[t].epoch <= e.epoch  BY <1>1, <1>2, <1>4, <2>1
  <2>3. e.holder.state # "none" => e.holder.state \in Started /\ e.holder.request \in Requests
    BY <1>1, <1>2 DEF SlotAgrees, ResourceState, Holder, NoHolder
  <2> QED  BY <2>1, <2>2, <2>3 DEF GrantOk
<1> QED  BY <1>3, <1>5, <1>6 DEF e

-----------------------------------------------------------------------------
(* The launches. *)

Armed(s, l) == s.holder.state = "starting" /\ s.holder.spawner = l

\* The resources whose reservation launch l relies on before its process is recorded there.
MustBeArmed(l, r) ==
  \/ pc[l] = "arm" /\ r \in need[l] \ left[l]
  \/ pc[l] \in {"commit", "admitted", "publish"} /\ r \in need[l]
  \/ pc[l] = "record" /\ r \in left[l]

LaunchOk(l) ==
  /\ proc[l] # "none" => pc[l] \in Spawned \union {"crashed"}
  /\ \A r \in Resources : MustBeArmed(l, r) => Armed(res[r], l)
  /\ \A r \in Resources : (proc[l] = "alive" /\ r \in need[l]) => Holds(res[r], l)
  /\ pc[l] = "cancel" => \A r \in left[l] : claim[l][r] # None

RecordsOk == \A r \in Resources : RecordOk(res[r])

GateInv == TypeOK /\ RecordsOk /\ \A l \in Launches : LaunchOk(l)

\* A step on the store that takes no started holder away from launch k.
KeepsFor(k) ==
  \A r \in Resources :
    (\/ Armed(res[r], k)
     \/ res[r].holder.state = "running" /\ res[r].holder.spawner = k /\ res[r].holder.process \notin Gone)
      => res'[r].holder = res[r].holder

\* A step on the store that takes no started holder away from any launch.
StoreKeeps == \A r \in Resources : Keeps(res[r], res'[r], Gone)

-----------------------------------------------------------------------------
\* Nothing a launch relies on changes while its own variables do not, its process at most
\* ends, and no holder is taken from it.
LEMMA LaunchFrame ==
  ASSUME GateInv, NEW k \in Launches, KeepsFor(k),
         pc'[k] = pc[k], need'[k] = need[k], left'[k] = left[k], claim'[k] = claim[k],
         \/ proc'[k] = proc[k]
         \/ proc[k] # "none" /\ proc'[k] \in {"gone", "reused"}
  PROVE  LaunchOk(k)'
<1>1. LaunchOk(k)  BY DEF GateInv
<1>2. proc'[k] # "none" => pc'[k] \in Spawned \union {"crashed"}  BY <1>1 DEF LaunchOk
<1>3. ASSUME NEW r \in Resources, MustBeArmed(k, r)'  PROVE Armed(res[r], k)'
  <2>1. MustBeArmed(k, r)  BY <1>3 DEF MustBeArmed
  <2>2. Armed(res[r], k)  BY <1>1, <2>1 DEF LaunchOk
  <2> QED  BY <2>2 DEF KeepsFor, Armed
<1>4. ASSUME NEW r \in Resources, proc'[k] = "alive", r \in need'[k]  PROVE Holds(res[r], k)'
  <2>1. proc[k] = "alive" /\ Holds(res[r], k)  BY <1>1, <1>4 DEF LaunchOk
  <2>2. res[r].holder.state = "running" => res[r].holder.process = k
    BY <2>1, ConstantsAssumption DEF GateInv, RecordsOk, RecordOk, HolderOk, Holds
  <2> QED  BY <2>1, <2>2 DEF KeepsFor, Armed, Holds, Gone, Started
<1>5. pc'[k] = "cancel" => \A r \in left'[k] : claim'[k][r] # None  BY <1>1 DEF LaunchOk
<1> QED  BY <1>2, <1>3, <1>4, <1>5 DEF LaunchOk

\* What keeps every started holder keeps those of any one launch.
LEMMA KeepsAll ==
  ASSUME StoreKeeps  PROVE \A k \in Launches : KeepsFor(k)
BY DEF StoreKeeps, KeepsFor, Keeps, Armed

\* Keeping started holders composes: an edit of an edit.
LEMMA KeepsTrans ==
  ASSUME NEW a, NEW b, NEW c, NEW gone, Keeps(a, b, gone), Keeps(b, c, gone)
  PROVE  Keeps(a, c, gone)
BY DEF Keeps

\* The record an operation without reconcile starts from is sound and keeps the holder.
LEMMA OpenedOk ==
  ASSUME RecordsOk, NEW r \in Resources
  PROVE  /\ RecordOk(Opened(r))
         /\ Keeps(res[r], Opened(r), Gone)
         /\ Opened(r).holder = res[r].holder
BY PurgeOk DEF RecordsOk, Opened, Keeps

\* The record an operation with reconcile starts from is sound; its holder is the old one or none.
LEMMA CurrentOk ==
  ASSUME RecordsOk, NEW r \in Resources
  PROVE  /\ RecordOk(Current(r))
         /\ Keeps(res[r], Current(r), Gone)
         /\ Current(r).holder \in {res[r].holder, NoHolder}
         /\ \A t \in Requests : res[r].tickets[t].state = "absent" => Current(r).tickets[t].state = "absent"
BY PurgeOk, ReconciledOk DEF RecordsOk, Current, Keeps

\* Writing a sound record that keeps the holder.
LEMMA CommitOk ==
  ASSUME TypeOK, RecordsOk, NEW r \in Resources, NEW e, Commit(r, e),
         RecordOk(e), Keeps(res[r], e, Gone)
  PROVE  RecordsOk' /\ StoreKeeps /\ res' \in [Resources -> ResourceState]
<1>1. res' = [res EXCEPT ![r] = e] /\ res \in [Resources -> ResourceState]
  BY DEF Commit, TypeOK, StoreTypeOK
<1>2. \A q \in Resources : res'[q] = IF q = r THEN e ELSE res[q]  BY <1>1
<1> QED  BY <1>1, <1>2 DEF RecordsOk, StoreKeeps, Keeps, RecordOk

\* A step that leaves the gates alone, ends processes at most and keeps every holder.
LEMMA StoreStep ==
  ASSUME GateInv, UNCHANGED gateVars, StoreTypeOK', RecordsOk', StoreKeeps,
         \A k \in Launches :
           \/ proc'[k] = proc[k]
           \/ proc[k] # "none" /\ proc'[k] \in {"gone", "reused"}
  PROVE  GateInv'
<1>1. TypeOK'  BY DEF GateInv, TypeOK, GateTypeOK, gateVars
<1>2. \A k \in Launches : LaunchOk(k)'  BY LaunchFrame, KeepsAll DEF gateVars
<1> QED  BY <1>1, <1>2 DEF GateInv

-----------------------------------------------------------------------------
\* The operations of the store, each an edit of the records that keeps every holder.

\* One edit of one record; nothing but `res` and the other store variables of tool calls.
LEMMA EditStep ==
  ASSUME GateInv, NEW r \in Resources, NEW e, Commit(r, e),
         RecordOk(e), Keeps(res[r], e, Gone),
         UNCHANGED <<ledger, proc, status, pc, need, left, claim, seen>>,
         swept' \in [Principals -> SUBSET Resources]
  PROVE  GateInv'
<1>1. RecordsOk' /\ StoreKeeps /\ res' \in [Resources -> ResourceState]
  BY CommitOk DEF GateInv
<1>2. StoreTypeOK'  BY <1>1 DEF GateInv, TypeOK, StoreTypeOK
<1>3. UNCHANGED gateVars  BY DEF gateVars
<1> QED  BY <1>1, <1>2, <1>3, StoreStep

\* A step that leaves the records alone.
LEMMA NoEditStep ==
  ASSUME GateInv, res' = res
  PROVE  RecordsOk' /\ StoreKeeps
BY DEF GateInv, RecordsOk, StoreKeeps, Keeps

\* Tool calls of status, lookup, set_controller and grant preserve the invariant.
LEMMA ToolCallStep ==
  ASSUME GateInv, NEW p \in Principals, ToolCall(p), UNCHANGED gateVars
  PROVE  GateInv'
<1> USE DEF gateVars
<1>1. RecordsOk /\ TypeOK /\ swept \in [Principals -> SUBSET Resources]
  BY DEF GateInv, TypeOK, StoreTypeOK
<1>2. ASSUME NEW r \in Resources, Status(p, r)  PROVE GateInv'
  BY <1>1, <1>2, CurrentOk, EditStep DEF Status
<1>3. ASSUME NEW r \in Resources, Lookup(p, r)  PROVE GateInv'
  BY <1>1, <1>3, OpenedOk, EditStep DEF Lookup
<1>4. ASSUME NEW r \in Resources, NEW policy \in Policies, SetController(p, r, policy)  PROVE GateInv'
  <2>1. policy \in Policy /\ Admitted \in SUBSET Launches  BY StoreAssumption DEF Admitted
  <2>2. RecordOk(Install(Current(r), policy, Admitted))
        /\ Keeps(Current(r), Install(Current(r), policy, Admitted), Gone)
    BY <1>1, <2>1, CurrentOk, InstallOk
  <2>3. Keeps(res[r], Install(Current(r), policy, Admitted), Gone)
    BY <1>1, <2>2, CurrentOk, KeepsTrans
  <2> QED  BY <1>1, <1>4, <2>2, <2>3, EditStep DEF SetController
<1>5. ASSUME NEW r \in Resources, NEW t \in Requests, Grant(p, r, t)  PROVE GateInv'
  <2>1. Current(r).holder.state = "none"  BY <1>5 DEF Grant, Grantable
  <2>2. RecordOk(Reserve(Current(r), t))  BY <1>1, <2>1, CurrentOk, ReserveOk
  <2>3. Keeps(res[r], Reserve(Current(r), t), Gone)
    BY <1>1, <2>1, CurrentOk DEF Keeps
  <2> QED  BY <1>1, <1>5, <2>2, <2>3, EditStep DEF Grant
<1> QED  BY <1>2, <1>3, <1>4, <1>5 DEF ToolCall

\* Closing a ticket that is not started takes no started holder away.
LEMMA CloseUnusedOk ==
  ASSUME RecordsOk, NEW r \in Resources, NEW t \in Requests, NEW outcome \in Closed,
         Current(r).tickets[t].state \notin Started
  PROVE  /\ RecordOk(Close(Current(r), t, outcome))
         /\ Keeps(res[r], Close(Current(r), t, outcome), Gone)
<1>1. RecordOk(Current(r)) /\ Keeps(res[r], Current(r), Gone)  BY CurrentOk
<1>2. RecordOk(Close(Current(r), t, outcome))  BY <1>1, CloseOk
<1>3. Current(r).holder.state \in Started => Current(r).holder.request # t
  BY <1>1 DEF RecordOk, SlotAgrees, Started
<1>4. Keeps(Current(r), Close(Current(r), t, outcome), Gone)
  BY <1>1, <1>3, CloseOk DEF Keeps, Started
<1> QED  BY <1>1, <1>2, <1>4, KeepsTrans

\* Cancelling a claim or a request takes no started holder away.
LEMMA CancelRequestOk ==
  ASSUME RecordsOk, NEW p \in Principals, NEW r \in Resources, NEW t \in Requests, CancelRequest(p, r, t)
  PROVE  \E e : Commit(r, e) /\ RecordOk(e) /\ Keeps(res[r], e, Gone)
<1>1. Current(r).tickets[t].state \notin Started
  BY DEF CancelRequest, Cancellable, Unused, Started
<1>2. "cancelled" \in Closed  BY DEF Closed
<1> QED  BY <1>1, <1>2, CloseUnusedOk DEF CancelRequest

\* Tickets managed by hand, and adopted commands, preserve the invariant.
LEMMA ManualCallStep ==
  ASSUME GateInv, NEW p \in Clients, ManualCall(p), UNCHANGED gateVars
  PROVE  GateInv'
<1> USE DEF gateVars
<1>1. /\ RecordsOk /\ TypeOK /\ swept \in [Principals -> SUBSET Resources]
      /\ p \in Principals /\ None \in Launches \union {None}
  BY StoreAssumption DEF GateInv, TypeOK, StoreTypeOK
<1>2. ASSUME NEW r \in Resources, NEW t \in Requests, Request(p, r, t)  PROVE GateInv'
  <2> DEFINE e == [Current(r) EXCEPT !.tickets[t] = NewTicket(Current(r), p, "queued", None)]
  <2>1. Current(r).tickets[t].state = "absent" /\ Commit(r, e)  BY <1>2 DEF Request
  <2>2. RecordOk(e) /\ e.holder = Current(r).holder
    <3>1. RecordOk(Current(r))  BY <1>1, CurrentOk
    <3>2. Current(r).tickets[t].state = "absent"  BY <2>1
    <3>3. \A s : RecordOk(s) /\ s.tickets[t].state = "absent" =>
            RecordOk([s EXCEPT !.tickets[t] = NewTicket(s, p, "queued", None)])
            /\ [s EXCEPT !.tickets[t] = NewTicket(s, p, "queued", None)].holder = s.holder
      BY <1>1, QueueOk
    <3> QED  BY <3>1, <3>2, <3>3
  <2>3. Keeps(Current(r), e, Gone)  BY <2>2 DEF Keeps
  <2>4. Keeps(res[r], e, Gone)  BY <1>1, <2>3, CurrentOk, KeepsTrans
  <2> HIDE DEF e
  <2> QED  BY <1>1, <1>2, <2>1, <2>2, <2>4, EditStep DEF Request
<1>3. ASSUME NEW r \in Resources, NEW t \in Requests, Release(p, r, t)  PROVE GateInv'
  <2>1. Current(r).tickets[t].state \notin Started /\ "released" \in Closed
    BY <1>3 DEF Release, Started, Closed
  <2> QED  BY <1>1, <1>3, <2>1, CloseUnusedOk, EditStep DEF Release
<1>4. ASSUME NEW r \in Resources, NEW t \in Requests, Cancel(p, r, t)  PROVE GateInv'
  BY <1>1, <1>4, CancelRequestOk, EditStep DEF Cancel
<1>5. ASSUME NEW r \in Resources, NEW t \in Requests, NEW l \in Launches, AdoptRunning(p, r, t, l)
      PROVE GateInv'
  <2>1. Current(r).holder.state = "none"  BY <1>5 DEF AdoptRunning
  <2>2. RecordOk(Adopt(Current(r), p, t, l))  BY <1>1, <2>1, CurrentOk, AdoptOk
  <2>3. Keeps(res[r], Adopt(Current(r), p, t, l), Gone)  BY <1>1, <2>1, CurrentOk DEF Keeps
  <2> QED  BY <1>1, <1>5, <2>2, <2>3, EditStep DEF AdoptRunning
<1> QED  BY <1>2, <1>3, <1>4, <1>5 DEF ManualCall

\* Ending a run closes its unused tickets only, and preserves the invariant.
LEMMA EndingStep ==
  ASSUME GateInv, NEW p \in Principals, Ending(p), UNCHANGED gateVars
  PROVE  GateInv'
<1> USE DEF gateVars
<1>1. RecordsOk /\ TypeOK /\ StoreTypeOK  BY DEF GateInv, TypeOK
<1>2. CASE BeginEnd(p)
  <2>1. StoreTypeOK' /\ res' = res /\ proc' = proc  BY <1>1, <1>2 DEF BeginEnd, StoreTypeOK
  <2> QED  BY <2>1, NoEditStep, StoreStep
<1>3. ASSUME NEW r \in Resources, EndRun(p, r)  PROVE GateInv'
  <2>1. RecordOk(EndOwned(Opened(r), p)) /\ Keeps(res[r], EndOwned(Opened(r), p), Gone)
    BY <1>1, OpenedOk, EndOwnedOk, KeepsTrans
  <2>2. swept' \in [Principals -> SUBSET Resources]  BY <1>1, <1>3 DEF EndRun, StoreTypeOK
  <2> QED  BY <1>3, <2>1, <2>2, EditStep DEF EndRun
<1>4. CASE EndRunFails(p)
  <2>1. StoreTypeOK' /\ res' = res /\ proc' = proc  BY <1>1, <1>4 DEF EndRunFails, StoreTypeOK
  <2> QED  BY <2>1, NoEditStep, StoreStep
<1>5. CASE CloseCoordinator(p)
  <2>1. StoreTypeOK' /\ res' = res /\ proc' = proc  BY <1>1, <1>5 DEF CloseCoordinator, StoreTypeOK
  <2> QED  BY <2>1, NoEditStep, StoreStep
<1> QED  BY <1>2, <1>3, <1>4, <1>5 DEF Ending

\* Time and the process table preserve the invariant: trees only end.
LEMMA EnvironmentStep ==
  ASSUME GateInv, Environment, UNCHANGED gateVars
  PROVE  GateInv'
<1>1. RecordsOk /\ TypeOK /\ StoreTypeOK  BY DEF GateInv, TypeOK
<1>2. ASSUME NEW r \in Resources, Lapse(r)  PROVE GateInv'
  <2> DEFINE e == [res[r] EXCEPT !.holder.lapsed = TRUE]
  <2>1. res[r] \in ResourceState /\ RecordOk(res[r]) /\ res[r].holder.state = "reserved"
    BY <1>1, <1>2 DEF RecordsOk, StoreTypeOK, Lapse
  <2>2. /\ e.holder = [res[r].holder EXCEPT !.lapsed = TRUE] /\ e.tickets = res[r].tickets
        /\ e = [res[r] EXCEPT !.tickets = e.tickets, !.holder = e.holder]
        /\ e.tickets \in [Requests -> Ticket]
    BY <2>1 DEF ResourceState
  <2>3. e.holder \in Holder  BY <2>1, <2>2 DEF ResourceState, Holder
  <2>4. Commit(r, e)  BY <1>1, <1>2 DEF Lapse, Commit, StoreTypeOK
  <2> HIDE DEF e
  <2>5. RecordOk(e) /\ Keeps(res[r], e, Gone)  BY <2>1, <2>2, <2>3, AgeOk
  <2>6. swept' \in [Principals -> SUBSET Resources]  BY <1>1, <1>2 DEF Lapse, StoreTypeOK
  <2> QED  BY <1>2, <2>4, <2>5, <2>6, EditStep DEF Lapse, gateVars
<1>3. CASE DayPasses
  <2>1. ASSUME NEW r \in Resources
        PROVE  RecordOk(res[r])' /\ Keeps(res[r], res'[r], Gone)
    <3> DEFINE s == res[r]
               aged == [t \in Requests |-> IF s.tickets[t].state = "absent" THEN NoTicket
                                            ELSE [s.tickets[t] EXCEPT !.aged = TRUE]]
               held == IF s.holder.state = "reserved" THEN [s.holder EXCEPT !.lapsed = TRUE] ELSE s.holder
               e == res'[r]
    <3>1. s \in ResourceState /\ RecordOk(s)  BY <1>1 DEF RecordsOk, StoreTypeOK
    <3>2. s.tickets \in [Requests -> Ticket] /\ s.holder \in Holder  BY <3>1 DEF ResourceState
    <3>3. e = [s EXCEPT !.tickets = aged, !.holder = held]  BY <1>3 DEF DayPasses
    <3> HIDE DEF s, e
    <3>4. aged \in [Requests -> Ticket] /\ \A t \in Requests : aged[t].state = s.tickets[t].state
      BY <3>2 DEF Ticket, NoTicket
    <3>5. held \in Holder  BY <3>2 DEF Holder
    <3>6. \/ held = s.holder
          \/ s.holder.state = "reserved" /\ held = [s.holder EXCEPT !.lapsed = TRUE]
      OBVIOUS
    <3> HIDE DEF aged, held
    <3>7. e.tickets = aged /\ e.holder = held  BY <3>1, <3>3 DEF ResourceState
    <3>8. RecordOk(e) /\ Keeps(s, e, Gone)
      BY <3>1, <3>3, <3>4, <3>5, <3>6, <3>7, AgeOk
    <3> QED  BY <3>8 DEF s, e
  <2>2. RecordsOk' /\ StoreKeeps  BY <2>1 DEF RecordsOk, StoreKeeps
  <2>3. res' \in [Resources -> ResourceState]
    <3>1. \A r \in Resources : res'[r] \in ResourceState  BY <2>2 DEF RecordsOk, RecordOk
    <3> QED  BY <1>3, <3>1 DEF DayPasses
  <2>4. StoreTypeOK' /\ proc' = proc  BY <1>1, <1>3, <2>3 DEF DayPasses, StoreTypeOK
  <2> QED  BY <2>2, <2>4, StoreStep
<1>4. ASSUME NEW l \in Launches, ProcessExits(l) \/ GroupIdReused(l) \/ StrangerExits(l)
      PROVE GateInv'
  <2>1. /\ StoreTypeOK' /\ res' = res
        /\ \A k \in Launches : \/ proc'[k] = proc[k]
                               \/ proc[k] # "none" /\ proc'[k] \in {"gone", "reused"}
    BY <1>1, <1>4 DEF StoreTypeOK, ProcessStates, ProcessExits, GroupIdReused, StrangerExits
  <2> QED  BY <2>1, NoEditStep, StoreStep
<1> QED  BY <1>2, <1>3, <1>4 DEF Environment

-----------------------------------------------------------------------------
(* The steps of launch l.  What they do to the records concerns no other launch; what they *)
(* do to l is shown step by step.                                                           *)

\* A step of launch l that keeps every other launch's holders.
LEMMA GateStep ==
  ASSUME GateInv, NEW l \in Launches, TypeOK', RecordsOk', LaunchOk(l)',
         \A k \in Launches \ {l} : /\ KeepsFor(k)
                                   /\ pc'[k] = pc[k] /\ need'[k] = need[k] /\ left'[k] = left[k] /\ claim'[k] = claim[k]
                                   /\ proc'[k] = proc[k]
  PROVE  GateInv'
<1>1. \A k \in Launches \ {l} : LaunchOk(k)'  BY LaunchFrame
<1> QED  BY <1>1 DEF GateInv

\* A launch that has no process, relies on no reservation and cancels no claim.
LEMMA IdleOk ==
  ASSUME NEW l \in Launches, proc'[l] = "none", pc'[l] # "cancel",
         \A r \in Resources : ~MustBeArmed(l, r)'
  PROVE  LaunchOk(l)'
BY DEF LaunchOk

\* A gate step on the variables of launch l is well typed.
LEMMA GateTypes ==
  ASSUME TypeOK, NEW l \in Launches, NEW phase \in Phases, GoTo(l, phase)
  PROVE  pc' \in [Launches -> Phases] /\ pc'[l] = phase /\ \A k \in Launches \ {l} : pc'[k] = pc[k]
BY DEF TypeOK, GateTypeOK, GoTo

\* Moving a launch to another phase and other resources keeps the types.
LEMMA VisitTypes ==
  ASSUME TypeOK, NEW l \in Launches, NEW rs \in SUBSET Resources, Visit(l, rs)
  PROVE  /\ left' \in [Launches -> SUBSET Resources] /\ left'[l] = rs
         /\ \A k \in Launches \ {l} : left'[k] = left[k]
BY DEF TypeOK, GateTypeOK, Visit

\* A launch outside its spawned life has no process.
LEMMA NoProcess ==
  ASSUME GateInv, NEW l \in Launches, pc[l] \notin Spawned \union {"crashed"}
  PROVE  proc[l] = "none"
BY DEF GateInv, LaunchOk

\* A step of launch l that writes no record, or one record keeping every holder.
LEMMA PlainStep ==
  ASSUME GateInv, NEW l \in Launches, RecordsOk', StoreKeeps, TypeOK', LaunchOk(l)',
         proc' = proc,
         \A k \in Launches \ {l} : pc'[k] = pc[k] /\ need'[k] = need[k] /\ left'[k] = left[k] /\ claim'[k] = claim[k]
  PROVE  GateInv'
BY KeepsAll, GateStep

\* A launch that never spawned may drop its local variables.
LEMMA ForgetStep ==
  ASSUME GateInv, NEW l \in Launches, Forget(l), proc[l] = "none", RecordsOk', StoreKeeps,
         res' \in [Resources -> ResourceState],
         ledger' \in [Launches -> {"absent", "admitted", "published"}],
         UNCHANGED <<proc, status, swept>>
  PROVE  GateInv'
<1>1. TypeOK /\ StoreTypeOK /\ GateTypeOK  BY DEF GateInv, TypeOK
<1>2. StoreTypeOK'  BY <1>1 DEF StoreTypeOK
<1>3. NoClaims \in [Resources -> Requests \union {None}] /\ NoEpochs \in [Resources -> Nat]
  BY DEF NoClaims, NoEpochs
<1>4. GateTypeOK'  BY <1>1, <1>3 DEF GateTypeOK, Forget, GoTo, Phases
<1>5. pc'[l] = "refused" /\ proc'[l] = "none"  BY <1>1 DEF GateTypeOK, Forget, GoTo
<1>6. LaunchOk(l)'  BY <1>5, IdleOk DEF MustBeArmed
<1>7. \A k \in Launches \ {l} : pc'[k] = pc[k] /\ need'[k] = need[k] /\ left'[k] = left[k] /\ claim'[k] = claim[k]
  BY <1>1 DEF GateTypeOK, Forget, GoTo
<1> QED  BY <1>2, <1>4, <1>6, <1>7, PlainStep DEF TypeOK

\* A launch that fails to prepare turns to undoing.
LEMMA UnwindStep ==
  ASSUME GateInv, NEW l \in Launches, NEW rs \in SUBSET Resources, Unwind(l, rs),
         proc[l] = "none", RecordsOk', StoreKeeps, StoreTypeOK', proc' = proc,
         UNCHANGED <<need, claim, seen>>
  PROVE  GateInv'
<1>1. TypeOK /\ StoreTypeOK /\ GateTypeOK  BY DEF GateInv, TypeOK
<1>2. GateTypeOK'  BY <1>1 DEF GateTypeOK, Unwind, GoTo, Visit, Phases, Undoing
<1>3. pc'[l] = "unwind" /\ proc'[l] = "none"  BY <1>1 DEF GateTypeOK, Unwind, GoTo
<1>4. LaunchOk(l)'  BY <1>3, IdleOk DEF MustBeArmed
<1>5. \A k \in Launches \ {l} : pc'[k] = pc[k] /\ need'[k] = need[k] /\ left'[k] = left[k] /\ claim'[k] = claim[k]
  BY <1>1 DEF GateTypeOK, Unwind, GoTo, Visit
<1> QED  BY <1>2, <1>4, <1>5, PlainStep DEF TypeOK

-----------------------------------------------------------------------------
(* prepareCommandCoordination *)

\* Surveying a resource preserves the invariant: nothing is armed yet.
LEMMA SurveyStep ==
  ASSUME GateInv, NEW l \in Launches, NEW r \in Resources, Survey(l, r)
  PROVE  GateInv'
<1>1. TypeOK /\ StoreTypeOK /\ GateTypeOK /\ RecordsOk  BY DEF GateInv, TypeOK
<1>2. RecordsOk' /\ StoreKeeps /\ res' \in [Resources -> ResourceState]
  BY <1>1, CurrentOk, CommitOk DEF Survey
<1>3. StoreTypeOK'  BY <1>1, <1>2 DEF StoreTypeOK, Survey
<1> DEFINE required == IF Governs(Current(r), l) THEN need[l] \union {r} ELSE need[l]
           rest == left[l] \ {r}
<1>4. required \in SUBSET Resources /\ rest \in SUBSET Resources  BY <1>1 DEF GateTypeOK
<1>5. /\ pc[l] = "survey" /\ need' = [need EXCEPT ![l] = required] /\ UNCHANGED <<claim, seen, proc>>
      /\ \/ GoTo(l, "survey") /\ Visit(l, rest)
         \/ GoTo(l, "claim") /\ Visit(l, required)
         \/ required = {} /\ GoTo(l, "commit") /\ Visit(l, {})
  BY DEF Survey
<1> HIDE DEF required, rest
<1>6. /\ GateTypeOK'
      /\ \A k \in Launches \ {l} : pc'[k] = pc[k] /\ need'[k] = need[k] /\ left'[k] = left[k] /\ claim'[k] = claim[k]
  BY <1>1, <1>4, <1>5 DEF GateTypeOK, GoTo, Visit, Phases, Preparing
<1>7. \/ pc'[l] \in {"survey", "claim"}
      \/ pc'[l] = "commit" /\ need'[l] = {}
  BY <1>1, <1>5 DEF GateTypeOK, GoTo
<1>8. proc'[l] = "none"  BY <1>5, NoProcess DEF Spawned
<1>9. LaunchOk(l)'  BY <1>7, <1>8, IdleOk DEF MustBeArmed
<1> QED  BY <1>2, <1>3, <1>5, <1>6, <1>9, PlainStep DEF TypeOK

\* Claiming a ticket preserves the invariant: a claim holds nothing by itself.
LEMMA ClaimStep ==
  ASSUME GateInv, NEW l \in Launches, NEW r \in Resources, NEW t \in Requests, Claim(l, r, t)
  PROVE  GateInv'
<1>1. /\ TypeOK /\ StoreTypeOK /\ GateTypeOK /\ RecordsOk
      /\ OwnerOf[l] \in Principals /\ l \in Launches \union {None}
  BY ConstantsAssumption DEF GateInv, TypeOK
<1>2. \E e : Commit(r, e) /\ RecordOk(e) /\ Keeps(res[r], e, Gone)
  <2>1. CASE Commit(r, [Current(r) EXCEPT !.tickets[t].launch = l])
    <3> DEFINE e == [Current(r) EXCEPT !.tickets[t].launch = l]
    <3>1. RecordOk(e) /\ e.holder = Current(r).holder  BY <1>1, CurrentOk, AssignOk
    <3>2. Keeps(Current(r), e, Gone)  BY <3>1 DEF Keeps
    <3> HIDE DEF e
    <3> QED  BY <1>1, <2>1, <3>1, <3>2, CurrentOk, KeepsTrans DEF e
  <2>2. CASE FreshId(t) /\ Commit(r, [Current(r) EXCEPT !.tickets[t] = NewTicket(Current(r), OwnerOf[l], "queued", l)])
    <3> DEFINE e == [Current(r) EXCEPT !.tickets[t] = NewTicket(Current(r), OwnerOf[l], "queued", l)]
    <3>1. Current(r).tickets[t].state = "absent"  BY <1>1, <2>2, CurrentOk DEF FreshId
    <3>2. RecordOk(e) /\ e.holder = Current(r).holder  BY <1>1, <3>1, CurrentOk, QueueOk
    <3>3. Keeps(Current(r), e, Gone)  BY <3>2 DEF Keeps
    <3> HIDE DEF e
    <3> QED  BY <1>1, <2>2, <3>2, <3>3, CurrentOk, KeepsTrans DEF e
  <2> QED  BY <2>1, <2>2 DEF Claim
<1>3. RecordsOk' /\ StoreKeeps /\ res' \in [Resources -> ResourceState]
  BY <1>1, <1>2, CommitOk
<1>4. StoreTypeOK'  BY <1>1, <1>3 DEF StoreTypeOK, Claim
<1>5. proc' = proc /\ UNCHANGED <<need, seen>> /\ proc[l] = "none"
  BY NoProcess DEF Claim, Spawned
<1>6. CASE GoTo(l, "wait") /\ claim' = [claim EXCEPT ![l][r] = t] /\ UNCHANGED left
  <2>1. GateTypeOK'  BY <1>1, <1>5, <1>6 DEF GateTypeOK, GoTo, Phases, Preparing
  <2>2. pc'[l] = "wait" /\ \A k \in Launches \ {l} : pc'[k] = pc[k]
    BY <1>1, <1>6 DEF GateTypeOK, GoTo
  <2>3. LaunchOk(l)'  BY <1>5, <2>2, IdleOk DEF MustBeArmed
  <2> QED  BY <1>3, <1>4, <1>5, <1>6, <2>1, <2>2, <2>3, PlainStep DEF TypeOK
<1>7. CASE Unwind(l, {}) /\ UNCHANGED claim
  BY <1>3, <1>4, <1>5, <1>7, UnwindStep
<1> QED  BY <1>6, <1>7 DEF Claim

\* Observing a grant preserves the invariant.
LEMMA AwaitGrantStep ==
  ASSUME GateInv, NEW l \in Launches, NEW r \in Resources, AwaitGrant(l, r)
  PROVE  GateInv'
<1>1. TypeOK /\ StoreTypeOK /\ GateTypeOK /\ RecordsOk  BY DEF GateInv, TypeOK
<1>2. RecordsOk' /\ StoreKeeps /\ res' \in [Resources -> ResourceState]
  BY <1>1, CurrentOk, CommitOk DEF AwaitGrant
<1>3. StoreTypeOK'  BY <1>1, <1>2 DEF StoreTypeOK, AwaitGrant
<1>4. Current(r).epoch \in Nat  BY <1>1, CurrentOk DEF RecordOk, ResourceState
<1>5. /\ proc' = proc /\ UNCHANGED <<need, claim>> /\ pc[l] = "wait"
      /\ seen' = [seen EXCEPT ![l][r] = Current(r).epoch]
      /\ \/ GoTo(l, "claim") /\ Visit(l, left[l] \ {r})
         \/ GoTo(l, "arm") /\ Visit(l, need[l])
  BY DEF AwaitGrant
<1>6. /\ GateTypeOK'
      /\ \A k \in Launches \ {l} : pc'[k] = pc[k] /\ need'[k] = need[k] /\ left'[k] = left[k] /\ claim'[k] = claim[k]
  BY <1>1, <1>4, <1>5 DEF GateTypeOK, GoTo, Visit, Phases, Preparing
<1>7. \/ pc'[l] = "claim"
      \/ pc'[l] = "arm" /\ left'[l] = need'[l]
  BY <1>1, <1>5 DEF GateTypeOK, GoTo, Visit
<1>8. proc'[l] = "none"  BY <1>5, NoProcess DEF Spawned
<1>9. LaunchOk(l)'  BY <1>7, <1>8, IdleOk DEF MustBeArmed
<1> QED  BY <1>2, <1>3, <1>5, <1>6, <1>9, PlainStep DEF TypeOK

\* Arming a reservation makes it the launch's own, and takes nothing from the others.
LEMMA BeforeSpawnStep ==
  ASSUME GateInv, NEW l \in Launches, NEW r \in Resources, BeforeSpawn(l, r)
  PROVE  GateInv'
<1> DEFINE e == Start(Current(r), l)
           rest == left[l] \ {r}
<1>1. TypeOK /\ StoreTypeOK /\ GateTypeOK /\ RecordsOk /\ LaunchOk(l)  BY DEF GateInv, TypeOK
<1>2. Current(r).holder.state = "reserved"  BY DEF BeforeSpawn, Armable
<1>3. RecordOk(e) /\ Armed(e, l) /\ Commit(r, e)
  BY <1>1, <1>2, CurrentOk, StartOk DEF Armed, BeforeSpawn
<1>4. Keeps(res[r], e, Gone)
  <2>1. Keeps(Current(r), e, Gone)  BY <1>2 DEF Keeps
  <2> QED  BY <1>1, <2>1, CurrentOk, KeepsTrans
<1>5. rest \in SUBSET Resources /\ need[l] \ left[l] \in SUBSET Resources  BY <1>1 DEF GateTypeOK
<1>6. /\ proc' = proc /\ UNCHANGED <<need, claim, seen, ledger, status, swept>> /\ pc[l] = "arm"
      /\ \/ Visit(l, rest) /\ GoTo(l, "arm")
         \/ rest = {} /\ Visit(l, rest) /\ GoTo(l, "commit")
         \/ Unwind(l, need[l] \ left[l])
  BY DEF BeforeSpawn
<1> HIDE DEF e
<1>7. RecordsOk' /\ StoreKeeps /\ res' \in [Resources -> ResourceState]
  BY <1>1, <1>3, <1>4, CommitOk
<1>8. StoreTypeOK'  BY <1>1, <1>6, <1>7 DEF StoreTypeOK
<1>9. proc[l] = "none" /\ res'[r] = e /\ \A q \in Resources \ {r} : res'[q] = res[q]
  BY <1>1, <1>3, <1>6, NoProcess DEF Spawned, Commit, StoreTypeOK
<1>10. CASE Visit(l, rest) /\ (GoTo(l, "arm") \/ (rest = {} /\ GoTo(l, "commit")))
  <2>1. /\ GateTypeOK' /\ left'[l] = rest
        /\ pc'[l] = "arm" \/ (rest = {} /\ pc'[l] = "commit")
        /\ \A k \in Launches \ {l} : pc'[k] = pc[k] /\ need'[k] = need[k] /\ left'[k] = left[k] /\ claim'[k] = claim[k]
    BY <1>1, <1>5, <1>6, <1>10 DEF GateTypeOK, GoTo, Visit, Phases, Preparing
  <2>2. ASSUME NEW q \in Resources, MustBeArmed(l, q)'  PROVE Armed(res[q], l)'
    <3>1. q \in need[l] /\ q \notin rest  BY <1>6, <2>1, <2>2 DEF MustBeArmed
    <3>2. CASE q = r  BY <1>3, <1>9, <3>2
    <3>3. CASE q # r
      <4>1. MustBeArmed(l, q)  BY <1>6, <3>1, <3>3 DEF MustBeArmed
      <4> QED  BY <1>1, <1>9, <3>3, <4>1 DEF LaunchOk
    <3> QED  BY <3>2, <3>3
  <2>3. LaunchOk(l)'  BY <1>6, <1>9, <2>1, <2>2 DEF LaunchOk
  <2> QED  BY <1>6, <1>7, <1>8, <2>1, <2>3, PlainStep DEF TypeOK
<1>11. CASE Unwind(l, need[l] \ left[l])
  BY <1>5, <1>6, <1>7, <1>8, <1>9, <1>11, UnwindStep
<1> QED  BY <1>6, <1>10, <1>11

\* What a launch relies on stays armed under a step that keeps every holder.
LEMMA StayArmed ==
  ASSUME GateInv, StoreKeeps, NEW l \in Launches, NEW r \in Resources, MustBeArmed(l, r)
  PROVE  Armed(res[r], l)'
<1>1. Armed(res[r], l)  BY DEF GateInv, LaunchOk
<1> QED  BY <1>1 DEF StoreKeeps, Keeps, Armed

\* An admitted launch has armed every resource it needs.
LEMMA BeginLaunchStep ==
  ASSUME GateInv, NEW l \in Launches, BeginLaunch(l)
  PROVE  GateInv'
<1>1. TypeOK /\ StoreTypeOK /\ GateTypeOK /\ RecordsOk  BY DEF GateInv, TypeOK
<1>2. res' = [r \in Resources |-> Current(r)]  BY DEF BeginLaunch
<1>3. RecordsOk' /\ StoreKeeps  BY <1>1, <1>2, CurrentOk DEF RecordsOk, StoreKeeps
<1>4. res' \in [Resources -> ResourceState]
  BY <1>1, <1>2, CurrentOk DEF RecordOk
<1>5. ledger' \in [Launches -> {"absent", "admitted", "published"}]
  BY <1>1 DEF BeginLaunch, StoreTypeOK
<1>6. StoreTypeOK'  BY <1>1, <1>4, <1>5 DEF StoreTypeOK, BeginLaunch
<1>7. /\ pc[l] = "commit" /\ proc' = proc /\ UNCHANGED <<need, claim, seen>>
      /\ need[l] \in SUBSET Resources
      /\ (GoTo(l, "admitted") /\ Visit(l, {})) \/ Unwind(l, need[l])
  BY <1>1 DEF BeginLaunch, GateTypeOK
<1>8. proc[l] = "none"  BY <1>7, NoProcess DEF Spawned
<1>9. CASE GoTo(l, "admitted") /\ Visit(l, {})
  <2>1. /\ GateTypeOK' /\ pc'[l] = "admitted"
        /\ \A k \in Launches \ {l} : pc'[k] = pc[k] /\ need'[k] = need[k] /\ left'[k] = left[k] /\ claim'[k] = claim[k]
    BY <1>1, <1>7, <1>9 DEF GateTypeOK, GoTo, Visit, Phases
  <2>2. ASSUME NEW r \in Resources, MustBeArmed(l, r)'  PROVE Armed(res[r], l)'
    <3>1. MustBeArmed(l, r)  BY <1>7, <2>1, <2>2 DEF MustBeArmed
    <3> QED  BY <1>3, <3>1, StayArmed
  <2>3. LaunchOk(l)'  BY <1>7, <1>8, <2>1, <2>2 DEF LaunchOk
  <2> QED  BY <1>3, <1>6, <1>7, <2>1, <2>3, PlainStep DEF TypeOK
<1>10. CASE Unwind(l, need[l])
  BY <1>3, <1>6, <1>7, <1>8, <1>10, UnwindStep
<1> QED  BY <1>7, <1>9, <1>10

\* Every way a preparation fails.
LEMMA PrepareFailureStep ==
  ASSUME GateInv, NEW l \in Launches,
         \/ SurveyFails(l) \/ ClaimFails(l) \/ WaitFails(l) \/ ArmFails(l) \/ BeginLaunchFails(l)
  PROVE  GateInv'
<1>1. TypeOK /\ StoreTypeOK /\ GateTypeOK /\ RecordsOk  BY DEF GateInv, TypeOK
<1>2. proc[l] = "none" /\ UNCHANGED storeVars
  BY NoProcess DEF SurveyFails, ClaimFails, WaitFails, ArmFails, BeginLaunchFails, Spawned
<1>3. UNCHANGED <<res, ledger, proc, status, swept>>  BY <1>2 DEF storeVars
<1>4. StoreTypeOK' /\ RecordsOk' /\ StoreKeeps  BY <1>1, <1>3, NoEditStep DEF StoreTypeOK
<1>5. CASE SurveyFails(l)
  BY <1>1, <1>2, <1>3, <1>4, <1>5, ForgetStep DEF SurveyFails, StoreTypeOK
<1>6. CASE ClaimFails(l) \/ WaitFails(l) \/ ArmFails(l) \/ BeginLaunchFails(l)
  <2>1. /\ UNCHANGED <<need, claim, seen>>
        /\ Unwind(l, {}) \/ Unwind(l, need[l] \ left[l]) \/ Unwind(l, need[l])
    BY <1>6 DEF ClaimFails, WaitFails, ArmFails, BeginLaunchFails
  <2>2. need[l] \in SUBSET Resources  BY <1>1 DEF GateTypeOK
  <2> QED  BY <1>2, <1>3, <1>4, <2>1, <2>2, UnwindStep
<1> QED  BY <1>5, <1>6

\* Every step of prepareCommandCoordination preserves the invariant.
LEMMA PrepareStep ==
  ASSUME GateInv, NEW l \in Launches, Prepare(l)
  PROVE  GateInv'
BY PrepareFailureStep, BeginLaunchStep, SurveyStep, AwaitGrantStep, BeforeSpawnStep, ClaimStep
   DEF Prepare

-----------------------------------------------------------------------------
(* The launch's own holder ends or changes: no other launch is concerned. *)

\* Writing a sound record whose holder was launch l's keeps the holders of the other launches.
LEMMA CommitOwnOk ==
  ASSUME TypeOK, RecordsOk, NEW r \in Resources, NEW e, Commit(r, e), RecordOk(e),
         NEW l \in Launches, res[r].holder.spawner = l
  PROVE  /\ RecordsOk' /\ res' \in [Resources -> ResourceState]
         /\ res'[r] = e /\ \A q \in Resources \ {r} : res'[q] = res[q]
         /\ \A k \in Launches \ {l} : KeepsFor(k)
<1>1. res' = [res EXCEPT ![r] = e] /\ res \in [Resources -> ResourceState]
  BY DEF Commit, TypeOK, StoreTypeOK
<1>2. \A q \in Resources : res'[q] = IF q = r THEN e ELSE res[q]  BY <1>1
<1> QED  BY <1>1, <1>2 DEF RecordsOk, KeepsFor, Armed, RecordOk

\* Closing one's own holder on the record a transaction opened.
LEMMA CloseOwnOk ==
  ASSUME RecordsOk, NEW r \in Resources, NEW outcome \in Closed, Opened(r).holder.state # "none"
  PROVE  RecordOk(Close(Opened(r), Opened(r).holder.request, outcome))
<1>1. RecordOk(Opened(r)) /\ Opened(r).holder.request \in Requests
  BY OpenedOk DEF RecordOk, SlotAgrees
<1> QED  BY <1>1, CloseOk

\* Confirming that no process was spawned frees a resource of that launch only.
LEMMA ConfirmSpawnFailureStep ==
  ASSUME GateInv, NEW l \in Launches, NEW r \in Resources, ConfirmSpawnFailure(l, r)
  PROVE  GateInv'
<1>1. TypeOK /\ StoreTypeOK /\ GateTypeOK /\ RecordsOk  BY DEF GateInv, TypeOK
<1>2. /\ UNCHANGED <<ledger, proc, status, swept, pc, need, claim, seen>>
      /\ Visit(l, left[l] \ {r}) /\ pc[l] \in {"unwind", "abort"}
  BY DEF ConfirmSpawnFailure
<1>3. /\ RecordsOk' /\ res' \in [Resources -> ResourceState]
      /\ \A k \in Launches \ {l} : KeepsFor(k)
  <2>1. CASE Holds(Opened(r), l) /\ Opened(r).holder.state = "starting"
    <3>1. Commit(r, Close(Opened(r), Opened(r).holder.request, "released"))
      BY <2>1 DEF ConfirmSpawnFailure, SpawnFailed
    <3>2. RecordOk(Close(Opened(r), Opened(r).holder.request, "released"))
      BY <1>1, <2>1, CloseOwnOk DEF Closed
    <3>3. res[r].holder.spawner = l  BY <1>1, <2>1, OpenedOk DEF Holds
    <3> QED  BY <1>1, <3>1, <3>2, <3>3, CommitOwnOk
  <2>2. CASE ~(Holds(Opened(r), l) /\ Opened(r).holder.state = "starting")
    <3>1. res' = res  BY <2>2 DEF ConfirmSpawnFailure
    <3> QED  BY <1>1, <3>1 DEF RecordsOk, KeepsFor, StoreTypeOK
  <2> QED  BY <2>1, <2>2
<1>4. TypeOK'  BY <1>1, <1>2, <1>3 DEF TypeOK, StoreTypeOK, GateTypeOK, Visit
<1>5. proc'[l] = "none" /\ pc'[l] \in {"unwind", "abort"}  BY <1>2, NoProcess DEF Spawned
<1>6. LaunchOk(l)'  BY <1>5, IdleOk DEF MustBeArmed
<1>7. \A k \in Launches \ {l} : left'[k] = left[k]  BY <1>1, <1>2 DEF GateTypeOK, Visit
<1> QED  BY <1>2, <1>3, <1>4, <1>6, <1>7, GateStep

\* The steps of the undoing that write no record, and cancel_request.
LEMMA UndoVisitStep ==
  ASSUME GateInv, NEW l \in Launches, NEW r \in Resources,
         ConfirmSkipped(l, r) \/ CancelClaim(l, r) \/ CancelClaimSkipped(l, r)
  PROVE  GateInv'
<1>1. TypeOK /\ StoreTypeOK /\ GateTypeOK /\ RecordsOk  BY DEF GateInv, TypeOK
<1>2. /\ UNCHANGED <<ledger, proc, status, swept, pc, need, claim, seen>>
      /\ Visit(l, left[l] \ {r}) /\ pc[l] \in {"unwind", "abort", "cancel"}
  BY DEF ConfirmSkipped, CancelClaim, CancelClaimSkipped, storeVars
<1>3. RecordsOk' /\ StoreKeeps /\ res' \in [Resources -> ResourceState]
  <2>1. CASE ConfirmSkipped(l, r) \/ CancelClaimSkipped(l, r)
    <3>1. res' = res  BY <2>1 DEF ConfirmSkipped, CancelClaimSkipped, storeVars
    <3> QED  BY <1>1, <3>1, NoEditStep DEF StoreTypeOK
  <2>2. CASE CancelClaim(l, r)
    <3>1. CancelRequest(OwnerOf[l], r, claim[l][r]) /\ OwnerOf[l] \in Principals
      BY <2>2, ConstantsAssumption DEF CancelClaim
    <3>2. claim[l][r] \in Requests
      <4>1. claim[l][r] \in Requests \union {None}  BY <1>1 DEF GateTypeOK
      <4>2. claim[l][r] # None  BY <2>2 DEF GateInv, LaunchOk, CancelClaim
      <4> QED  BY <4>1, <4>2
    <3> QED  BY <1>1, <3>1, <3>2, CancelRequestOk, CommitOk
  <2> QED  BY <2>1, <2>2
<1>4. TypeOK'  BY <1>1, <1>2, <1>3 DEF TypeOK, StoreTypeOK, GateTypeOK, Visit
<1>5. proc'[l] = "none" /\ pc'[l] \in {"unwind", "abort", "cancel"}  BY <1>2, NoProcess DEF Spawned
<1>6. LaunchOk(l)'
  <2>1. left'[l] = left[l] \ {r} /\ claim' = claim  BY <1>1, <1>2 DEF GateTypeOK, Visit
  <2>2. pc'[l] = "cancel" => \A q \in left'[l] : claim'[l][q] # None
    BY <1>2, <2>1 DEF GateInv, LaunchOk
  <2> QED  BY <1>5, <2>2 DEF LaunchOk, MustBeArmed
<1>7. \A k \in Launches \ {l} : left'[k] = left[k]  BY <1>1, <1>2 DEF GateTypeOK, Visit
<1> QED  BY <1>2, <1>3, <1>4, <1>6, <1>7, PlainStep

\* finishLaunch reconciles records, in whatever prefix of them.
LEMMA RemoveLaunchOk ==
  ASSUME TypeOK, RecordsOk, NEW l \in Launches, RemoveLaunch(l)
  PROVE  /\ RecordsOk' /\ StoreKeeps /\ res' \in [Resources -> ResourceState]
         /\ ledger' \in [Launches -> {"absent", "admitted", "published"}]
<1>1. PICK n : res' = [r \in Resources |->
        IF r <= n THEN Reconciled(Opened(r), Blocking \ {l}, Gone) ELSE res[r]]
  BY DEF RemoveLaunch
<1>2. ASSUME NEW r \in Resources
      PROVE  RecordOk(res'[r]) /\ Keeps(res[r], res'[r], Gone)
  <2> DEFINE e == Reconciled(Opened(r), Blocking \ {l}, Gone)
  <2>1. RecordOk(Opened(r)) /\ Keeps(res[r], Opened(r), Gone)  BY OpenedOk
  <2>2. RecordOk(e) /\ Keeps(Opened(r), e, Gone)  BY <2>1, ReconciledOk
  <2>3. Keeps(res[r], e, Gone)  BY <2>1, <2>2, KeepsTrans
  <2> HIDE DEF e
  <2>4. res'[r] = e \/ res'[r] = res[r]  BY <1>1 DEF e
  <2> QED  BY <2>2, <2>3, <2>4 DEF RecordsOk, Keeps
<1>3. res' \in [Resources -> ResourceState]
  <2>1. \A r \in Resources : res'[r] \in ResourceState  BY <1>2 DEF RecordOk
  <2> QED  BY <1>1, <2>1
<1>4. ledger' \in [Launches -> {"absent", "admitted", "published"}]
  BY DEF RemoveLaunch, TypeOK, StoreTypeOK
<1> QED  BY <1>2, <1>3, <1>4 DEF RecordsOk, StoreKeeps

\* Undoing: from the reservations to the claims, and out.
LEMMA UndoExitStep ==
  ASSUME GateInv, NEW l \in Launches, UnwindDone(l) \/ CancelDone(l) \/ AbortDone(l)
  PROVE  GateInv'
<1>1. TypeOK /\ StoreTypeOK /\ GateTypeOK /\ RecordsOk  BY DEF GateInv, TypeOK
<1>2. proc[l] = "none"
  BY NoProcess DEF UnwindDone, CancelDone, AbortDone, Spawned
<1>3. CASE UnwindDone(l)
  <2> DEFINE claimed == {r \in Resources : claim[l][r] # None}
  <2>1. /\ UNCHANGED <<res, ledger, proc, status, swept, need, claim, seen>>
        /\ GoTo(l, "cancel") /\ Visit(l, claimed)
    BY <1>3 DEF UnwindDone, storeVars
  <2>2. RecordsOk' /\ StoreKeeps /\ StoreTypeOK'  BY <1>1, <2>1, NoEditStep DEF StoreTypeOK
  <2>3. /\ GateTypeOK' /\ pc'[l] = "cancel" /\ left'[l] = claimed
        /\ \A k \in Launches \ {l} : pc'[k] = pc[k] /\ need'[k] = need[k] /\ left'[k] = left[k] /\ claim'[k] = claim[k]
    BY <1>1, <2>1 DEF GateTypeOK, GoTo, Visit, Phases, Undoing
  <2>4. LaunchOk(l)'  BY <1>2, <2>1, <2>3 DEF LaunchOk, MustBeArmed
  <2> QED  BY <2>1, <2>2, <2>3, <2>4, PlainStep DEF TypeOK
<1>4. CASE CancelDone(l)
  <2>1. Forget(l) /\ UNCHANGED <<res, ledger, proc, status, swept>>
    BY <1>4 DEF CancelDone, storeVars
  <2> QED  BY <1>1, <1>2, <2>1, NoEditStep, ForgetStep DEF StoreTypeOK
<1>5. CASE AbortDone(l)
  <2>1. /\ Forget(l) /\ UNCHANGED <<proc, status, swept>>
        /\ RemoveLaunch(l) \/ UNCHANGED <<res, ledger>>
    BY <1>5 DEF AbortDone
  <2>2. /\ RecordsOk' /\ StoreKeeps /\ res' \in [Resources -> ResourceState]
        /\ ledger' \in [Launches -> {"absent", "admitted", "published"}]
    BY <1>1, <2>1, NoEditStep, RemoveLaunchOk DEF StoreTypeOK
  <2> QED  BY <1>2, <2>1, <2>2, ForgetStep
<1> QED  BY <1>3, <1>4, <1>5

\* Every step of the error paths preserves the invariant.
LEMMA UndoStep ==
  ASSUME GateInv, NEW l \in Launches, Undo(l)
  PROVE  GateInv'
BY UndoExitStep, UndoVisitStep, ConfirmSpawnFailureStep DEF Undo

-----------------------------------------------------------------------------
(* CoordinatedCommandLaunch *)

\* The spawned process tree holds what the launch armed.
LEMMA SpawnStep ==
  ASSUME GateInv, NEW l \in Launches, Spawn(l)
  PROVE  GateInv'
<1>1. TypeOK /\ StoreTypeOK /\ GateTypeOK /\ RecordsOk  BY DEF GateInv, TypeOK
<1>2. /\ pc[l] = "admitted" /\ GoTo(l, "publish") /\ proc' = [proc EXCEPT ![l] = "alive"]
      /\ UNCHANGED <<res, ledger, status, swept, need, left, claim, seen>>
  BY DEF Spawn
<1>3. RecordsOk' /\ StoreKeeps  BY <1>2, NoEditStep
<1>4. /\ TypeOK' /\ pc'[l] = "publish"
      /\ \A k \in Launches \ {l} : pc'[k] = pc[k] /\ proc'[k] = proc[k]
  BY <1>1, <1>2 DEF TypeOK, StoreTypeOK, GateTypeOK, GoTo, Phases, Spawned, ProcessStates
<1>5. ASSUME NEW r \in Resources, r \in need[l]  PROVE Armed(res[r], l)'
  <2>1. MustBeArmed(l, r)  BY <1>2, <1>5 DEF MustBeArmed
  <2> QED  BY <1>3, <2>1, StayArmed
<1>6. LaunchOk(l)'
  BY <1>2, <1>4, <1>5 DEF LaunchOk, MustBeArmed, Armed, Holds, Spawned, Started
<1> QED  BY <1>2, <1>3, <1>4, <1>6, KeepsAll, GateStep

\* A launch that could not be spawned relies on nothing any more.
LEMMA SpawnFailsStep ==
  ASSUME GateInv, NEW l \in Launches, SpawnFails(l)
  PROVE  GateInv'
<1>1. TypeOK /\ StoreTypeOK /\ GateTypeOK /\ RecordsOk  BY DEF GateInv, TypeOK
<1>2. /\ pc[l] = "admitted" /\ GoTo(l, "abort") /\ Visit(l, need[l])
      /\ UNCHANGED <<res, ledger, proc, status, swept, need, claim, seen>>
  BY DEF SpawnFails, storeVars
<1>3. RecordsOk' /\ StoreKeeps  BY <1>2, NoEditStep
<1>4. /\ TypeOK' /\ pc'[l] = "abort"
      /\ \A k \in Launches \ {l} : pc'[k] = pc[k] /\ need'[k] = need[k] /\ left'[k] = left[k] /\ claim'[k] = claim[k]
  BY <1>1, <1>2 DEF TypeOK, StoreTypeOK, GateTypeOK, GoTo, Visit, Phases, Undoing
<1>5. proc'[l] = "none"  BY <1>2, NoProcess DEF Spawned
<1>6. LaunchOk(l)'  BY <1>4, <1>5, IdleOk DEF MustBeArmed
<1> QED  BY <1>2, <1>3, <1>4, <1>6, PlainStep

\* A spawned launch with nothing left to record relies on what its live process holds.
LEMMA SettledOk ==
  ASSUME GateInv, StoreKeeps, NEW l \in Launches, proc' = proc, need' = need,
         pc'[l] \in {"drain", "drained", "recovery", "crashed"}
  PROVE  LaunchOk(l)'
<1>1. ASSUME NEW r \in Resources, proc[l] = "alive", r \in need[l]  PROVE Holds(res[r], l)'
  <2>1. Holds(res[r], l)  BY <1>1 DEF GateInv, LaunchOk
  <2>2. res[r].holder.state = "running" => res[r].holder.process = l
    BY <2>1, ConstantsAssumption DEF GateInv, RecordsOk, RecordOk, HolderOk, Holds
  <2>3. res'[r].holder = res[r].holder
    BY <1>1, <2>1, <2>2 DEF StoreKeeps, Keeps, Holds, Started, Gone
  <2> QED  BY <2>1, <2>3 DEF Holds
<1> QED  BY <1>1 DEF LaunchOk, MustBeArmed, Spawned

\* Publishing the process in the ledger leaves the armed reservations armed.
LEMMA PublishLaunchStep ==
  ASSUME GateInv, NEW l \in Launches, PublishLaunch(l)
  PROVE  GateInv'
<1>1. TypeOK /\ StoreTypeOK /\ GateTypeOK /\ RecordsOk  BY DEF GateInv, TypeOK
<1>2. /\ pc[l] = "publish" /\ UNCHANGED <<res, proc, status, swept, need, claim, seen>>
      /\ ledger' = [ledger EXCEPT ![l] = "published"]
      /\ \/ GoTo(l, "recovery") /\ Visit(l, {})
         \/ GoTo(l, "drain") /\ Visit(l, need[l])
         \/ GoTo(l, "record") /\ Visit(l, need[l])
  BY DEF PublishLaunch
<1>3. RecordsOk' /\ StoreKeeps  BY <1>2, NoEditStep
<1>4. /\ \/ pc'[l] \in {"recovery", "drain"}
         \/ pc'[l] = "record" /\ left'[l] = need[l]
      /\ \A k \in Launches \ {l} : pc'[k] = pc[k] /\ need'[k] = need[k] /\ left'[k] = left[k] /\ claim'[k] = claim[k]
  BY <1>1, <1>2 DEF GateTypeOK, GoTo, Visit
<1>7. StoreTypeOK'  BY <1>1, <1>2 DEF StoreTypeOK
<1>8. GateTypeOK'  BY <1>1, <1>2 DEF GateTypeOK, GoTo, Visit, Phases, Spawned
<1>9. TypeOK'  BY <1>7, <1>8 DEF TypeOK
<1>5. CASE pc'[l] \in {"recovery", "drain"}
  BY <1>2, <1>3, <1>4, <1>5, <1>9, SettledOk, PlainStep
<1>6. CASE pc'[l] = "record" /\ left'[l] = need[l]
  <2>1. ASSUME NEW r \in Resources, r \in need[l]  PROVE Armed(res[r], l)'
    <3>1. MustBeArmed(l, r)  BY <1>2, <2>1 DEF MustBeArmed
    <3> QED  BY <1>3, <3>1, StayArmed
  <2>2. LaunchOk(l)'
    BY <1>2, <1>6, <2>1 DEF LaunchOk, MustBeArmed, Armed, Holds, Spawned, Started
  <2> QED  BY <1>2, <1>3, <1>4, <1>9, <2>2, PlainStep
<1> QED  BY <1>4, <1>5, <1>6

\* Recording the process turns one armed reservation into a running one of the same launch.
LEMMA RecordSpawnStep ==
  ASSUME GateInv, NEW l \in Launches, NEW r \in Resources, RecordSpawn(l, r)
  PROVE  GateInv'
<1> DEFINE e == Run(Opened(r), l)
           rest == left[l] \ {r}
<1>1. TypeOK /\ StoreTypeOK /\ GateTypeOK /\ RecordsOk /\ LaunchOk(l)  BY DEF GateInv, TypeOK
<1>2. Opened(r).holder.state = "starting" /\ Opened(r).holder.spawner = l /\ Commit(r, e)
  BY DEF RecordSpawn, Holds
<1>3. RecordOk(e) /\ Holds(e, l)
  BY <1>1, <1>2, OpenedOk, RunOk DEF Holds, Started
<1>4. /\ pc[l] = "record" /\ UNCHANGED <<ledger, proc, status, swept, need, claim, seen>>
      /\ \/ GoTo(l, "recovery") /\ Visit(l, {})
         \/ GoTo(l, "drain") /\ Visit(l, need[l])
         \/ GoTo(l, "record") /\ Visit(l, rest)
  BY DEF RecordSpawn
<1> HIDE DEF e
<1>5. /\ RecordsOk' /\ res' \in [Resources -> ResourceState]
      /\ res'[r] = e /\ \A q \in Resources \ {r} : res'[q] = res[q]
      /\ \A k \in Launches \ {l} : KeepsFor(k)
  BY <1>1, <1>2, <1>3, OpenedOk, CommitOwnOk
<1>6. StoreTypeOK'  BY <1>1, <1>4, <1>5 DEF StoreTypeOK
<1>7. GateTypeOK'  BY <1>1, <1>4 DEF GateTypeOK, GoTo, Visit, Phases, Spawned
<1>8. /\ \/ pc'[l] \in {"recovery", "drain"}
         \/ pc'[l] = "record" /\ left'[l] = rest
      /\ \A k \in Launches \ {l} : pc'[k] = pc[k] /\ need'[k] = need[k] /\ left'[k] = left[k] /\ claim'[k] = claim[k]
  BY <1>1, <1>4 DEF GateTypeOK, GoTo, Visit
<1>9. ASSUME NEW q \in Resources, proc[l] = "alive", q \in need[l]  PROVE Holds(res[q], l)'
  <2>1. CASE q = r  BY <1>3, <1>5, <2>1
  <2>2. CASE q # r  BY <1>1, <1>5, <1>9, <2>2 DEF LaunchOk
  <2> QED  BY <2>1, <2>2
<1>10. ASSUME NEW q \in Resources, MustBeArmed(l, q)'  PROVE Armed(res[q], l)'
  <2>1. q \in left[l] /\ q # r  BY <1>8, <1>10 DEF MustBeArmed
  <2>2. Armed(res[q], l)  BY <1>1, <1>4, <2>1 DEF LaunchOk, MustBeArmed
  <2> QED  BY <1>5, <2>1, <2>2
<1>11. LaunchOk(l)'  BY <1>4, <1>8, <1>9, <1>10 DEF LaunchOk, Spawned
<1> QED  BY <1>4, <1>5, <1>6, <1>7, <1>8, <1>11, GateStep DEF TypeOK

\* Completing frees a resource only when the recorded tree is gone.
LEMMA CompleteStep ==
  ASSUME GateInv, NEW l \in Launches, NEW r \in Resources, Complete(l, r)
  PROVE  GateInv'
<1> DEFINE e == Close(Opened(r), Opened(r).holder.request, "completed")
<1>1. TypeOK /\ StoreTypeOK /\ GateTypeOK /\ RecordsOk  BY DEF GateInv, TypeOK
<1>2. Completable(Opened(r), l) /\ Commit(r, e)  BY DEF Complete
<1>3. /\ UNCHANGED <<ledger, proc, status, swept, pc, need, claim, seen>>
      /\ Visit(l, left[l] \ {r}) /\ pc[l] \in {"drain", "drained"}
  BY DEF Complete
<1>4. RecordOk(Opened(r)) /\ Opened(r).holder = res[r].holder  BY <1>1, OpenedOk
<1>5. proc[l] = "gone"
  BY <1>2, <1>4, ConstantsAssumption DEF Completable, Holds, RecordOk, HolderOk, Gone
<1>6. RecordOk(e)  BY <1>1, <1>2, CloseOwnOk DEF Completable, Holds, Started, Closed
<1> HIDE DEF e
<1>7. /\ RecordsOk' /\ res' \in [Resources -> ResourceState]
      /\ \A k \in Launches \ {l} : KeepsFor(k)
  BY <1>1, <1>2, <1>4, <1>6, CommitOwnOk DEF Completable, Holds
<1>8. TypeOK'  BY <1>1, <1>3, <1>7 DEF TypeOK, StoreTypeOK, GateTypeOK, Visit
<1>9. LaunchOk(l)'  BY <1>3, <1>5 DEF LaunchOk, MustBeArmed, Spawned
<1>10. \A k \in Launches \ {l} : left'[k] = left[k]  BY <1>1, <1>3 DEF GateTypeOK, Visit
<1> QED  BY <1>3, <1>7, <1>8, <1>9, <1>10, GateStep

\* The launch settles: recorded for recovery, or drained step by step.
LEMMA SettleStep ==
  ASSUME GateInv, NEW l \in Launches,
         \/ PublicationFails(l) \/ FinishLaunch(l) \/ FinishLaunchGivenUp(l)
         \/ \E r \in Resources : CompleteGivenUp(l, r)
  PROVE  GateInv'
<1>1. TypeOK /\ StoreTypeOK /\ GateTypeOK /\ RecordsOk  BY DEF GateInv, TypeOK
<1>2. /\ UNCHANGED <<proc, status, swept, need, claim, seen>>
      /\ RemoveLaunch(l) \/ UNCHANGED <<res, ledger>>
  BY DEF PublicationFails, FinishLaunch, FinishLaunchGivenUp, CompleteGivenUp, storeVars
<1>3. /\ RecordsOk' /\ StoreKeeps /\ res' \in [Resources -> ResourceState]
      /\ ledger' \in [Launches -> {"absent", "admitted", "published"}]
  BY <1>1, <1>2, NoEditStep, RemoveLaunchOk DEF StoreTypeOK
<1>4. \/ GoTo(l, "recovery") /\ Visit(l, {})
      \/ GoTo(l, "drained") /\ UNCHANGED left
      \/ \E r \in Resources : pc[l] \in {"drain", "drained"} /\ UNCHANGED pc /\ Visit(l, left[l] \ {r})
  BY DEF PublicationFails, FinishLaunch, FinishLaunchGivenUp, CompleteGivenUp
<1>5. /\ GateTypeOK' /\ pc'[l] \in {"recovery", "drain", "drained"}
      /\ \A k \in Launches \ {l} : pc'[k] = pc[k] /\ left'[k] = left[k]
  BY <1>1, <1>2, <1>4 DEF GateTypeOK, GoTo, Visit, Phases, Spawned
<1>6. StoreTypeOK'  BY <1>1, <1>2, <1>3 DEF StoreTypeOK
<1>7. LaunchOk(l)'  BY <1>2, <1>3, <1>5, SettledOk
<1> QED  BY <1>2, <1>3, <1>5, <1>6, <1>7, PlainStep DEF TypeOK

\* Every step of a launched command preserves the invariant.
LEMMA LaunchStep ==
  ASSUME GateInv, NEW l \in Launches, Launch(l)
  PROVE  GateInv'
BY SpawnStep, SpawnFailsStep, PublishLaunchStep, RecordSpawnStep, CompleteStep, SettleStep
   DEF Launch

\* A crash ends the gates of a session; what their processes hold stays held.
LEMMA CrashStep ==
  ASSUME GateInv, NEW p \in Principals, Crash(p)
  PROVE  GateInv'
<1> DEFINE hosted == {q \in Principals : RootOf[q] = p}
           lost == {l \in Launches : OwnerOf[l] \in hosted /\ pc[l] # "refused"}
<1>1. TypeOK /\ StoreTypeOK /\ GateTypeOK /\ RecordsOk  BY DEF GateInv, TypeOK
<1>2. /\ UNCHANGED <<res, ledger, proc, swept, need>>
      /\ status' = [q \in Principals |-> IF q \in hosted THEN "dead" ELSE status[q]]
      /\ pc' = [l \in Launches |-> IF l \in lost THEN "crashed" ELSE pc[l]]
      /\ left' = [l \in Launches |-> IF l \in lost THEN {} ELSE left[l]]
      /\ claim' = [l \in Launches |-> IF l \in lost THEN NoClaims ELSE claim[l]]
      /\ seen' = [l \in Launches |-> IF l \in lost THEN NoEpochs ELSE seen[l]]
  BY DEF Crash
<1> HIDE DEF hosted, lost
<1>3. RecordsOk' /\ StoreKeeps  BY <1>2, NoEditStep
<1>4. StoreTypeOK'  BY <1>1, <1>2 DEF StoreTypeOK
<1>5. NoClaims \in [Resources -> Requests \union {None}] /\ NoEpochs \in [Resources -> Nat]
  BY DEF NoClaims, NoEpochs
<1>6. GateTypeOK'  BY <1>1, <1>2, <1>5 DEF GateTypeOK, Phases
<1>7. ASSUME NEW k \in Launches  PROVE LaunchOk(k)'
  <2>1. CASE k \in lost
    <3>1. pc'[k] = "crashed"  BY <1>2, <2>1
    <3> QED  BY <1>2, <1>3, <3>1, SettledOk
  <2>2. CASE k \notin lost
    <3>1. pc'[k] = pc[k] /\ need'[k] = need[k] /\ left'[k] = left[k] /\ claim'[k] = claim[k] /\ proc'[k] = proc[k]
      BY <1>2, <2>2
    <3> QED  BY <1>3, <3>1, KeepsAll, LaunchFrame
  <2> QED  BY <2>1, <2>2
<1> QED  BY <1>3, <1>4, <1>6, <1>7 DEF GateInv, TypeOK

-----------------------------------------------------------------------------
(* The theorems. *)

\* The invariant holds of the initial state: nothing is governed, held or prepared.
LEMMA InitOk == Init => GateInv
<1> SUFFICES ASSUME Init  PROVE GateInv
  OBVIOUS
<1>1. NoTicket \in Ticket /\ NoHolder \in Holder  BY DEF NoTicket, Ticket, NoHolder, Holder
<1>2. Unconfigured \in ResourceState  BY <1>1 DEF Unconfigured, ResourceState
<1>3. RecordOk(Unconfigured)
  BY <1>2 DEF RecordOk, SlotAgrees, HolderOk, InState, Unconfigured, NoTicket, NoHolder, Started
<1>4. StoreTypeOK /\ RecordsOk
  BY <1>2, <1>3 DEF Init, StoreInit, StoreTypeOK, RecordsOk, ProcessStates
<1>5. GateTypeOK
  BY DEF Init, GateInit, GateTypeOK, NoClaims, NoEpochs, Phases, Preparing
<1>6. \A l \in Launches : LaunchOk(l)
  BY DEF Init, StoreInit, GateInit, LaunchOk, MustBeArmed
<1> QED  BY <1>4, <1>5, <1>6 DEF GateInv, TypeOK

\* Every step of every gate, tool call, ending run, crash and clock preserves the invariant.
LEMMA NextOk == GateInv /\ [Next]_vars => GateInv'
<1> SUFFICES ASSUME GateInv, [Next]_vars  PROVE GateInv'
  OBVIOUS
<1>1. CASE Next
  BY <1>1, ToolCallStep, ManualCallStep, EndingStep, EnvironmentStep, CrashStep,
     PrepareStep, UndoStep, LaunchStep
     DEF Next, Gate
<1>2. CASE UNCHANGED vars
  <2>1. UNCHANGED gateVars /\ UNCHANGED storeVars  BY <1>2 DEF vars
  <2>2. StoreTypeOK' /\ RecordsOk' /\ StoreKeeps /\ proc' = proc
    BY <2>1, NoEditStep DEF GateInv, TypeOK, StoreTypeOK, storeVars
  <2> QED  BY <2>1, <2>2, StoreStep
<1> QED  BY <1>1, <1>2

\* The invariant of the gate: types, the agreement of each record with itself, and what
\* each launch may rely on at each of its phases.
THEOREM GateInvariant == Spec => []GateInv
BY InitOk, NextOk, PTL DEF Spec

\* Every variable keeps its type.
THEOREM TypeCorrect == Spec => []TypeOK
<1>1. GateInv => TypeOK  BY DEF GateInv
<1> QED  BY <1>1, GateInvariant, PTL

\* In every record the holder and its ticket agree, so no transaction of the coordinator
\* ever meets a holder whose ticket is missing.
THEOREM HolderTicketAgreement == Spec => []SlotAgreement
<1>1. GateInv => SlotAgreement
  BY DEF GateInv, RecordsOk, RecordOk, SlotAgreement
<1> QED  BY <1>1, GateInvariant, PTL

\* A launch that was admitted or whose process tree is alive holds each resource it needs.
LEMMA InvHolds == GateInv => HoldsUntilGone
<1> SUFFICES ASSUME GateInv, NEW r \in Resources, NEW l \in Launches, r \in need[l],
                    proc[l] = "alive" \/ pc[l] = "admitted"
             PROVE  Holds(res[r], l)
  BY DEF HoldsUntilGone
<1>1. LaunchOk(l)  BY DEF GateInv
<1>2. CASE proc[l] = "alive"  BY <1>1, <1>2 DEF LaunchOk
<1>3. CASE pc[l] = "admitted"
  <2>1. MustBeArmed(l, r)  BY <1>3 DEF MustBeArmed
  <2>2. Armed(res[r], l)  BY <1>1, <2>1 DEF LaunchOk
  <2> QED  BY <2>2 DEF Armed, Holds, Started
<1> QED  BY <1>2, <1>3

\* A command admitted for a resource occupies it from before its spawn until its process
\* tree is gone, whatever lapses, is cancelled, revoked, closed, crashes or is lost.
THEOREM CommandsHoldUntilGone == Spec => []HoldsUntilGone
BY InvHolds, GateInvariant, PTL

\* Two commands that both need a resource never have live process trees at the same time:
\* both would hold it, and a record has one holder with one spawner.
THEOREM AtMostOne == Spec => []CapacityOne
<1>1. HoldsUntilGone => CapacityOne
  BY DEF HoldsUntilGone, CapacityOne, Holds
<1>2. GateInv => CapacityOne  BY <1>1, InvHolds
<1> QED  BY <1>2, GateInvariant, PTL
=============================================================================
