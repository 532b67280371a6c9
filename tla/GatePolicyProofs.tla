--------------------------- MODULE GatePolicyProofs ---------------------------
(***************************************************************************)
(* What a policy may rely on, for every value of the constants: commands   *)
(* admitted before it are waited for, commands admitted after it hold the  *)
(* resource, closed tickets authorise nothing; the refinement of the       *)
(* abstract slots of ExclusiveSlot; and, without faults, that a launch     *)
(* leaves nothing behind.                                                  *)
(*                                                                         *)
(* The inductive invariant adds to that of CommandGateProofs what ties a   *)
(* launch to the ledger and to the tickets that carry its ID.  For the     *)
(* last result it is refined to the phases in which a launch can have a    *)
(* ticket in each state.                                                   *)
(***************************************************************************)
EXTENDS CommandGateProofs

\* The launches a policy has to take into account: they run, or may still be spawned.
LiveLaunches == {l \in Launches : proc[l] = "alive" \/ pc[l] = "admitted"}

\* A live launch is in the ledger; a ticket is assigned to, or armed by, a launch only for a
\* resource its survey found.
AdmissionOk(l) ==
  /\ l \in LiveLaunches => ledger[l] # "absent"
  /\ pc[l] \in {"claim", "wait", "arm"} => left[l] \subseteq need[l]
  /\ \A r \in Resources :
       (Holds(res[r], l) \/ \E t \in Requests : res[r].tickets[t].launch = l)
         => r \in need[l] \/ pc[l] = "refused"

PolicyInv ==
  /\ GateInv
  /\ \A r \in Resources : GrantOk(res[r])
  /\ \A l \in Launches : AdmissionOk(l)

-----------------------------------------------------------------------------
(* What a step does to one record. *)

\* The launch that occupies the resource, as in the refinement mapping.
Occupant(s) == IF s.holder.state \in Started THEN s.holder.spawner ELSE None

\* The record of r may become e: closed tickets stay closed, grants follow blockers, only a
\* launch that claims here is assigned a ticket, a policy is kept with its live blockers or
\* replaced by one that waits for the live launches, and only beforeSpawn lets in an occupant.
Moves(r, e) ==
  /\ \A t \in Requests :
       (res[r].tickets[t].state \in Closed /\ ~res[r].tickets[t].aged) => e.tickets[t].state \in Closed
  /\ GrantOk(e)
  /\ \A t \in Requests :
       \/ TicketStays(res[r].tickets[t], e.tickets[t])
       \/ \E l \in Launches : Claim(l, r, t) /\ e.tickets[t].launch = l
  /\ \/ PolicyKept(res[r], e, LiveLaunches)
     \/ \A l \in LiveLaunches : Governs(e, l) => l \in e.blockers \/ HolderLaunch(Current(r)) = l
  /\ \/ Occupant(e) \in {Occupant(res[r]), None}
     \/ \E l \in Launches : BeforeSpawn(l, r)

RecordStep == \A r \in Resources : Moves(r, res'[r])

\* A live launch still blocks: it is in the ledger and its process is not gone.
LEMMA LiveBlocks ==
  ASSUME PolicyInv  PROVE LiveLaunches \subseteq Blocking /\ LiveLaunches \subseteq Admitted
<1>1. ASSUME NEW l \in LiveLaunches  PROVE l \in Admitted /\ l \notin Gone
  <2>1. l \in Launches /\ ledger[l] # "absent"  BY DEF PolicyInv, AdmissionOk, LiveLaunches
  <2>2. proc[l] # "gone"  BY NoProcess DEF PolicyInv, LiveLaunches, Spawned
  <2> QED  BY <2>1, <2>2 DEF Admitted, Gone
<1> QED  BY <1>1 DEF Blocking, Gone, Admitted

\* The record every operation with reconcile starts from.
LEMMA CurrentQuiet ==
  ASSUME PolicyInv, NEW r \in Resources
  PROVE  /\ RecordOk(Current(r)) /\ GrantOk(Current(r))
         /\ Quiet(res[r], Current(r), LiveLaunches)
         /\ Occupant(Current(r)) \in {Occupant(res[r]), None}
<1>1. RecordsOk /\ RecordOk(res[r]) /\ GrantOk(res[r])  BY DEF PolicyInv, GateInv, RecordsOk
<1>2. RecordOk(Opened(r)) /\ GrantOk(Opened(r)) /\ Quiet(res[r], Opened(r), LiveLaunches)
  BY <1>1, OpenedOk, PurgeQuiet DEF Opened
<1>3. GrantOk(Current(r)) /\ Quiet(Opened(r), Current(r), LiveLaunches)
  BY <1>2, LiveBlocks, ReconciledQuiet DEF Current, Opened
<1>4. RecordOk(Current(r)) /\ Current(r).holder \in {res[r].holder, NoHolder}  BY <1>1, CurrentOk
<1>5. Occupant(Current(r)) \in {Occupant(res[r]), None}
  BY <1>4 DEF Occupant, NoHolder, Started
<1> QED  BY <1>2, <1>3, <1>4, <1>5, QuietTrans

\* The record every other operation starts from.
LEMMA OpenedQuiet ==
  ASSUME PolicyInv, NEW r \in Resources
  PROVE  /\ RecordOk(Opened(r)) /\ GrantOk(Opened(r)) /\ Opened(r).holder = res[r].holder
         /\ Quiet(res[r], Opened(r), LiveLaunches)
BY OpenedOk, PurgeQuiet DEF Opened, PolicyInv, GateInv, RecordsOk

\* A quiet edit that lets nobody in is a move.
LEMMA QuietMoves ==
  ASSUME PolicyInv, NEW r \in Resources, NEW e, Quiet(res[r], e, LiveLaunches), GrantOk(e),
         \/ Occupant(e) \in {Occupant(res[r]), None}
         \/ \E l \in Launches : BeforeSpawn(l, r)
  PROVE  Moves(r, e)
BY DEF Moves, Quiet, ClosedKept, LaunchesKept

\* A record left alone moves nowhere.
LEMMA SameMoves ==
  ASSUME PolicyInv, NEW r \in Resources
  PROVE  Moves(r, res[r])
<1>1. Quiet(res[r], res[r], LiveLaunches)  BY DEF Quiet, PolicyKept, LaunchesKept, TicketStays, ClosedKept
<1> QED  BY <1>1, QuietMoves DEF PolicyInv

\* One record is written, the others stay.
LEMMA CommitMoves ==
  ASSUME PolicyInv, NEW r \in Resources, NEW e, Commit(r, e), Moves(r, e)
  PROVE  RecordStep
<1>1. res \in [Resources -> ResourceState]  BY DEF PolicyInv, GateInv, TypeOK, StoreTypeOK
<1>2. \A q \in Resources : res'[q] = IF q = r THEN e ELSE res[q]  BY <1>1 DEF Commit
<1> QED  BY <1>2, SameMoves DEF RecordStep

\* Closing a ticket of the current, or of the opened, record.
LEMMA CloseMoves ==
  ASSUME PolicyInv, NEW r \in Resources, NEW s, s \in {Current(r), Opened(r)},
         NEW t \in Requests, NEW outcome \in Closed
  PROVE  Moves(r, Close(s, t, outcome))
<1>1. /\ RecordOk(s) /\ GrantOk(s) /\ Quiet(res[r], s, LiveLaunches)
      /\ Occupant(s) \in {Occupant(res[r]), None}
  BY CurrentQuiet, OpenedQuiet DEF Occupant
<1>2. Quiet(res[r], Close(s, t, outcome), LiveLaunches) /\ GrantOk(Close(s, t, outcome))
  BY <1>1, CloseQuiet, QuietTrans
<1>3. Occupant(Close(s, t, outcome)) \in {Occupant(res[r]), None}
  BY <1>1, CloseOk DEF Occupant, NoHolder, Started
<1> QED  BY <1>2, <1>3, QuietMoves

\* A ticket is queued, assigned or adopted.
LEMMA TicketMoves ==
  ASSUME PolicyInv, NEW r \in Resources, NEW p \in Principals, NEW t \in Requests,
         NEW l \in Launches \union {None}, NEW e,
         \/ /\ Current(r).tickets[t].state = "absent"
            /\ e = [Current(r) EXCEPT !.tickets[t] = NewTicket(Current(r), p, "queued", l)]
            /\ l # None => Claim(l, r, t)
         \/ /\ Current(r).tickets[t].state = "absent" /\ Current(r).holder.state = "none"
            /\ l \in Launches /\ e = Adopt(Current(r), p, t, l)
         \/ /\ Current(r).tickets[t].state \in Unused
            /\ e = [Current(r) EXCEPT !.tickets[t].launch = l]
            /\ Claim(l, r, t) /\ l \in Launches
  PROVE  Moves(r, e)
<1> DEFINE s == Current(r)
<1>1. /\ RecordOk(s) /\ GrantOk(s) /\ Quiet(res[r], s, LiveLaunches)
      /\ Occupant(s) \in {Occupant(res[r]), None} /\ s \in ResourceState
  BY CurrentQuiet DEF RecordOk
<1>2. \/ e.holder = s.holder /\ (l = None \/ (l \in Launches /\ Claim(l, r, t)))
      \/ s.holder.state = "none" /\ e.holder.state = "running" /\ e.holder.spawner = None
  <2> HIDE DEF s
  <2>1. CASE e = Adopt(s, p, t, l) /\ s.holder.state = "none"
    BY <1>1, <2>1 DEF Adopt, ResourceState
  <2>2. CASE e = [s EXCEPT !.tickets[t] = NewTicket(s, p, "queued", l)] /\ (l # None => Claim(l, r, t))
    BY <1>1, <2>2 DEF ResourceState
  <2>3. CASE e = [s EXCEPT !.tickets[t].launch = l] /\ Claim(l, r, t) /\ l \in Launches
    BY <1>1, <2>3 DEF ResourceState
  <2> QED  BY <2>1, <2>2, <2>3 DEF s
<1>3. /\ PolicyKept(s, e, LiveLaunches) /\ ClosedKept(s, e) /\ GrantOk(e)
      /\ \A u \in Requests : \/ TicketStays(s.tickets[u], e.tickets[u])
                             \/ u = t /\ e.tickets[u].launch = l /\ l # None /\ e.holder = s.holder
  <2> HIDE DEF s
  <2> QED  BY <1>1, TicketKept DEF s
<1> HIDE DEF s
<1>4. Occupant(e) \in {Occupant(res[r]), None}  BY <1>1, <1>2 DEF Occupant, Started
<1>5. PolicyKept(res[r], e, LiveLaunches)  BY <1>1, <1>3 DEF Quiet, PolicyKept
<1>6. ClosedKept(res[r], e)  BY <1>1, <1>3 DEF Quiet, ClosedKept
<1>7. \A u \in Requests : \/ TicketStays(res[r].tickets[u], e.tickets[u])
                          \/ \E k \in Launches : Claim(k, r, u) /\ e.tickets[u].launch = k
  <2>1. \A u \in Requests : TicketStays(res[r].tickets[u], s.tickets[u])
    BY <1>1 DEF Quiet, LaunchesKept
  <2>2. ASSUME NEW u \in Requests, TicketStays(s.tickets[u], e.tickets[u])
        PROVE  TicketStays(res[r].tickets[u], e.tickets[u])
    BY <2>1, <2>2 DEF TicketStays
  <2>3. ASSUME l # None, e.holder = s.holder  PROVE l \in Launches /\ Claim(l, r, t)
    BY <1>2, <2>3
  <2> QED  BY <1>3, <2>2, <2>3
<1> QED  BY <1>3, <1>4, <1>5, <1>6, <1>7 DEF Moves, ClosedKept

-----------------------------------------------------------------------------
(* Every step moves every record. *)

\* A step that writes no record.
LEMMA NoRecordStep ==
  ASSUME PolicyInv, res' = res  PROVE RecordStep
BY SameMoves DEF RecordStep

\* status, request, grant, release, cancel_request, set_controller and adoptRunning.
LEMMA ToolMoves ==
  ASSUME PolicyInv, NEW p \in Principals, ToolCall(p) \/ ManualCall(p)
  PROVE  RecordStep
<1>1. ASSUME NEW r \in Resources, Status(p, r)  PROVE RecordStep
  BY <1>1, CurrentQuiet, QuietMoves, CommitMoves DEF Status
<1>2. ASSUME NEW r \in Resources, Lookup(p, r)  PROVE RecordStep
  <2>1. Occupant(Opened(r)) = Occupant(res[r])  BY OpenedQuiet DEF Occupant
  <2> QED  BY <1>2, <2>1, OpenedQuiet, QuietMoves, CommitMoves DEF Lookup
<1>3. ASSUME NEW r \in Resources, NEW policy \in Policies, SetController(p, r, policy)  PROVE RecordStep
  <2> DEFINE s == Current(r)
             e == Install(s, policy, Admitted)
  <2>1. policy \in Policy /\ Admitted \in SUBSET Launches  BY StoreAssumption DEF Admitted
  <2>2. /\ RecordOk(s) /\ GrantOk(s) /\ Quiet(res[r], s, LiveLaunches)
        /\ Occupant(s) \in {Occupant(res[r]), None}
    BY CurrentQuiet
  <2>3. /\ LaunchesKept(s, e) /\ ClosedKept(s, e) /\ GrantOk(e)
        /\ \A l \in Admitted \ {HolderLaunch(s)} : Governs(e, l) => l \in e.blockers
    <3> HIDE DEF s
    <3> QED  BY <2>1, <2>2, InstallKept
  <2>4. Occupant(e) \in {Occupant(res[r]), None}
    <3>1. e.holder = IF s.holder.state = "reserved" THEN NoHolder ELSE s.holder
      BY <2>2 DEF Install, RecordOk, ResourceState
    <3> QED  BY <2>2, <3>1 DEF Occupant, NoHolder, Started
  <2>5. Moves(r, e)
    <3> HIDE DEF e
    <3>1. \A l \in LiveLaunches : Governs(e, l) => l \in e.blockers \/ HolderLaunch(s) = l
      BY <2>3, LiveBlocks
    <3>2. \A t \in Requests : TicketStays(res[r].tickets[t], e.tickets[t])
      BY <2>2, <2>3 DEF Quiet, LaunchesKept, TicketStays
    <3> QED  BY <2>2, <2>3, <2>4, <3>1, <3>2 DEF Moves, Quiet, ClosedKept
  <2> QED  BY <1>3, <2>5, CommitMoves DEF SetController
<1>4. ASSUME NEW r \in Resources, NEW t \in Requests, Grant(p, r, t)  PROVE RecordStep
  <2>1. Current(r).tickets[t].state = "queued" /\ Current(r).blockers = {}
    BY <1>4 DEF Grant, Grantable
  <2>2. /\ GrantOk(Reserve(Current(r), t))
        /\ Quiet(res[r], Reserve(Current(r), t), LiveLaunches)
    BY <2>1, CurrentQuiet, ReserveQuiet, QuietTrans
  <2>3. Occupant(Reserve(Current(r), t)) = None
    <3>1. Current(r) \in ResourceState  BY CurrentQuiet DEF RecordOk
    <3> QED  BY <3>1 DEF Occupant, Reserve, ResourceState, Started
  <2> QED  BY <1>4, <2>2, <2>3, QuietMoves, CommitMoves DEF Grant
<1>5. ASSUME NEW r \in Resources, NEW t \in Requests, Request(p, r, t)  PROVE RecordStep
  <2> DEFINE e == [Current(r) EXCEPT !.tickets[t] = NewTicket(Current(r), p, "queued", None)]
  <2>1. Current(r).tickets[t].state = "absent" /\ Commit(r, e)  BY <1>5 DEF Request
  <2>2. Moves(r, e)  BY <2>1, TicketMoves
  <2> QED  BY <2>1, <2>2, CommitMoves
<1>6. ASSUME NEW r \in Resources, NEW t \in Requests, Release(p, r, t)  PROVE RecordStep
  BY <1>6, CloseMoves, CommitMoves DEF Release, Closed
<1>7. ASSUME NEW r \in Resources, NEW t \in Requests, Cancel(p, r, t)  PROVE RecordStep
  BY <1>7, CloseMoves, CommitMoves DEF Cancel, CancelRequest, Closed
<1>8. ASSUME NEW r \in Resources, NEW t \in Requests, NEW l \in Launches, AdoptRunning(p, r, t, l)
      PROVE RecordStep
  <2> DEFINE e == Adopt(Current(r), p, t, l)
  <2>1. Current(r).holder.state = "none" /\ Commit(r, e)  BY <1>8 DEF AdoptRunning
  <2>2. Current(r).tickets[t].state = "absent"
    <3>1. res[r].tickets[t].state = "absent"  BY <1>8 DEF AdoptRunning
    <3> QED  BY <3>1, CurrentOk DEF PolicyInv, GateInv
  <2>3. Moves(r, e)  BY <2>1, <2>2, TicketMoves
  <2> QED  BY <2>1, <2>3, CommitMoves
<1> QED  BY <1>1, <1>2, <1>3, <1>4, <1>5, <1>6, <1>7, <1>8 DEF ToolCall, ManualCall

\* endRun closes what its run left unused.
LEMMA EndingMoves ==
  ASSUME PolicyInv, NEW p \in Principals, Ending(p)  PROVE RecordStep
<1>1. ASSUME NEW r \in Resources, EndRun(p, r)  PROVE RecordStep
  <2>1. RecordOk(Opened(r)) /\ Opened(r).holder = res[r].holder  BY OpenedQuiet
  <2>2. /\ GrantOk(EndOwned(Opened(r), p))
        /\ Quiet(res[r], EndOwned(Opened(r), p), LiveLaunches)
    BY OpenedQuiet, EndOwnedQuiet, QuietTrans
  <2>3. Occupant(EndOwned(Opened(r), p)) \in {Occupant(res[r]), None}
    BY <2>1 DEF Occupant, EndOwned, NoHolder, RecordOk, ResourceState, Started
  <2> QED  BY <1>1, <2>2, <2>3, QuietMoves, CommitMoves DEF EndRun
<1> QED  BY <1>1, NoRecordStep DEF Ending, BeginEnd, EndRunFails, CloseCoordinator

\* Time ages tickets and reservations, and closes none.
LEMMA AgeMoves ==
  ASSUME PolicyInv, NEW r \in Resources, NEW e,
         PolicyKept(res[r], e, LiveLaunches), e.blockers = res[r].blockers,
         e.holder.state = res[r].holder.state, e.holder.request = res[r].holder.request,
         e.holder.spawner = res[r].holder.spawner,
         \A t \in Requests :
           /\ e.tickets[t].state = res[r].tickets[t].state
           /\ \/ e.tickets[t] = NoTicket /\ res[r].tickets[t].state = "absent"
              \/ /\ e.tickets[t].launch = res[r].tickets[t].launch
                 /\ e.tickets[t].epoch = res[r].tickets[t].epoch
  PROVE  Moves(r, e)
<1>1. RecordOk(res[r]) /\ GrantOk(res[r]) /\ SlotAgrees(res[r]) /\ res[r] \in ResourceState
  BY DEF PolicyInv, GateInv, RecordsOk, RecordOk
<1>2. GrantOk(e)
  <2>1. e.epoch = res[r].epoch /\ e.epoch \in Nat  BY <1>1 DEF PolicyKept, ResourceState
  <2>2. \A t \in Requests : e.tickets[t].epoch <= e.epoch  BY <1>1, <2>1 DEF GrantOk, NoTicket
  <2>3. res[r].holder.state # "none" =>
          res[r].holder.request \in Requests /\ res[r].tickets[res[r].holder.request].state # "absent"
    BY <1>1 DEF SlotAgrees, ResourceState, Holder, Started
  <2> QED  BY <1>1, <2>1, <2>2, <2>3 DEF GrantOk
<1>3. Occupant(e) = Occupant(res[r])  BY DEF Occupant
<1> QED  BY <1>2, <1>3 DEF Moves, TicketStays, NoTicket

\* The clock and the process table.
LEMMA EnvironmentMoves ==
  ASSUME PolicyInv, Environment  PROVE RecordStep
<1>0. res \in [Resources -> ResourceState]  BY DEF PolicyInv, GateInv, TypeOK, StoreTypeOK
<1>1. ASSUME NEW r \in Resources, Lapse(r)  PROVE RecordStep
  <2> DEFINE e == [res[r] EXCEPT !.holder.lapsed = TRUE]
  <2>1. res[r] \in ResourceState  BY <1>0
  <2>2. /\ PolicyKept(res[r], e, LiveLaunches) /\ e.blockers = res[r].blockers
        /\ e.holder = [res[r].holder EXCEPT !.lapsed = TRUE] /\ e.tickets = res[r].tickets
    BY <2>1 DEF PolicyKept, ResourceState
  <2>3. res[r].holder \in Holder  BY <2>1 DEF ResourceState
  <2>4. Commit(r, e)  BY <1>0, <1>1 DEF Lapse, Commit
  <2> HIDE DEF e
  <2>5. Moves(r, e)  BY <2>2, <2>3, AgeMoves DEF Holder
  <2> QED  BY <2>4, <2>5, CommitMoves
<1>2. ASSUME DayPasses, NEW r \in Resources  PROVE Moves(r, res'[r])
  <2> DEFINE s == res[r]
             e == res'[r]
             aged == [t \in Requests |-> IF s.tickets[t].state = "absent" THEN NoTicket
                                          ELSE [s.tickets[t] EXCEPT !.aged = TRUE]]
             held == IF s.holder.state = "reserved" THEN [s.holder EXCEPT !.lapsed = TRUE] ELSE s.holder
  <2>1. s \in ResourceState /\ s.holder \in Holder /\ s.tickets \in [Requests -> Ticket]
    BY <1>0 DEF ResourceState
  <2>2. e = [s EXCEPT !.tickets = aged, !.holder = held]  BY <1>2 DEF DayPasses
  <2> HIDE DEF s, e
  <2>3. /\ \A t \in Requests : /\ aged[t].state = s.tickets[t].state
                               /\ \/ aged[t] = NoTicket /\ s.tickets[t].state = "absent"
                                  \/ /\ aged[t].launch = s.tickets[t].launch
                                     /\ aged[t].epoch = s.tickets[t].epoch
    BY <2>1 DEF Ticket, NoTicket
  <2>4. held.state = s.holder.state /\ held.request = s.holder.request /\ held.spawner = s.holder.spawner
    BY <2>1 DEF Holder
  <2> HIDE DEF aged, held
  <2>5. /\ PolicyKept(s, e, LiveLaunches) /\ e.blockers = s.blockers
        /\ e.tickets = aged /\ e.holder = held
    BY <2>1, <2>2 DEF PolicyKept, ResourceState
  <2>6. Moves(r, e)  BY <2>3, <2>4, <2>5, AgeMoves DEF s
  <2> QED  BY <2>6 DEF e
<1>3. ASSUME NEW l \in Launches, ProcessExits(l) \/ GroupIdReused(l) \/ StrangerExits(l)
      PROVE RecordStep
  BY <1>3, NoRecordStep DEF ProcessExits, GroupIdReused, StrangerExits
<1> QED  BY <1>1, <1>2, <1>3 DEF Environment, RecordStep
\* finishLaunch of a launch that is not live reconciles records.
LEMMA RemoveMoves ==
  ASSUME PolicyInv, NEW l \in Launches, l \notin LiveLaunches, RemoveLaunch(l)
  PROVE  RecordStep
<1>1. PICK n : res' = [r \in Resources |->
        IF r <= n THEN Reconciled(Opened(r), Blocking \ {l}, Gone) ELSE res[r]]
  BY DEF RemoveLaunch
<1>2. ASSUME NEW r \in Resources  PROVE Moves(r, res'[r])
  <2> DEFINE e == Reconciled(Opened(r), Blocking \ {l}, Gone)
  <2>1. /\ RecordOk(Opened(r)) /\ GrantOk(Opened(r)) /\ Opened(r).holder = res[r].holder
        /\ Quiet(res[r], Opened(r), LiveLaunches)
    BY OpenedQuiet
  <2>2. LiveLaunches \subseteq Blocking \ {l}  BY LiveBlocks
  <2>3. Quiet(res[r], e, LiveLaunches) /\ GrantOk(e)
    BY <2>1, <2>2, ReconciledQuiet, QuietTrans
  <2>4. e.holder \in {res[r].holder, NoHolder}  BY <2>1, ReconciledOk
  <2> HIDE DEF e
  <2>5. Moves(r, e)  BY <2>3, <2>4, QuietMoves DEF Occupant, NoHolder, Started
  <2> QED  BY <1>1, <2>5, SameMoves DEF e
<1> QED  BY <1>2 DEF RecordStep

\* prepareCommandCoordination
LEMMA PrepareMoves ==
  ASSUME PolicyInv, NEW l \in Launches, Prepare(l)  PROVE RecordStep
<1>1. CASE SurveyFails(l) \/ ClaimFails(l) \/ WaitFails(l) \/ ArmFails(l) \/ BeginLaunchFails(l)
  BY <1>1, NoRecordStep
     DEF SurveyFails, ClaimFails, WaitFails, ArmFails, BeginLaunchFails, storeVars
<1>2. CASE BeginLaunch(l)
  <2>1. res' = [r \in Resources |-> Current(r)]  BY <1>2 DEF BeginLaunch
  <2>2. \A r \in Resources : Moves(r, Current(r))  BY CurrentQuiet, QuietMoves
  <2> QED  BY <2>1, <2>2 DEF RecordStep
<1>3. ASSUME NEW r \in Resources, Survey(l, r) \/ AwaitGrant(l, r)  PROVE RecordStep
  BY <1>3, CurrentQuiet, QuietMoves, CommitMoves DEF Survey, AwaitGrant
<1>4. ASSUME NEW r \in Resources, BeforeSpawn(l, r)  PROVE RecordStep
  <2>1. Current(r).holder.state = "reserved" /\ Commit(r, Start(Current(r), l))
    BY <1>4 DEF BeforeSpawn, Armable
  <2>2. /\ GrantOk(Start(Current(r), l))
        /\ Quiet(res[r], Start(Current(r), l), LiveLaunches)
    BY <2>1, CurrentQuiet, AdvanceQuiet, QuietTrans
  <2> QED  BY <1>4, <2>1, <2>2, QuietMoves, CommitMoves
<1>5. ASSUME NEW r \in Resources, NEW t \in Requests, Claim(l, r, t)  PROVE RecordStep
  <2>1. OwnerOf[l] \in Principals /\ l # None  BY ConstantsAssumption
  <2>2. CASE t \in Claimable(Current(r), OwnerOf[l]) /\ Commit(r, [Current(r) EXCEPT !.tickets[t].launch = l])
    <3> DEFINE e == [Current(r) EXCEPT !.tickets[t].launch = l]
    <3>1. Current(r).tickets[t].state \in Unused  BY <2>2 DEF Claimable, InState
    <3>2. Moves(r, e)  BY <1>5, <2>1, <3>1, TicketMoves
    <3> QED  BY <2>2, <3>2, CommitMoves
  <2>3. CASE FreshId(t) /\ Commit(r, [Current(r) EXCEPT !.tickets[t] = NewTicket(Current(r), OwnerOf[l], "queued", l)])
    <3> DEFINE e == [Current(r) EXCEPT !.tickets[t] = NewTicket(Current(r), OwnerOf[l], "queued", l)]
    <3>1. Current(r).tickets[t].state = "absent"
      BY <2>3, CurrentOk DEF FreshId, PolicyInv, GateInv
    <3>2. Moves(r, e)  BY <1>5, <2>1, <3>1, TicketMoves
    <3> QED  BY <2>3, <3>2, CommitMoves
  <2> QED  BY <1>5, <2>2, <2>3 DEF Claim
<1> QED  BY <1>1, <1>2, <1>3, <1>4, <1>5 DEF Prepare

\* The undoing of a preparation, the publication of a process and the draining.
LEMMA LaunchedMoves ==
  ASSUME PolicyInv, NEW l \in Launches, Undo(l) \/ Launch(l)  PROVE RecordStep
<1> USE DEF PolicyInv, GateInv
<1>1. CASE UnwindDone(l) \/ CancelDone(l) \/ Spawn(l) \/ SpawnFails(l) \/ PublishLaunch(l)
           \/ PublicationFails(l) \/ FinishLaunchGivenUp(l)
  BY <1>1, NoRecordStep
     DEF UnwindDone, CancelDone, Spawn, SpawnFails, PublishLaunch, PublicationFails, FinishLaunchGivenUp,
         storeVars
<1>2. CASE AbortDone(l)
  <2>1. l \notin LiveLaunches  BY <1>2, NoProcess DEF AbortDone, LiveLaunches, Spawned
  <2> QED  BY <1>2, <2>1, RemoveMoves, NoRecordStep DEF AbortDone
<1>3. CASE FinishLaunch(l)
  <2>1. pc[l] = "drain" /\ (res' = res \/ (l \in Gone /\ RemoveLaunch(l)))  BY <1>3 DEF FinishLaunch
  <2> QED  BY <2>1, RemoveMoves, NoRecordStep DEF LiveLaunches, Gone
<1>4. ASSUME NEW r \in Resources, ConfirmSkipped(l, r) \/ CancelClaimSkipped(l, r) \/ CompleteGivenUp(l, r)
      PROVE RecordStep
  BY <1>4, NoRecordStep DEF ConfirmSkipped, CancelClaimSkipped, CompleteGivenUp, storeVars
<1>5. ASSUME NEW r \in Resources, ConfirmSpawnFailure(l, r) \/ Complete(l, r)  PROVE RecordStep
  <2>1. \/ res' = res
        \/ \E o \in Closed : /\ Commit(r, Close(Opened(r), Opened(r).holder.request, o))
                             /\ Holds(Opened(r), l)
    BY <1>5 DEF ConfirmSpawnFailure, SpawnFailed, Complete, Completable, Closed
  <2>2. Holds(Opened(r), l) => Opened(r).holder.request \in Requests
    BY OpenedOk DEF RecordOk, SlotAgrees, Holds, Started
  <2> QED  BY <2>1, <2>2, NoRecordStep, CloseMoves, CommitMoves
<1>6. ASSUME NEW r \in Resources, CancelClaim(l, r)  PROVE RecordStep
  <2>1. claim[l][r] \in Requests
    <3>1. claim[l][r] \in Requests \union {None}  BY DEF TypeOK, GateTypeOK
    <3>2. claim[l][r] # None  BY <1>6 DEF LaunchOk, CancelClaim
    <3> QED  BY <3>1, <3>2
  <2> QED  BY <1>6, <2>1, CloseMoves, CommitMoves DEF CancelClaim, CancelRequest, Closed
<1>7. ASSUME NEW r \in Resources, RecordSpawn(l, r)  PROVE RecordStep
  <2>1. /\ Opened(r).holder.state = "starting" /\ Opened(r).holder.spawner = l
        /\ Commit(r, Run(Opened(r), l))
    BY <1>7 DEF RecordSpawn, Holds
  <2>2. /\ GrantOk(Run(Opened(r), l)) /\ Quiet(res[r], Run(Opened(r), l), LiveLaunches)
    BY <2>1, OpenedQuiet, AdvanceQuiet, QuietTrans
  <2>3. Occupant(Run(Opened(r), l)) = Occupant(res[r])
    BY <2>1, OpenedQuiet, RunOk DEF Occupant, Started
  <2> QED  BY <2>1, <2>2, <2>3, QuietMoves, CommitMoves
<1> QED  BY <1>1, <1>2, <1>3, <1>4, <1>5, <1>6, <1>7 DEF Undo, Launch

\* Every step of the system moves every record.
LEMMA StepMoves ==
  ASSUME PolicyInv, [Next]_vars  PROVE RecordStep
<1>1. ASSUME NEW p \in Principals, Crash(p)  PROVE RecordStep
  BY <1>1, NoRecordStep DEF Crash
<1>2. CASE UNCHANGED vars  BY <1>2, NoRecordStep DEF vars, storeVars
<1>3. Clients \subseteq Principals  BY StoreAssumption
<1> QED
  BY <1>1, <1>2, <1>3, ToolMoves, EndingMoves, EnvironmentMoves, PrepareMoves, LaunchedMoves
     DEF Next, Gate
-----------------------------------------------------------------------------
(* What a step does to one launch. *)

\* A launch becomes live by beginLaunch only, and is in the ledger while it is; it visits
\* resources it needs, and forgets none of them before it is over.
LaunchMove(l) ==
  /\ l \in LiveLaunches' => (l \in LiveLaunches \/ BeginLaunch(l)) /\ ledger'[l] # "absent"
  /\ pc'[l] \in {"claim", "wait", "arm"} => left'[l] \subseteq need'[l]
  /\ need[l] \subseteq need'[l] \/ pc'[l] = "refused"
  /\ pc[l] = "refused" => pc'[l] = "refused"
  /\ (l \in LiveLaunches' \/ proc[l] # "none") => need'[l] = need[l]

\* A launch whose variables do not change, and whose process at most ends.
LEMMA LaunchRests ==
  ASSUME PolicyInv, NEW l \in Launches,
         pc'[l] = pc[l], need'[l] = need[l], left'[l] = left[l],
         proc'[l] = proc[l] \/ proc'[l] \in {"gone", "reused"},
         l \in LiveLaunches => ledger'[l] # "absent"
  PROVE  LaunchMove(l)
<1>1. l \in LiveLaunches' => l \in LiveLaunches  BY DEF LiveLaunches
<1> QED  BY <1>1 DEF LaunchMove, PolicyInv, AdmissionOk

\* A step that leaves every gate and the ledger alone.
LEMMA StoreRests ==
  ASSUME PolicyInv, UNCHANGED gateVars, ledger' = ledger,
         \A l \in Launches : proc'[l] = proc[l] \/ proc'[l] \in {"gone", "reused"}
  PROVE  \A l \in Launches : LaunchMove(l)
BY LaunchRests DEF gateVars, PolicyInv, AdmissionOk

\* Tool calls, ending runs, the clock and the process table.
LEMMA StoreLaunches ==
  ASSUME PolicyInv, UNCHANGED gateVars, NEW p \in Principals,
         ToolCall(p) \/ ManualCall(p) \/ Ending(p) \/ Environment
  PROVE  \A l \in Launches : LaunchMove(l)
<1>1. proc \in [Launches -> ProcessStates]  BY DEF PolicyInv, GateInv, TypeOK, StoreTypeOK
<1>2. CASE ToolCall(p)
  BY <1>2, StoreRests DEF ToolCall, Status, Lookup, SetController, Grant
<1>3. CASE ManualCall(p)
  BY <1>3, StoreRests DEF ManualCall, Request, Release, Cancel, AdoptRunning
<1>4. CASE Ending(p)
  BY <1>4, StoreRests DEF Ending, BeginEnd, EndRun, EndRunFails, CloseCoordinator
<1>5. CASE Environment
  <2>1. ledger' = ledger /\ \A l \in Launches : proc'[l] = proc[l] \/ proc'[l] \in {"gone", "reused"}
    BY <1>1, <1>5 DEF Environment, Lapse, DayPasses, ProcessExits, GroupIdReused, StrangerExits
  <2> QED  BY <2>1, StoreRests
<1> QED  BY <1>2, <1>3, <1>4, <1>5

\* A step of gate l concerns the variables of launch l, and keeps live launches in the ledger.
LEMMA OthersRest ==
  ASSUME PolicyInv, NEW l \in Launches, LaunchMove(l),
         \A k \in Launches \ {l} :
           /\ pc'[k] = pc[k] /\ need'[k] = need[k] /\ left'[k] = left[k] /\ proc'[k] = proc[k]
           /\ k \in LiveLaunches => ledger'[k] # "absent"
  PROVE  \A k \in Launches : LaunchMove(k)
BY LaunchRests

\* A launch that is not live and does not become so, and takes up no resource it does not need.
LEMMA NotLiveMove ==
  ASSUME NEW l \in Launches, proc'[l] # "alive", pc'[l] # "admitted",
         pc[l] = "refused" => pc'[l] = "refused",
         pc'[l] \in {"claim", "wait", "arm"} => left'[l] \subseteq need'[l],
         need[l] \subseteq need'[l] \/ pc'[l] = "refused",
         proc[l] # "none" => need'[l] = need[l]
  PROVE  LaunchMove(l)
BY DEF LaunchMove, LiveLaunches

\* prepareCommandCoordination
LEMMA PrepareLaunches ==
  ASSUME PolicyInv, NEW l \in Launches, Prepare(l)
  PROVE  \A k \in Launches : LaunchMove(k)
<1>1. /\ GateTypeOK /\ StoreTypeOK /\ AdmissionOk(l) /\ need[l] \subseteq Resources
      /\ \A k \in Launches : k \in LiveLaunches => ledger[k] # "absent"
  BY DEF PolicyInv, GateInv, TypeOK, GateTypeOK, AdmissionOk
<1>2. proc[l] = "none" /\ proc' = proc /\ pc[l] \in Preparing
  <2>1. pc[l] \in Preparing
    BY DEF Prepare, SurveyFails, ClaimFails, WaitFails, ArmFails, BeginLaunch, BeginLaunchFails,
           Survey, AwaitGrant, BeforeSpawn, Claim, Preparing
  <2>2. proc' = proc
    BY DEF Prepare, SurveyFails, ClaimFails, WaitFails, ArmFails, BeginLaunch, BeginLaunchFails,
           Survey, AwaitGrant, BeforeSpawn, Claim, storeVars
  <2> QED  BY <2>1, <2>2, NoProcess DEF PolicyInv, Preparing, Spawned
<1>3. CASE BeginLaunch(l)
  <2>1. /\ pc'[l] \in {"admitted", "unwind"} /\ need' = need
        /\ ledger'[l] # "absent" /\ \A k \in LiveLaunches : ledger'[k] # "absent"
        /\ \A k \in Launches \ {l} : pc'[k] = pc[k] /\ left'[k] = left[k]
    <3>1. LiveLaunches \subseteq Retained  BY LiveBlocks DEF Retained, Blocking
    <3>2. LiveLaunches \subseteq Launches  BY DEF LiveLaunches
    <3> QED  BY <1>1, <1>3, <3>1, <3>2 DEF BeginLaunch, GateTypeOK, GoTo, Visit, Unwind
  <2>2. LaunchMove(l)  BY <1>2, <1>3, <2>1 DEF LaunchMove, LiveLaunches, Preparing
  <2> QED  BY <1>2, <2>1, <2>2, OthersRest
<1>4. CASE SurveyFails(l)
  <2>1. /\ pc'[l] = "refused" /\ ledger' = ledger
        /\ \A k \in Launches \ {l} : pc'[k] = pc[k] /\ left'[k] = left[k] /\ need'[k] = need[k]
    BY <1>1, <1>4 DEF SurveyFails, Forget, GoTo, Visit, GateTypeOK, storeVars
  <2>2. LaunchMove(l)  BY <1>2, <2>1, NotLiveMove DEF Preparing
  <2> QED  BY <1>1, <1>2, <2>1, <2>2, OthersRest
<1>5. CASE ClaimFails(l) \/ WaitFails(l) \/ ArmFails(l) \/ BeginLaunchFails(l)
  <2>1. /\ pc'[l] = "unwind" /\ ledger' = ledger /\ need' = need
        /\ \A k \in Launches \ {l} : pc'[k] = pc[k] /\ left'[k] = left[k]
    BY <1>1, <1>5 DEF ClaimFails, WaitFails, ArmFails, BeginLaunchFails, Unwind, GoTo, Visit,
                      GateTypeOK, storeVars
  <2>2. LaunchMove(l)  BY <1>2, <2>1, NotLiveMove DEF Preparing
  <2> QED  BY <1>1, <1>2, <2>1, <2>2, OthersRest
<1>6. ASSUME NEW r \in Resources, Survey(l, r)  PROVE \A k \in Launches : LaunchMove(k)
  <2> DEFINE required == IF Governs(Current(r), l) THEN need[l] \union {r} ELSE need[l]
             rest == left[l] \ {r}
  <2>1. /\ need' = [need EXCEPT ![l] = required] /\ ledger' = ledger
        /\ \/ GoTo(l, "survey") /\ Visit(l, rest)
           \/ GoTo(l, "claim") /\ Visit(l, required)
           \/ GoTo(l, "commit") /\ Visit(l, {})
    BY <1>6 DEF Survey
  <2>2. need[l] \subseteq required  OBVIOUS
  <2> HIDE DEF required, rest
  <2>3. /\ need[l] \subseteq need'[l] /\ pc'[l] \in {"survey", "claim", "commit"}
        /\ pc'[l] = "claim" => left'[l] = need'[l]
        /\ \A k \in Launches \ {l} : pc'[k] = pc[k] /\ left'[k] = left[k] /\ need'[k] = need[k]
    BY <1>1, <2>1, <2>2 DEF GateTypeOK, GoTo, Visit
  <2>4. LaunchMove(l)  BY <1>2, <2>3, NotLiveMove DEF Preparing
  <2> QED  BY <1>1, <1>2, <2>1, <2>3, <2>4, OthersRest
<1>7. ASSUME NEW r \in Resources, AwaitGrant(l, r)  PROVE \A k \in Launches : LaunchMove(k)
  <2>1. /\ need' = need /\ ledger' = ledger /\ left[l] \subseteq need[l] /\ pc'[l] \in {"claim", "arm"}
        /\ left'[l] = left[l] \ {r} \/ left'[l] = need[l]
        /\ \A k \in Launches \ {l} : pc'[k] = pc[k] /\ left'[k] = left[k]
    BY <1>1, <1>7 DEF AwaitGrant, AdmissionOk, GateTypeOK, GoTo, Visit
  <2>2. LaunchMove(l)  BY <1>2, <2>1, NotLiveMove DEF Preparing
  <2> QED  BY <1>1, <1>2, <2>1, <2>2, OthersRest
<1>8. ASSUME NEW r \in Resources, BeforeSpawn(l, r)  PROVE \A k \in Launches : LaunchMove(k)
  <2>1. /\ need' = need /\ ledger' = ledger /\ left[l] \subseteq need[l]
        /\ \/ pc'[l] \in {"arm", "commit"} /\ left'[l] = left[l] \ {r}
           \/ pc'[l] = "unwind"
        /\ \A k \in Launches \ {l} : pc'[k] = pc[k] /\ left'[k] = left[k]
    BY <1>1, <1>8 DEF BeforeSpawn, AdmissionOk, GateTypeOK, GoTo, Visit, Unwind
  <2>2. LaunchMove(l)  BY <1>2, <2>1, NotLiveMove DEF Preparing
  <2> QED  BY <1>1, <1>2, <2>1, <2>2, OthersRest
<1>9. ASSUME NEW r \in Resources, NEW t \in Requests, Claim(l, r, t)
      PROVE \A k \in Launches : LaunchMove(k)
  <2>1. /\ need' = need /\ ledger' = ledger /\ left[l] \subseteq need[l]
        /\ (pc'[l] = "wait" /\ left'[l] = left[l]) \/ pc'[l] = "unwind"
        /\ \A k \in Launches \ {l} : pc'[k] = pc[k] /\ left'[k] = left[k]
    BY <1>1, <1>9 DEF Claim, AdmissionOk, GateTypeOK, GoTo, Visit, Unwind
  <2>2. LaunchMove(l)  BY <1>2, <2>1, NotLiveMove DEF Preparing
  <2> QED  BY <1>1, <1>2, <2>1, <2>2, OthersRest
<1> QED  BY <1>3, <1>4, <1>5, <1>6, <1>7, <1>8, <1>9 DEF Prepare
\* finishLaunch removes the entry of one launch.
LEMMA RemovedEntry ==
  ASSUME StoreTypeOK, NEW l \in Launches, RemoveLaunch(l) \/ ledger' = ledger
  PROVE  \A k \in Launches \ {l} : ledger'[k] = ledger[k]
BY DEF RemoveLaunch, StoreTypeOK

\* The undoing of a preparation: the launch has no process and gets none.
LEMMA UndoLaunches ==
  ASSUME PolicyInv, NEW l \in Launches, Undo(l)
  PROVE  \A k \in Launches : LaunchMove(k)
<1>1. /\ GateTypeOK /\ StoreTypeOK
      /\ \A k \in Launches : k \in LiveLaunches => ledger[k] # "absent"
  BY DEF PolicyInv, GateInv, TypeOK, AdmissionOk
<1>2. proc[l] = "none" /\ proc' = proc /\ pc[l] \in Undoing
  <2>1. pc[l] \in Undoing /\ proc' = proc
    BY DEF Undo, UnwindDone, CancelDone, AbortDone, ConfirmSpawnFailure, ConfirmSkipped,
           CancelClaim, CancelClaimSkipped, Undoing, storeVars
  <2> QED  BY <2>1, NoProcess DEF PolicyInv, Undoing, Spawned
<1>3. \A k \in Launches \ {l} : ledger'[k] = ledger[k]
  <2>1. RemoveLaunch(l) \/ ledger' = ledger
    BY DEF Undo, UnwindDone, CancelDone, AbortDone, ConfirmSpawnFailure, ConfirmSkipped,
           CancelClaim, CancelClaimSkipped, storeVars
  <2> QED  BY <1>1, <2>1, RemovedEntry
<1>4. CASE CancelDone(l) \/ AbortDone(l)
  <2>1. /\ pc'[l] = "refused"
        /\ \A k \in Launches \ {l} : pc'[k] = pc[k] /\ left'[k] = left[k] /\ need'[k] = need[k]
    BY <1>1, <1>4 DEF CancelDone, AbortDone, Forget, GoTo, GateTypeOK
  <2>2. LaunchMove(l)  BY <1>2, <2>1, NotLiveMove
  <2> QED  BY <1>1, <1>2, <1>3, <2>1, <2>2, OthersRest
<1>5. CASE UnwindDone(l) \/ \E r \in Resources :
             ConfirmSpawnFailure(l, r) \/ ConfirmSkipped(l, r) \/ CancelClaim(l, r) \/ CancelClaimSkipped(l, r)
  <2>1. /\ pc'[l] \in Undoing /\ need' = need
        /\ \A k \in Launches \ {l} : pc'[k] = pc[k] /\ left'[k] = left[k]
    BY <1>1, <1>2, <1>5 DEF UnwindDone, ConfirmSpawnFailure, ConfirmSkipped, CancelClaim, CancelClaimSkipped,
                      GoTo, Visit, GateTypeOK, Undoing
  <2>2. LaunchMove(l)  BY <1>2, <2>1, NotLiveMove DEF Undoing
  <2> QED  BY <1>1, <1>2, <1>3, <2>1, <2>2, OthersRest
<1> QED  BY <1>4, <1>5 DEF Undo

\* The spawn, the publication of the process and the draining.
LEMMA SpawnedLaunches ==
  ASSUME PolicyInv, NEW l \in Launches, Launch(l)
  PROVE  \A k \in Launches : LaunchMove(k)
<1>1. /\ GateTypeOK /\ StoreTypeOK
      /\ \A k \in Launches : k \in LiveLaunches => ledger[k] # "absent"
  BY DEF PolicyInv, GateInv, TypeOK, AdmissionOk
<1>2. need' = need
  BY DEF Launch, Spawn, SpawnFails, PublishLaunch, PublicationFails, FinishLaunch, FinishLaunchGivenUp,
         RecordSpawn, Complete, CompleteGivenUp
<1>3. CASE Spawn(l)
  <2>1. /\ pc[l] = "admitted" /\ pc'[l] = "publish" /\ ledger' = ledger /\ left' = left
        /\ \A k \in Launches \ {l} : pc'[k] = pc[k] /\ proc'[k] = proc[k]
    BY <1>1, <1>3 DEF Spawn, GoTo, GateTypeOK, StoreTypeOK
  <2>2. LaunchMove(l)  BY <1>1, <1>2, <2>1 DEF LaunchMove, LiveLaunches
  <2> QED  BY <1>1, <1>2, <2>1, <2>2, OthersRest
<1>4. ASSUME ~Spawn(l)  PROVE \A k \in Launches : LaunchMove(k)
  <2>1. /\ proc' = proc /\ pc'[l] \in Spawned \union {"abort"}
        /\ \A k \in Launches \ {l} : pc'[k] = pc[k] /\ left'[k] = left[k]
    <3>1. CASE SpawnFails(l) \/ PublishLaunch(l) \/ PublicationFails(l) \/ FinishLaunch(l) \/ FinishLaunchGivenUp(l)
      BY <1>1, <3>1 DEF SpawnFails, PublishLaunch, PublicationFails, FinishLaunch, FinishLaunchGivenUp,
                        GoTo, Visit, GateTypeOK, storeVars, Spawned
    <3>2. CASE \E r \in Resources : RecordSpawn(l, r) \/ Complete(l, r) \/ CompleteGivenUp(l, r)
      BY <1>1, <3>2 DEF RecordSpawn, Complete, CompleteGivenUp, GoTo, Visit, GateTypeOK, storeVars, Spawned
    <3> QED  BY <1>4, <3>1, <3>2 DEF Launch
  <2>2. /\ RemoveLaunch(l) /\ l \in Gone
        \/ ledger' = ledger
        \/ ledger' = [ledger EXCEPT ![l] = "published"]
    BY <1>4 DEF Launch, SpawnFails, PublishLaunch, PublicationFails, FinishLaunch, FinishLaunchGivenUp,
                RecordSpawn, Complete, CompleteGivenUp, storeVars
  <2>3. \A k \in Launches \ {l} : ledger'[k] = ledger[k]
    BY <1>1, <2>2, RemovedEntry DEF StoreTypeOK
  <2>4. proc[l] = "alive" => ledger'[l] # "absent"
    BY <1>1, <2>2 DEF Gone, StoreTypeOK, LiveLaunches
  <2>5. pc[l] # "refused"
    BY <1>4 DEF Launch, SpawnFails, PublishLaunch, PublicationFails, FinishLaunch, FinishLaunchGivenUp,
                RecordSpawn, Complete, CompleteGivenUp
  <2>6. LaunchMove(l)  BY <1>2, <2>1, <2>4, <2>5 DEF LaunchMove, LiveLaunches, Spawned
  <2> QED  BY <1>1, <1>2, <2>1, <2>3, <2>6, OthersRest
<1> QED  BY <1>3, <1>4

\* A crash makes no launch live, and keeps the live ones in the ledger.
LEMMA CrashLaunches ==
  ASSUME PolicyInv, NEW p \in Principals, Crash(p)
  PROVE  \A k \in Launches : LaunchMove(k)
<1> SUFFICES ASSUME NEW k \in Launches  PROVE LaunchMove(k)
  OBVIOUS
<1>1. /\ need' = need /\ proc' = proc /\ ledger' = ledger
      /\ \/ pc'[k] = pc[k] /\ left'[k] = left[k]
         \/ pc'[k] = "crashed" /\ pc[k] # "refused"
  BY DEF Crash
<1>2. k \in LiveLaunches => ledger[k] # "absent"  BY DEF PolicyInv, AdmissionOk
<1>3. CASE pc'[k] = pc[k] /\ left'[k] = left[k]  BY <1>1, <1>2, <1>3, LaunchRests
<1>4. CASE pc'[k] = "crashed" /\ pc[k] # "refused"
  BY <1>1, <1>2, <1>4 DEF LaunchMove, LiveLaunches
<1> QED  BY <1>1, <1>3, <1>4

\* Every step of the system moves every launch.
LEMMA StepLaunches ==
  ASSUME PolicyInv, [Next]_vars  PROVE \A l \in Launches : LaunchMove(l)
<1>1. CASE UNCHANGED vars  BY <1>1, StoreRests DEF vars, storeVars
<1>2. Clients \subseteq Principals  BY StoreAssumption
<1>3. CASE Environment /\ UNCHANGED gateVars
  <2>1. CASE Principals = {}
    <3>1. Launches = {}  BY <2>1, ConstantsAssumption
    <3> QED  BY <3>1
  <2>2. CASE Principals # {}  BY <1>3, <2>2, StoreLaunches
  <2> QED  BY <2>1, <2>2
<1> QED
  BY <1>1, <1>2, <1>3, StoreLaunches, PrepareLaunches, UndoLaunches, SpawnedLaunches, CrashLaunches
     DEF Next, Gate

-----------------------------------------------------------------------------
(* The theorems. *)

\* The initial state: no ticket, no holder, no launch beyond its survey.
LEMMA PolicyInit == Init => PolicyInv
<1> SUFFICES ASSUME Init  PROVE PolicyInv
  OBVIOUS
<1>1. GateInv  BY InitOk
<1>2. \A r \in Resources : GrantOk(res[r])
  BY DEF Init, StoreInit, GrantOk, Unconfigured, NoTicket
<1>3. \A l \in Launches : AdmissionOk(l)
  BY ConstantsAssumption
     DEF Init, StoreInit, GateInit, AdmissionOk, LiveLaunches, Holds, Unconfigured, NoHolder, NoTicket, Started
<1> QED  BY <1>1, <1>2, <1>3 DEF PolicyInv

\* Every step preserves the invariant.
LEMMA PolicyNext == PolicyInv /\ [Next]_vars => PolicyInv'
<1> SUFFICES ASSUME PolicyInv, [Next]_vars  PROVE PolicyInv'
  OBVIOUS
<1>1. GateInv'  BY NextOk DEF PolicyInv
<1>2. RecordStep /\ \A l \in Launches : LaunchMove(l)  BY StepMoves, StepLaunches
<1>3. \A r \in Resources : GrantOk(res[r])'  BY <1>2 DEF RecordStep, Moves
<1>4. ASSUME NEW l \in Launches  PROVE AdmissionOk(l)'
  <2>1. LaunchMove(l) /\ AdmissionOk(l) /\ l # None  BY <1>2, ConstantsAssumption DEF PolicyInv
  <2>2. ASSUME NEW r \in Resources, r \in need[l] \/ pc[l] = "refused"
        PROVE  r \in need'[l] \/ pc'[l] = "refused"
    BY <2>1, <2>2 DEF LaunchMove
  <2>3. ASSUME NEW r \in Resources, Holds(res'[r], l)
        PROVE  r \in need'[l] \/ pc'[l] = "refused"
    <3>1. Occupant(res'[r]) = l  BY <2>3 DEF Holds, Occupant
    <3>2. \/ Occupant(res[r]) = l
          \/ \E k \in Launches : BeforeSpawn(k, r)
      BY <1>2, <2>1, <3>1 DEF RecordStep, Moves
    <3>3. CASE Occupant(res[r]) = l
      <4>1. Holds(res[r], l)  BY <2>1, <3>3 DEF Occupant, Holds
      <4> QED  BY <2>1, <2>2, <4>1 DEF AdmissionOk
    <3>4. ASSUME NEW k \in Launches, BeforeSpawn(k, r)  PROVE Holds(res[r], l) \/ (l = k /\ r \in need[l])
      <4>1. Current(r).holder.state = "reserved" /\ Commit(r, Start(Current(r), k))
        BY <3>4 DEF BeforeSpawn, Armable
      <4>2. Start(Current(r), k).holder.spawner = k  BY <4>1, CurrentQuiet, StartOk
      <4>3. res'[r] = Start(Current(r), k)
        BY <4>1 DEF Commit, PolicyInv, GateInv, TypeOK, StoreTypeOK
      <4>4. l = k  BY <2>3, <4>2, <4>3 DEF Holds
      <4> QED  BY <2>1, <3>4, <4>4 DEF BeforeSpawn, IsNext, AdmissionOk
    <3> QED  BY <2>1, <2>2, <3>2, <3>3, <3>4 DEF AdmissionOk
  <2>4. ASSUME NEW r \in Resources, NEW t \in Requests, res'[r].tickets[t].launch = l
        PROVE  r \in need'[l] \/ pc'[l] = "refused"
    <3>1. \/ res[r].tickets[t].launch = l
          \/ pc[l] = "claim" /\ r \in left[l]
      BY <1>2, <2>1, <2>4 DEF RecordStep, Moves, TicketStays, Claim, IsNext
    <3> QED  BY <2>1, <2>2, <3>1 DEF AdmissionOk
  <2> QED  BY <2>1, <2>3, <2>4 DEF AdmissionOk, LaunchMove
<1> QED  BY <1>1, <1>3, <1>4 DEF PolicyInv

\* The invariant of policies, the ledger and the launches that carry tickets.
THEOREM PolicyInvariant == Spec => []PolicyInv
BY PolicyInit, PolicyNext, PTL DEF Spec

\* While commands admitted before a policy remain, the resource it governs has no
\* reservation, and a started holder was granted under an older policy.
THEOREM GrantsWait == Spec => []GrantsFollowBlockers
<1>1. PolicyInv => GrantsFollowBlockers
  BY DEF PolicyInv, GrantOk, GrantsFollowBlockers
<1> QED  BY <1>1, PolicyInvariant, PTL

\* A closed ticket stays closed until the sweep of day-old tickets forgets it.
THEOREM ClosedForGood == Spec => ClosedStaysClosed
<1>1. PolicyInv /\ [Next]_vars =>
        [\A r \in Resources, t \in Requests :
           (res[r].tickets[t].state \in Closed /\ ~res[r].tickets[t].aged)
             => res'[r].tickets[t].state \in Closed]_vars
  BY StepMoves DEF RecordStep, Moves
<1> QED  BY <1>1, PolicyInvariant, PTL DEF Spec, ClosedStaysClosed
\* No step takes a live launch from the view of a policy that governs it.
LEMMA GovernedNext ==
  ASSUME PolicyInv, NoUngovernedCommand, [Next]_vars
  PROVE  NoUngovernedCommand'
<1>1. /\ RecordStep /\ \A l \in Launches : LaunchMove(l)
      /\ HoldsUntilGone /\ HoldsUntilGone'
  <2>1. GateInv /\ GateInv'  BY NextOk DEF PolicyInv
  <2>2. HoldsUntilGone /\ HoldsUntilGone'  BY <2>1, InvHolds, PTL
  <2> QED  BY <2>2, StepMoves, StepLaunches
<1> SUFFICES ASSUME NEW r \in Resources, NEW l \in Launches,
                    l \in LiveLaunches', Governs(res'[r], l)
             PROVE  l \in res'[r].blockers \/ Holds(res'[r], l)
  BY DEF NoUngovernedCommand, LiveLaunches
<1>2. /\ LaunchMove(l) /\ need'[l] = need[l] /\ Moves(r, res'[r]) /\ AdmissionOk(l) /\ l # None
  BY <1>1, ConstantsAssumption DEF LaunchMove, RecordStep, PolicyInv
<1>3. r \in need'[l] => Holds(res'[r], l)
  BY <1>1 DEF HoldsUntilGone, LiveLaunches
<1>4. CASE l \in LiveLaunches
  <2>1. pc[l] # "refused"
    BY <1>4, NoProcess DEF LiveLaunches, PolicyInv, Spawned
  <2>2. CASE PolicyKept(res[r], res'[r], LiveLaunches)
    <3>1. Governs(res[r], l)  BY <2>2 DEF Governs, PolicyKept, InProfile
    <3>2. l \in res[r].blockers \/ Holds(res[r], l)
      BY <1>4, <3>1 DEF NoUngovernedCommand, LiveLaunches
    <3>3. Holds(res[r], l) => r \in need[l]  BY <1>2, <2>1 DEF AdmissionOk
    <3> QED  BY <1>2, <1>3, <1>4, <2>2, <3>2, <3>3 DEF PolicyKept
  <2>3. CASE HolderLaunch(Current(r)) = l
    <3>1. PICK t \in Requests : Current(r).tickets[t].launch = l
      BY <1>2, <2>3 DEF HolderLaunch
    <3>2. res[r].tickets[t].launch = l
      BY <1>2, <3>1, CurrentQuiet DEF Quiet, LaunchesKept, TicketStays
    <3>3. r \in need[l]  BY <1>2, <2>1, <3>2 DEF AdmissionOk
    <3> QED  BY <1>2, <1>3, <3>3
  <2> QED  BY <1>2, <1>4, <2>2, <2>3 DEF Moves
<1>5. CASE l \notin LiveLaunches
  <2>1. BeginLaunch(l)  BY <1>2, <1>5 DEF LaunchMove
  <2>2. res'[r] = Current(r) /\ (Governs(Current(r), l) => r \in need[l])
    BY <2>1 DEF BeginLaunch, Admissible
  <2> QED  BY <1>2, <1>3, <2>2
<1> QED  BY <1>4, <1>5

\* Admission and policy installation never miss each other: every live command that a
\* policy governs holds the resource or is one of the blockers the policy waits for.
THEOREM EveryCommandGoverned == Spec => []NoUngovernedCommand
<1>1. Init => NoUngovernedCommand
  BY DEF Init, StoreInit, NoUngovernedCommand, Governs, Unconfigured
<1>2. PolicyInv /\ NoUngovernedCommand /\ [Next]_vars => NoUngovernedCommand'
  BY GovernedNext
<1> QED  BY <1>1, <1>2, PolicyInvariant, PTL DEF Spec

-----------------------------------------------------------------------------
(* Commands that wait for several resources. *)

NoneAt(l, r) == \A t \in Requests : res[r].tickets[t].launch # l
WaitsAt(l, r, t) == res[r].tickets[t].launch = l /\ res[r].tickets[t].state = "queued"

\* A launch has tickets for the resources it has visited only; none of them is queued, but for
\* the one it is waiting with, or for the one it had last when it gave up.
OrderOk(l) ==
  /\ pc[l] = "survey" => \A r \in Resources : NoneAt(l, r)
  /\ pc[l] = "claim" =>
       /\ \A r \in left[l], q \in Resources : r <= q => NoneAt(l, q)
       /\ \A r \in Resources, t \in Requests : ~WaitsAt(l, r, t)
  /\ pc[l] = "wait" =>
       /\ \A r \in left[l], q \in Resources : r < q => NoneAt(l, q)
       /\ \A r \in Resources, t \in Requests : WaitsAt(l, r, t) => IsNext(l, r) /\ t = claim[l][r]
  /\ \A r, q \in Resources, t \in Requests : WaitsAt(l, r, t) /\ r < q => NoneAt(l, q)

OrderInv == PolicyInv /\ \A l \in Launches : OrderOk(l)

\* What the step does to the tickets of a launch, unless it claims one.
TicketsStay(l) ==
  \A r \in Resources, t \in Requests : ~Claim(l, r, t) =>
    /\ res'[r].tickets[t].launch = l => res[r].tickets[t].launch = l
    /\ WaitsAt(l, r, t)' => WaitsAt(l, r, t)

LEMMA StepStays ==
  ASSUME PolicyInv, [Next]_vars, NEW l \in Launches  PROVE TicketsStay(l)
<1> SUFFICES ASSUME NEW r \in Resources, NEW t \in Requests, ~Claim(l, r, t), res'[r].tickets[t].launch = l
             PROVE  /\ res[r].tickets[t].launch = l
                    /\ WaitsAt(l, r, t)' => WaitsAt(l, r, t)
  BY DEF TicketsStay, WaitsAt
<1>1. l # None  BY ConstantsAssumption
<1>2. TicketStays(res[r].tickets[t], res'[r].tickets[t])  BY StepMoves DEF RecordStep, Moves
<1> QED  BY <1>1, <1>2 DEF TicketStays, WaitsAt

\* A launch that claims nothing, and rests or leaves the phases of the claims.
LEMMA NoClaimOrder ==
  ASSUME NEW l \in Launches, OrderOk(l), TicketsStay(l),
         \A r \in Resources, t \in Requests : ~Claim(l, r, t),
         \/ pc'[l] \notin {"survey", "claim", "wait"}
         \/ pc[l] = "survey"
         \/ pc'[l] = pc[l] /\ left'[l] = left[l] /\ claim'[l] = claim[l]
  PROVE  OrderOk(l)'
<1>1. ASSUME NEW r \in Resources, NoneAt(l, r)  PROVE NoneAt(l, r)'
  BY <1>1 DEF TicketsStay, NoneAt
<1>2. ASSUME NEW r \in Resources, NEW t \in Requests, WaitsAt(l, r, t)'  PROVE WaitsAt(l, r, t)
  BY <1>2 DEF TicketsStay
<1>3. \A r, q \in Resources, t \in Requests : WaitsAt(l, r, t)' /\ r < q => NoneAt(l, q)'
  BY <1>1, <1>2 DEF OrderOk
<1>4. CASE pc'[l] \notin {"survey", "claim", "wait"}  BY <1>3, <1>4 DEF OrderOk
<1>5. CASE pc[l] = "survey"
  <2>1. \A r \in Resources : NoneAt(l, r)'  BY <1>1, <1>5 DEF OrderOk
  <2>2. \A r \in Resources, t \in Requests : ~WaitsAt(l, r, t)'  BY <2>1 DEF NoneAt, WaitsAt
  <2> QED  BY <1>3, <2>1, <2>2 DEF OrderOk
<1>6. CASE pc'[l] = pc[l] /\ left'[l] = left[l] /\ claim'[l] = claim[l]
  <2>1. \A r \in Resources : IsNext(l, r)' <=> IsNext(l, r)  BY <1>6 DEF IsNext
  <2> QED  BY <1>1, <1>2, <1>3, <1>6, <2>1 DEF OrderOk
<1> QED  BY <1>4, <1>5, <1>6

\* claimCommand: the ticket is for the least resource that is left.
LEMMA ClaimOrder ==
  ASSUME OrderInv, NEW l \in Launches, TicketsStay(l), NEW r \in Resources, NEW t \in Requests, Claim(l, r, t)
  PROVE  OrderOk(l)'
<1>1. /\ GateTypeOK /\ OrderOk(l) /\ pc[l] = "claim" /\ IsNext(l, r) /\ r \in left[l]
      /\ left[l] \subseteq Resources /\ Resources \subseteq Nat
  BY DEF OrderInv, PolicyInv, GateInv, TypeOK, GateTypeOK, Claim, IsNext, Resources
<1>2. \/ pc'[l] = "unwind"
      \/ /\ pc'[l] = "wait" /\ left'[l] = left[l]
  BY <1>1 DEF Claim, Unwind, GoTo, GateTypeOK
<1>3. ASSUME NEW q \in Resources, NEW u \in Requests, Claim(l, q, u)
      PROVE  q = r /\ (pc'[l] = "wait" => claim'[l][q] = u)
  <2>1. q \in left[l] /\ q <= r /\ r <= q  BY <1>1, <1>3 DEF Claim, IsNext
  <2>2. pc'[l] = "wait" => claim' = [claim EXCEPT ![l][q] = u]
    BY <1>1, <1>3 DEF Claim, Unwind, GoTo, GateTypeOK
  <2> QED  BY <1>1, <2>1, <2>2 DEF GateTypeOK
<1>4. ASSUME NEW q \in Resources, r < q  PROVE NoneAt(l, q)'
  <2>1. NoneAt(l, q) /\ q # r  BY <1>1, <1>4 DEF OrderOk
  <2> QED  BY <1>3, <2>1 DEF TicketsStay, NoneAt
<1>5. ASSUME NEW q \in Resources, NEW u \in Requests, WaitsAt(l, q, u)'
      PROVE  q = r /\ (pc'[l] = "wait" => claim'[l][q] = u)
  <2>1. ~WaitsAt(l, q, u)  BY <1>1 DEF OrderOk
  <2> QED  BY <1>3, <1>5, <2>1 DEF TicketsStay
<1>6. ASSUME NEW k \in left[l], NEW q \in Resources, k < q  PROVE NoneAt(l, q)'
  <2>1. r <= k /\ r \in Nat /\ k \in Nat /\ q \in Nat  BY <1>1, <1>6 DEF IsNext
  <2>2. r < q  BY <1>6, <2>1
  <2> QED  BY <1>4, <2>2
<1>7. pc'[l] = "wait" => IsNext(l, r)'  BY <1>1, <1>2 DEF IsNext
<1> QED  BY <1>2, <1>4, <1>5, <1>6, <1>7 DEF OrderOk

\* waitForGrant: the ticket it waited with is reserved now.
LEMMA AwaitOrder ==
  ASSUME OrderInv, NEW l \in Launches, TicketsStay(l), NEW r \in Resources, AwaitGrant(l, r)
  PROVE  OrderOk(l)'
<1>1. /\ GateTypeOK /\ OrderOk(l) /\ pc[l] = "wait" /\ IsNext(l, r) /\ r \in left[l]
      /\ left[l] \subseteq Resources /\ Resources \subseteq Nat
      /\ res \in [Resources -> ResourceState]
  BY DEF OrderInv, PolicyInv, GateInv, TypeOK, GateTypeOK, StoreTypeOK, AwaitGrant, IsNext, Resources
<1>2. \/ pc'[l] = "arm"
      \/ pc'[l] = "claim" /\ left'[l] = left[l] \ {r}
  BY <1>1 DEF AwaitGrant, Visit, GoTo, GateTypeOK
<1>3. res'[r].tickets[claim[l][r]].state = "reserved"  BY <1>1 DEF AwaitGrant, Commit
<1>4. ASSUME NEW q \in Resources, NEW u \in Requests  PROVE ~WaitsAt(l, q, u)'
  <2> SUFFICES ASSUME WaitsAt(l, q, u)'  PROVE FALSE
    OBVIOUS
  <2>1. WaitsAt(l, q, u)  BY <1>1 DEF TicketsStay, Claim
  <2>2. IsNext(l, q) /\ u = claim[l][q]  BY <1>1, <2>1 DEF OrderOk
  <2>3. q <= r /\ r <= q /\ q \in Nat /\ r \in Nat  BY <1>1, <2>2 DEF IsNext
  <2>4. q = r  BY <2>3
  <2> QED  BY <1>3, <2>2, <2>4 DEF WaitsAt
<1>5. ASSUME NEW k \in left[l] \ {r}, NEW q \in Resources, k <= q  PROVE NoneAt(l, q)'
  <2>1. r < q  BY <1>1, <1>5 DEF IsNext
  <2>2. NoneAt(l, q)  BY <1>1, <2>1 DEF OrderOk
  <2> QED  BY <1>1, <2>2 DEF TicketsStay, NoneAt, Claim
<1> QED  BY <1>2, <1>4, <1>5 DEF OrderOk

\* Every step keeps the order of the claims.
LEMMA OrderNext == OrderInv /\ [Next]_vars => OrderInv'
<1> SUFFICES ASSUME OrderInv, [Next]_vars, NEW l \in Launches  PROVE OrderOk(l)'
  BY PolicyNext DEF OrderInv
<1>1. OrderOk(l) /\ TicketsStay(l) /\ GateTypeOK
  BY StepStays DEF OrderInv, PolicyInv, GateInv, TypeOK
<1>2. ASSUME NEW r \in Resources, NEW t \in Requests, Claim(l, r, t)  PROVE OrderOk(l)'
  BY <1>1, <1>2, ClaimOrder
<1>3. ASSUME NEW r \in Resources, AwaitGrant(l, r)  PROVE OrderOk(l)'
  BY <1>1, <1>3, AwaitOrder
<1>4. ASSUME \A r \in Resources : ~AwaitGrant(l, r) /\ \A t \in Requests : ~Claim(l, r, t)
      PROVE  OrderOk(l)'
  <2>1. \/ pc'[l] \notin {"survey", "claim", "wait"}
        \/ pc[l] = "survey"
        \/ pc'[l] = pc[l] /\ left'[l] = left[l] /\ claim'[l] = claim[l]
    <3>1. CASE UNCHANGED gateVars \/ UNCHANGED vars  BY <3>1 DEF gateVars, vars
    <3>2. ASSUME NEW p \in Principals, Crash(p)
          PROVE pc'[l] = "crashed" \/ (pc'[l] = pc[l] /\ left'[l] = left[l] /\ claim'[l] = claim[l])
      BY <3>2 DEF Crash
    <3>3. ASSUME NEW k \in Launches, Gate(k), k # l
          PROVE  pc'[l] = pc[l] /\ left'[l] = left[l] /\ claim'[l] = claim[l]
      <4>1. CASE Prepare(k)
        BY <1>1, <3>3, <4>1 DEF Prepare, SurveyFails, ClaimFails, WaitFails, ArmFails, BeginLaunch, BeginLaunchFails,
           Survey, AwaitGrant, BeforeSpawn, Claim, Unwind, Forget, GoTo, Visit, GateTypeOK
      <4>2. CASE Undo(k)
        BY <1>1, <3>3, <4>2 DEF Undo, UnwindDone, CancelDone, AbortDone, ConfirmSpawnFailure, ConfirmSkipped,
           CancelClaim, CancelClaimSkipped, Forget, GoTo, Visit, GateTypeOK
      <4>3. CASE Launch(k)
        BY <1>1, <3>3, <4>3 DEF Launch, Spawn, SpawnFails, PublishLaunch, PublicationFails, FinishLaunch,
           FinishLaunchGivenUp, RecordSpawn, Complete, CompleteGivenUp, GoTo, Visit, GateTypeOK
      <4> QED  BY <3>3, <4>1, <4>2, <4>3 DEF Gate
    <3>4. ASSUME Gate(l)  PROVE pc[l] = "survey" \/ pc'[l] \notin {"survey", "claim", "wait"}
      <4>1. CASE Prepare(l)
        BY <1>1, <1>4, <4>1 DEF Prepare, SurveyFails, ClaimFails, WaitFails, ArmFails, BeginLaunch, BeginLaunchFails,
           Survey, BeforeSpawn, Unwind, Forget, GoTo, GateTypeOK
      <4>2. CASE Undo(l)
        BY <1>1, <4>2 DEF Undo, UnwindDone, CancelDone, AbortDone, ConfirmSpawnFailure, ConfirmSkipped,
           CancelClaim, CancelClaimSkipped, Forget, GoTo, GateTypeOK
      <4>3. CASE Launch(l)
        BY <1>1, <4>3 DEF Launch, Spawn, SpawnFails, PublishLaunch, PublicationFails, FinishLaunch,
           FinishLaunchGivenUp, RecordSpawn, Complete, CompleteGivenUp, GoTo, GateTypeOK
      <4> QED  BY <3>4, <4>1, <4>2, <4>3 DEF Gate
    <3> QED  BY <3>1, <3>2, <3>3, <3>4 DEF Next
  <2> QED  BY <1>1, <1>4, <2>1, NoClaimOrder
<1> QED  BY <1>2, <1>3, <1>4

\* Commands never wait for each other in a circle: the resources that one holds while it is
\* queued for another come before it.
THEOREM ClaimsInOrder == Spec => []WaitsInOrder
<1>1. Init => OrderInv
  <2> SUFFICES ASSUME Init, NEW l \in Launches  PROVE OrderOk(l)
    BY PolicyInit DEF OrderInv
  <2>1. \A r \in Resources : NoneAt(l, r) /\ \A t \in Requests : ~WaitsAt(l, r, t)
    BY ConstantsAssumption DEF Init, StoreInit, NoneAt, WaitsAt, Unconfigured, NoTicket
  <2> QED  BY <2>1 DEF OrderOk, Init, GateInit
<1>2. OrderInv => WaitsInOrder
  <2> SUFFICES ASSUME OrderInv, NEW r \in Resources, NEW q \in Resources, NEW t \in Requests,
                      res[r].tickets[t].state = "queued", res[r].tickets[t].launch # None,
                      HolderLaunch(res[q]) = res[r].tickets[t].launch
               PROVE  q <= r
    BY DEF WaitsInOrder, InState
  <2> DEFINE l == res[r].tickets[t].launch
  <2>1. l \in Launches
    <3>1. res[r].tickets \in [Requests -> Ticket]
      BY DEF OrderInv, PolicyInv, GateInv, TypeOK, StoreTypeOK, ResourceState
    <3> QED  BY <3>1 DEF Ticket
  <2>2. ~NoneAt(l, q)  BY DEF HolderLaunch, NoneAt
  <2>3. WaitsAt(l, r, t)  BY DEF WaitsAt
  <2>4. OrderOk(l)  BY <2>1 DEF OrderInv
  <2>5. ~(r < q)  BY <2>2, <2>3, <2>4 DEF OrderOk
  <2> QED  BY <2>5 DEF Resources
<1> QED  BY <1>1, <1>2, OrderNext, PTL DEF Spec

-----------------------------------------------------------------------------
(* The refinement of the abstract slots. *)

occupantBar == [r \in Resources |->
  IF res[r].holder.state \in Started THEN res[r].holder.spawner ELSE None]
lifeBar == [l \in Launches |-> IF proc[l] = "reused" THEN "gone" ELSE proc[l]]
usesBar == [l \in Launches |-> IF proc[l] = "none" THEN {} ELSE need[l]]

\* Nothing is occupied, alive or used initially.
LEMMA SlotInitOk == Init => Slot!SlotInit
BY DEF Init, StoreInit, GateInit, Slot!SlotInit, Unconfigured, NoHolder, Started

\* beforeSpawn occupies a free slot for a launch that has not started.
LEMMA OccupyStep ==
  ASSUME PolicyInv, NEW l \in Launches, NEW r \in Resources, BeforeSpawn(l, r)
  PROVE  Slot!SlotNext
<1>1. /\ Current(r).holder.state = "reserved" /\ Commit(r, Start(Current(r), l))
      /\ pc[l] = "arm" /\ proc' = proc /\ need' = need
  BY DEF BeforeSpawn, Armable
<1>2. /\ Start(Current(r), l).holder.spawner = l /\ Start(Current(r), l).holder.state = "starting"
      /\ res[r].holder.state = "reserved"
  BY <1>1, CurrentQuiet, StartOk, CurrentOk DEF PolicyInv, GateInv, NoHolder
<1>3. \A q \in Resources : res'[q] = IF q = r THEN Start(Current(r), l) ELSE res[q]
  BY <1>1 DEF Commit, PolicyInv, GateInv, TypeOK, StoreTypeOK
<1>4. proc[l] = "none"  BY <1>1, NoProcess DEF PolicyInv, Spawned
<1>5. occupantBar[r] = None /\ lifeBar[l] = "none"
  BY <1>2, <1>4 DEF occupantBar, lifeBar, Started
<1>6. occupantBar' = [occupantBar EXCEPT ![r] = l]
  BY <1>2, <1>3 DEF occupantBar, Started
<1>7. lifeBar' = lifeBar /\ usesBar' = usesBar  BY <1>1 DEF lifeBar, usesBar
<1> QED  BY <1>5, <1>6, <1>7 DEF Slot!SlotNext, Slot!Occupy, occupantBar, lifeBar, usesBar

\* Spawning starts a job that occupies every slot it will use.
LEMMA StartJobStep ==
  ASSUME PolicyInv, NEW l \in Launches, Spawn(l)
  PROVE  Slot!SlotNext
<1>1. /\ pc[l] = "admitted" /\ proc' = [proc EXCEPT ![l] = "alive"] /\ need' = need /\ res' = res
      /\ proc \in [Launches -> ProcessStates] /\ need[l] \in SUBSET Resources
  BY DEF Spawn, PolicyInv, GateInv, TypeOK, StoreTypeOK, GateTypeOK
<1>2. proc[l] = "none"  BY <1>1, NoProcess DEF PolicyInv, Spawned
<1>3. \A r \in need[l] : occupantBar[r] = l
  BY <1>1, InvHolds DEF PolicyInv, HoldsUntilGone, Holds, occupantBar
<1>4. lifeBar[l] = "none" /\ lifeBar' = [lifeBar EXCEPT ![l] = "alive"]
  BY <1>1, <1>2 DEF lifeBar
<1>5. usesBar' = [usesBar EXCEPT ![l] = need[l]]
  BY <1>1, <1>2 DEF usesBar
<1>6. occupantBar' = occupantBar  BY <1>1 DEF occupantBar
<1> QED  BY <1>1, <1>3, <1>4, <1>5, <1>6
         DEF Slot!SlotNext, Slot!StartJob, occupantBar, lifeBar, usesBar

\* What a launch with a process uses does not change until it is spawned.
LEMMA UsesKept ==
  ASSUME PolicyInv, [Next]_vars, \A l \in Launches : proc'[l] = "none" <=> proc[l] = "none"
  PROVE  usesBar' = usesBar
BY StepLaunches DEF LaunchMove, usesBar

\* Any other step that leaves the processes alone frees slots whose occupants are not alive.
LEMMA VacateStep ==
  ASSUME PolicyInv, [Next]_vars, proc' = proc,
         \A r \in Resources, l \in Launches : ~BeforeSpawn(l, r)
  PROVE  Slot!SlotNext
<1> DEFINE S == {r \in Resources : occupantBar'[r] # occupantBar[r]}
<1>1. PolicyInv' /\ HoldsUntilGone'
  <2>1. PolicyInv'  BY PolicyNext
  <2>2. GateInv'  BY <2>1 DEF PolicyInv
  <2>3. HoldsUntilGone'  BY <2>2, InvHolds, PTL
  <2> QED  BY <2>1, <2>3
<1>2. /\ RecordStep /\ (\A l \in Launches : LaunchMove(l)) /\ RecordsOk
      /\ res \in [Resources -> ResourceState]
  BY StepMoves, StepLaunches DEF PolicyInv, GateInv, TypeOK, StoreTypeOK
<1>3. \A r \in Resources : occupantBar'[r] \in {occupantBar[r], None}
  BY <1>2 DEF RecordStep, Moves, Occupant, occupantBar
<1>4. ASSUME NEW r \in S  PROVE occupantBar[r] # None /\ lifeBar[occupantBar[r]] # "alive"
  <2>1. r \in Resources /\ occupantBar'[r] = None /\ occupantBar[r] # None  BY <1>3, <1>4
  <2> DEFINE l == occupantBar[r]
  <2>2. l \in Launches /\ Holds(res[r], l) /\ res[r].holder.spawner = l
    BY <1>2, <2>1 DEF occupantBar, Holds, ResourceState, Holder
  <2> HIDE DEF l
  <2>3. ASSUME proc[l] = "alive"  PROVE FALSE
    <3>1. r \in need[l]
      <4>1. pc[l] # "refused"  BY <2>2, <2>3, NoProcess DEF PolicyInv, Spawned
      <4> QED  BY <2>1, <2>2, <4>1 DEF PolicyInv, AdmissionOk
    <3>2. r \in need'[l]  BY <1>2, <2>2, <2>3, <3>1 DEF LaunchMove
    <3>3. Holds(res'[r], l)  BY <1>1, <2>1, <2>2, <2>3, <3>2 DEF HoldsUntilGone
    <3> QED  BY <2>1, <2>2, <3>3, ConstantsAssumption DEF Holds, occupantBar
  <2> QED  BY <2>1, <2>2, <2>3 DEF l, lifeBar
<1>5. occupantBar' = [r \in Resources |-> IF r \in S THEN None ELSE occupantBar[r]]
  BY <1>3 DEF occupantBar
<1>6. lifeBar' = lifeBar /\ usesBar' = usesBar  BY UsesKept DEF lifeBar
<1>7. S \in SUBSET Resources  OBVIOUS
<1> HIDE DEF S
<1> QED  BY <1>4, <1>5, <1>6, <1>7 DEF Slot!SlotNext, Slot!Vacate, occupantBar, lifeBar, usesBar

\* Processes end: a job does, or a group ID changes hands after the tree is gone.
LEMMA EndJobStep ==
  ASSUME PolicyInv, NEW l \in Launches, ProcessExits(l) \/ GroupIdReused(l) \/ StrangerExits(l),
         need' = need
  PROVE  [Slot!SlotNext]_Slot!slotVars
<1>1. proc \in [Launches -> ProcessStates] /\ res' = res
  BY DEF PolicyInv, GateInv, TypeOK, StoreTypeOK, ProcessExits, GroupIdReused, StrangerExits
<1>2. occupantBar' = occupantBar  BY <1>1 DEF occupantBar
<1>3. usesBar' = usesBar
  BY <1>1 DEF usesBar, ProcessExits, GroupIdReused, StrangerExits
<1>4. CASE ProcessExits(l)
  <2>1. lifeBar[l] = "alive" /\ lifeBar' = [lifeBar EXCEPT ![l] = "gone"]
    BY <1>1, <1>4 DEF lifeBar, ProcessExits
  <2> QED  BY <1>2, <1>3, <2>1 DEF Slot!SlotNext, Slot!EndJob, occupantBar, lifeBar, usesBar
<1>5. CASE GroupIdReused(l) \/ StrangerExits(l)
  <2>1. lifeBar' = lifeBar
    BY <1>1, <1>5 DEF lifeBar, GroupIdReused, StrangerExits
  <2> QED  BY <1>2, <1>3, <2>1 DEF Slot!slotVars, occupantBar, lifeBar, usesBar
<1> QED  BY <1>4, <1>5

\* Steps that change a process are the spawn and those of the process table.
LEMMA ProcessSteps ==
  ASSUME [Next]_vars
  PROVE  \/ proc' = proc
         \/ \E l \in Launches : Spawn(l)
         \/ \E l \in Launches : /\ ProcessExits(l) \/ GroupIdReused(l) \/ StrangerExits(l)
                                /\ need' = need
<1>1. ASSUME NEW p \in Principals, ToolCall(p) \/ Ending(p) \/ Crash(p)  PROVE proc' = proc
  BY <1>1 DEF ToolCall, Status, Lookup, SetController, Grant,
              Ending, BeginEnd, EndRun, EndRunFails, CloseCoordinator, Crash
<1>2. ASSUME NEW p \in Clients, ManualCall(p)  PROVE proc' = proc
  BY <1>2 DEF ManualCall, Request, Release, Cancel, AdoptRunning
<1>3. ASSUME NEW l \in Launches, Prepare(l)  PROVE proc' = proc
  BY <1>3 DEF Prepare, SurveyFails, ClaimFails, WaitFails, ArmFails, BeginLaunch, BeginLaunchFails,
              Survey, AwaitGrant, BeforeSpawn, Claim, storeVars
<1>4. ASSUME NEW l \in Launches, Undo(l)  PROVE proc' = proc
  BY <1>4 DEF Undo, UnwindDone, CancelDone, AbortDone, ConfirmSpawnFailure, ConfirmSkipped,
              CancelClaim, CancelClaimSkipped, storeVars
<1>5. ASSUME NEW l \in Launches, Launch(l)  PROVE proc' = proc \/ Spawn(l)
  BY <1>5 DEF Launch, SpawnFails, PublishLaunch, PublicationFails, FinishLaunch, FinishLaunchGivenUp,
              RecordSpawn, Complete, CompleteGivenUp, storeVars
<1>6. CASE Environment /\ UNCHANGED gateVars
  BY <1>6 DEF Environment, Lapse, DayPasses, gateVars
<1>7. CASE UNCHANGED vars  BY <1>7 DEF vars, storeVars
<1> QED  BY <1>1, <1>2, <1>3, <1>4, <1>5, <1>6, <1>7 DEF Next, Gate

\* Every step of the gate is a step of the abstract slots, or none.
LEMMA SlotNextOk == PolicyInv /\ [Next]_vars => [Slot!SlotNext]_Slot!slotVars
<1> SUFFICES ASSUME PolicyInv, [Next]_vars  PROVE [Slot!SlotNext]_Slot!slotVars
  OBVIOUS
<1>1. CASE \E l \in Launches : Spawn(l)  BY <1>1, StartJobStep
<1>2. CASE \E l \in Launches : /\ ProcessExits(l) \/ GroupIdReused(l) \/ StrangerExits(l)
                               /\ need' = need
  BY <1>2, EndJobStep
<1>3. CASE proc' = proc  BY <1>3, OccupyStep, VacateStep
<1> QED  BY <1>1, <1>2, <1>3, ProcessSteps

\* The gate implements the abstract slots: each slot has one occupant, jobs take all they
\* use before they start, and a slot is vacated only when its occupant is not alive.
THEOREM SlotRefinement == Spec => ImplementsSlot
BY SlotInitOk, SlotNextOk, PolicyInvariant, PTL DEF Spec, ImplementsSlot, Slot!SlotSpec

-----------------------------------------------------------------------------
(* Nothing is left behind.  Without faults, a launch visits every ticket that carries its  *)
(* ID until it is closed, so one that is over has none.                                    *)

\* A ticket ID names a ticket of one resource. (A client that chooses its own IDs can break
\* this; no call then finds the ticket any more.)
TicketsDistinct ==
  \A t \in Requests, q, r \in Resources :
    (res[q].tickets[t].state # "absent" /\ res[r].tickets[t].state # "absent") => q = r

\* No fault has happened: every process lives and no day has passed.
Calm ==
  /\ \A p \in Principals : status[p] = "live"
  /\ \A l \in Launches : proc[l] # "reused" /\ pc[l] \notin {"recovery", "crashed"}
  /\ \A r \in Resources, t \in Requests : ~res[r].tickets[t].aged

\* The reservation of a started command was returned to the launch its ticket is assigned to.
SpawnerOk(s) == s.holder.state \in Started => s.tickets[s.holder.request].launch = s.holder.spawner

\* The ledger knows a launch from its admission until it has drained.
LedgerOk(l) ==
  /\ pc[l] \in {"admitted", "abort", "publish"} => ledger[l] = "admitted"
  /\ pc[l] \in {"record", "drain"} => ledger[l] # "admitted"
  /\ pc[l] \notin {"admitted", "abort", "publish", "record", "drain"} => ledger[l] = "absent"

\* What is still to be claimed is not claimed yet.
ClaimsOk(l) ==
  /\ pc[l] \in {"survey", "refused"} => claim[l] = NoClaims
  /\ pc[l] = "claim" => \A r \in left[l] : claim[l][r] = None
  /\ pc[l] = "wait" => \A r \in left[l] : claim[l][r] # None => IsNext(l, r)

\* The phases in which a ticket k of launch l may be in its state, where r is still to be
\* visited or not.
InPhase(state, phase, toVisit) ==
  /\ state \in Unused => phase \in {"claim", "wait", "arm", "unwind"} \/ (phase = "cancel" /\ toVisit)
  /\ state = "starting" => \/ phase \in {"arm", "commit", "admitted", "publish"} /\ ~toVisit
                           \/ phase \in {"unwind", "abort", "record"} /\ toVisit
  /\ state = "running" => (phase = "record" /\ ~toVisit) \/ (phase \in {"drain", "drained"} /\ toVisit)

\* A launch knows the tickets that carry its ID, and visits them as long as they are active.
TicketOk(l, r, k, t) ==
  /\ claim[l][r] = t => k.launch = l /\ k.owner = OwnerOf[l] /\ k.state # "absent"
  /\ k.launch = l => /\ k.state \in Active => claim[l][r] = t
                     /\ InPhase(k.state, pc[l], r \in left[l])

\* Only the IDs that clients choose can collide.
IdsOk == (Clients = {} \/ NumResources = 1) => TicketsDistinct

Tidy ==
  /\ Calm
  /\ IdsOk
  /\ \A r \in Resources : SpawnerOk(res[r])
  /\ \A l \in Launches : LedgerOk(l) /\ ClaimsOk(l)
  /\ \A l \in Launches, r \in Resources, t \in Requests : TicketOk(l, r, res[r].tickets[t], t)

TidyInv == PolicyInv /\ Tidy

-----------------------------------------------------------------------------
(* Steps that a launch need not notice. *)

\* Ticket j may become k: it stays assigned, is queued by a client without an assignment, is
\* reserved or closes.
TicketTame(j, k) ==
  /\ j.state # "absent" => k.state # "absent" /\ k.owner = j.owner /\ k.launch = j.launch
  /\ j.state = "absent" => k.state = "absent" \/ (k.launch = None /\ Clients # {})
  /\ k.state \in Started => k.state = j.state
  /\ k.state \in Unused => j.state \in Unused \union {"absent"}
  /\ k.aged => j.aged

\* So do all tickets of the record, and no command is started.
Tame(s, e) ==
  /\ \A t \in Requests : TicketTame(s.tickets[t], e.tickets[t])
  /\ e.holder.state \in Started => e.holder = s.holder

\* Tame edits compose.
LEMMA TameTrans ==
  ASSUME NEW a, NEW b, NEW c, Tame(a, b), Tame(b, c)
  PROVE  Tame(a, c)
<1>1. ASSUME NEW t \in Requests  PROVE TicketTame(a.tickets[t], c.tickets[t])
  BY DEF Tame, TicketTame, Started, Unused
<1> QED  BY <1>1 DEF Tame

\* An edit of neither tickets nor holder is tame.
LEMMA TameSame ==
  ASSUME NEW s, NEW e, e.tickets = s.tickets, e.holder = s.holder
  PROVE  Tame(s, e)
BY DEF Tame, TicketTame

\* Tickets that are not aged survive the sweep.
LEMMA PurgeTame ==
  ASSUME NEW s, RecordOk(s), \A t \in Requests : ~s.tickets[t].aged
  PROVE  Tame(s, Purge(s))
<1>1. Purge(s).holder = s.holder /\ \A t \in Requests : Purge(s).tickets[t] = s.tickets[t]
  BY DEF Purge, RecordOk, ResourceState
<1> QED  BY <1>1 DEF Tame, TicketTame

\* Closing a ticket is tame.
LEMMA CloseTame ==
  ASSUME NEW s, RecordOk(s), NEW t \in Requests, NEW outcome \in Closed, s.tickets[t].state # "absent"
  PROVE  /\ Tame(s, Close(s, t, outcome))
         /\ Close(s, t, outcome).tickets[t].state = outcome
<1>1. /\ Close(s, t, outcome).holder \in {s.holder, NoHolder}
      /\ \A u \in Requests : Close(s, t, outcome).tickets[u] =
           IF u = t THEN [s.tickets[t] EXCEPT !.state = outcome] ELSE s.tickets[u]
  BY DEF Close, RecordOk, ResourceState
<1>2. \A u \in Requests : s.tickets[u] \in Ticket  BY DEF RecordOk, ResourceState
<1> DEFINE k == [s.tickets[t] EXCEPT !.state = outcome]
           c == Close(s, t, outcome)
<1>3. k.state = outcome /\ k.owner = s.tickets[t].owner /\ k.launch = s.tickets[t].launch /\ k.aged = s.tickets[t].aged
  BY <1>2 DEF Ticket
<1>4. c.holder \in {s.holder, NoHolder} /\ \A u \in Requests : c.tickets[u] = IF u = t THEN k ELSE s.tickets[u]
  BY <1>1
<1> HIDE DEF k, c
<1>5. TicketTame(s.tickets[t], k)
  BY <1>3 DEF TicketTame, Closed, Started, Unused
<1>6. \A u \in Requests : TicketTame(s.tickets[u], s.tickets[u])
  BY DEF TicketTame
<1>7. Tame(s, c) /\ c.tickets[t].state = outcome
  BY <1>3, <1>4, <1>5, <1>6 DEF Tame, NoHolder, Started
<1> QED  BY <1>7 DEF c

\* So is reconcile, which at most closes the ticket of the holder.
LEMMA ReconciledTame ==
  ASSUME NEW s, RecordOk(s), NEW blocking, NEW gone
  PROVE  Tame(s, Reconciled(s, blocking, gone))
<1> DEFINE c == [s EXCEPT !.blockers = @ \intersect blocking]
<1>1. c.holder = s.holder /\ c.tickets = s.tickets /\ c \in ResourceState
  BY DEF RecordOk, ResourceState
<1>2. RecordOk(c)  BY <1>1 DEF RecordOk, SlotAgrees, InState, HolderOk
<1>3. s.holder.state \in {"reserved"} \union Started =>
        s.holder.request \in Requests /\ s.tickets[s.holder.request].state # "absent"
  BY DEF RecordOk, SlotAgrees, ResourceState, Holder, Started
<1>4. \/ Reconciled(s, blocking, gone) = c
      \/ /\ s.holder.state \in {"reserved"} \union Started
         /\ \E o \in Closed : Reconciled(s, blocking, gone) = Close(c, s.holder.request, o)
  BY DEF Reconciled, Closed, Started
<1>5. Tame(s, c)  BY <1>1, TameSame
<1> HIDE DEF c
<1> QED  BY <1>1, <1>2, <1>3, <1>4, <1>5, CloseTame, TameTrans

\* So is a grant.
LEMMA ReserveTame ==
  ASSUME NEW s, RecordOk(s), NEW t \in Requests, s.tickets[t].state = "queued"
  PROVE  Tame(s, Reserve(s, t))
<1>1. /\ Reserve(s, t).holder.state = "reserved"
      /\ \A u \in Requests : Reserve(s, t).tickets[u] =
           IF u = t THEN [s.tickets[t] EXCEPT !.state = "reserved", !.epoch = s.epoch] ELSE s.tickets[u]
  BY DEF Reserve, RecordOk, ResourceState
<1>2. s.tickets[t] \in Ticket  BY DEF RecordOk, ResourceState
<1> DEFINE k == [s.tickets[t] EXCEPT !.state = "reserved", !.epoch = s.epoch]
<1>3. k.state = "reserved" /\ k.owner = s.tickets[t].owner /\ k.launch = s.tickets[t].launch /\ k.aged = s.tickets[t].aged
  BY <1>2 DEF Ticket
<1> HIDE DEF k
<1>4. TicketTame(s.tickets[t], k)
  BY <1>3 DEF TicketTame, Started, Unused
<1>5. \A u \in Requests : TicketTame(s.tickets[u], s.tickets[u])
  BY DEF TicketTame
<1> QED  BY <1>1, <1>4, <1>5 DEF Tame, Started, k

\* So is a new policy, which makes unused tickets stale.
LEMMA InstallTame ==
  ASSUME NEW s, RecordOk(s), NEW policy, NEW admitted
  PROVE  Tame(s, Install(s, policy, admitted))
<1> DEFINE e == Install(s, policy, admitted)
           revoked == {t \in Requests :
             \/ s.holder.state = "reserved" /\ s.holder.request = t
             \/ /\ s.tickets[t].state = "queued"
                /\ ~IsEnrolled(s.tickets[t].owner, policy.participants \union {policy.controller})}
<1>1. /\ e.holder = IF s.holder.state = "reserved" THEN NoHolder ELSE s.holder
      /\ e.tickets = [t \in Requests |-> IF t \in revoked THEN [s.tickets[t] EXCEPT !.state = "stale"] ELSE s.tickets[t]]
  BY DEF Install, RecordOk, ResourceState
<1>2. \A t \in revoked : s.tickets[t].state \in Unused
  BY DEF RecordOk, SlotAgrees, Unused
<1>3. \A t \in Requests : s.tickets[t] \in Ticket  BY DEF RecordOk, ResourceState
<1> HIDE DEF e, revoked
<1>4. ASSUME NEW t \in Requests  PROVE TicketTame(s.tickets[t], e.tickets[t])
  <2>1. CASE t \in revoked
    <3> DEFINE k == [s.tickets[t] EXCEPT !.state = "stale"]
    <3>1. k.state = "stale" /\ k.owner = s.tickets[t].owner /\ k.launch = s.tickets[t].launch /\ k.aged = s.tickets[t].aged
      BY <1>3 DEF Ticket
    <3>2. e.tickets[t] = k /\ s.tickets[t].state \in Unused  BY <1>1, <1>2, <2>1
    <3> HIDE DEF k
    <3> QED  BY <3>1, <3>2 DEF TicketTame, Started, Unused
  <2>2. CASE t \notin revoked
    <3>1. e.tickets[t] = s.tickets[t]  BY <1>1, <2>2
    <3> QED  BY <3>1 DEF TicketTame
  <2> QED  BY <2>1, <2>2
<1> QED  BY <1>1, <1>4 DEF Tame, NoHolder, Started, e

\* So is a request that a client makes by hand.
LEMMA QueueTame ==
  ASSUME NEW s, RecordOk(s), NEW p \in Clients, NEW t \in Requests, s.tickets[t].state = "absent"
  PROVE  Tame(s, [s EXCEPT !.tickets[t] = NewTicket(s, p, "queued", None)])
<1> DEFINE e == [s EXCEPT !.tickets[t] = NewTicket(s, p, "queued", None)]
<1>1. /\ e.holder = s.holder
      /\ \A u \in Requests : e.tickets[u] = IF u = t THEN NewTicket(s, p, "queued", None) ELSE s.tickets[u]
  BY DEF RecordOk, ResourceState
<1> HIDE DEF e
<1>2. TicketTame(s.tickets[t], NewTicket(s, p, "queued", None))
  BY DEF TicketTame, NewTicket, Started, Unused
<1>3. \A u \in Requests : TicketTame(s.tickets[u], s.tickets[u])  BY DEF TicketTame
<1>4. Tame(s, e)  BY <1>1, <1>2, <1>3 DEF Tame
<1> QED  BY <1>4 DEF e

-----------------------------------------------------------------------------
(* What such steps leave. *)

RecordsTame == \A r \in Resources : Tame(res[r], res'[r])

\* Ticket t of r is an active one of launch l.
Mine(l, r, t) == res[r].tickets[t].launch = l /\ res[r].tickets[t].state \in Active

\* What the invariant says, part by part.
LEMMA TidyFacts ==
  ASSUME TidyInv
  PROVE  /\ RecordsOk /\ StoreTypeOK /\ GateTypeOK
         /\ \A r \in Resources : /\ RecordOk(res[r]) /\ SpawnerOk(res[r])
                                 /\ \A t \in Requests : ~res[r].tickets[t].aged
         /\ \A p \in Principals : Open(p)
         /\ \A l \in Launches : /\ LedgerOk(l) /\ ClaimsOk(l) /\ AdmissionOk(l) /\ LaunchOk(l)
                                /\ proc[l] # "reused" /\ pc[l] \notin {"recovery", "crashed"} /\ l # None
BY ConstantsAssumption DEF TidyInv, Tidy, PolicyInv, GateInv, TypeOK, RecordsOk, Calm, Open

\* Every call is answered.
LEMMA CallsSucceed ==
  ASSUME TidyInv, Faults = {}, NEW l \in Launches
  PROVE  CanCall(l) /\ ~CallFails(l) /\ Replies = {TRUE}
<1>1. OwnerOf[l] \in Principals  BY ConstantsAssumption
<1> QED  BY <1>1, TidyFacts DEF CanCall, CallFails, Replies

\* A launch knows its active tickets, which are of resources it needs.
LEMMA MineFacts ==
  ASSUME TidyInv, NEW l \in Launches, NEW r \in Resources, NEW t \in Requests, Mine(l, r, t)
  PROVE  /\ claim[l][r] = t /\ r \in need[l] /\ t # None
         /\ InPhase(res[r].tickets[t].state, pc[l], r \in left[l])
         /\ res[r].tickets[t].owner = OwnerOf[l]
<1>1. TicketOk(l, r, res[r].tickets[t], t)  BY DEF TidyInv, Tidy
<1>2. /\ claim[l][r] = t /\ InPhase(res[r].tickets[t].state, pc[l], r \in left[l])
      /\ res[r].tickets[t].owner = OwnerOf[l]
  BY <1>1 DEF TicketOk, Mine
<1>3. pc[l] # "refused"  BY <1>2 DEF InPhase, Mine, Active, Unused, Started
<1>4. r \in need[l]  BY <1>3, TidyFacts DEF AdmissionOk, Mine
<1> QED  BY <1>2, <1>4, ConstantsAssumption

\* The ticket of a started command is that of its launch, whose only one it is.
LEMMA HeldIsMine ==
  ASSUME TidyInv, NEW l \in Launches, NEW r \in Resources, Holds(res[r], l)
  PROVE  /\ res[r].holder.request \in Requests /\ Mine(l, r, res[r].holder.request)
         /\ res[r].tickets[res[r].holder.request].state = res[r].holder.state
         /\ \A t \in Requests : Mine(l, r, t) => t = res[r].holder.request
<1>1. /\ res[r].holder.request \in Requests
      /\ res[r].tickets[res[r].holder.request].state = res[r].holder.state
  BY TidyFacts DEF Holds, RecordOk, SlotAgrees, Started
<1>2. Mine(l, r, res[r].holder.request)
  BY <1>1, TidyFacts DEF Holds, Mine, SpawnerOk, Active
<1> QED  BY <1>1, <1>2, MineFacts

\* A started ticket of a launch is held by it.
LEMMA MineIsHeld ==
  ASSUME TidyInv, NEW l \in Launches, NEW r \in Resources, NEW t \in Requests, Mine(l, r, t),
         res[r].tickets[t].state \in Started
  PROVE  Holds(res[r], l) /\ res[r].holder.request = t /\ res[r].holder.state = res[r].tickets[t].state
<1>1. res[r].holder.request = t /\ res[r].holder.state = res[r].tickets[t].state
  BY TidyFacts DEF RecordOk, SlotAgrees, InState, Started
<1> QED  BY <1>1, TidyFacts DEF Holds, Mine, SpawnerOk

\* Records keep what they say of spawners, and no ticket ages.
LEMMA RecordsAfter ==
  ASSUME TidyInv, NEW r \in Resources, Tame(res[r], res'[r])
  PROVE  SpawnerOk(res'[r]) /\ \A t \in Requests : ~res'[r].tickets[t].aged
<1>1. RecordOk(res[r]) /\ SpawnerOk(res[r]) /\ \A t \in Requests : ~res[r].tickets[t].aged
  BY TidyFacts
<1>2. \A t \in Requests : ~res'[r].tickets[t].aged  BY <1>1 DEF Tame, TicketTame
<1>3. res[r].holder.state \in Started =>
        res[r].holder.request \in Requests /\ res[r].tickets[res[r].holder.request].state # "absent"
  BY <1>1 DEF RecordOk, SlotAgrees, Started
<1>4. SpawnerOk(res'[r])  BY <1>1, <1>3 DEF SpawnerOk, Tame, TicketTame
<1> QED  BY <1>2, <1>4

\* A launch whose variables rest does so with its tickets; another's may change as they like.
LEMMA TicketRests ==
  ASSUME TidyInv, NEW l \in Launches, NEW r \in Resources, NEW t \in Requests,
         pc'[l] = pc[l], left'[l] = left[l], claim'[l] = claim[l],
         \/ TicketTame(res[r].tickets[t], res'[r].tickets[t])
         \/ res'[r].tickets[t].launch # l /\ claim[l][r] # t
  PROVE  TicketOk(l, r, res[r].tickets[t], t)'
<1> DEFINE j == res[r].tickets[t]
           k == res'[r].tickets[t]
<1>1. TicketOk(l, r, j, t) /\ l # None  BY TidyFacts DEF TidyInv, Tidy
<1> SUFFICES /\ claim[l][r] = t => k.launch = l /\ k.owner = OwnerOf[l] /\ k.state # "absent"
             /\ k.launch = l => /\ k.state \in Active => claim[l][r] = t
                                /\ InPhase(k.state, pc[l], r \in left[l])
  BY DEF TicketOk, InPhase
<1>2. CASE k.launch # l /\ claim[l][r] # t
  BY <1>2
<1>3. CASE TicketTame(j, k)
  <2> HIDE DEF j, k
  <2>1. claim[l][r] = t => k.launch = l /\ k.owner = OwnerOf[l] /\ k.state # "absent"
    BY <1>1, <1>3 DEF TicketOk, TicketTame
  <2>2. k.launch = l /\ k.state \in Active => j.launch = l /\ j.state \in Active
    BY <1>1, <1>3 DEF TicketTame, Active, Unused, Started
  <2>3. k.launch = l => InPhase(k.state, pc[l], r \in left[l])
    BY <1>1, <1>3, <2>2 DEF TicketOk, TicketTame, InPhase, Active, Unused, Started
  <2> QED  BY <1>1, <2>1, <2>2, <2>3 DEF TicketOk
<1> QED  BY <1>2, <1>3

\* A launch that goes on keeps, or forgets, the claims of its active tickets, which suit its
\* new phase.
LEMMA TicketMovesOn ==
  ASSUME TidyInv, NEW l \in Launches, NEW r \in Resources, NEW t \in Requests,
         TicketTame(res[r].tickets[t], res'[r].tickets[t]),
         claim'[l][r] = t => claim[l][r] = t,
         (Mine(l, r, t) /\ res'[r].tickets[t].state \in Active)
           => claim'[l][r] = t /\ InPhase(res'[r].tickets[t].state, pc'[l], r \in left'[l])
  PROVE  TicketOk(l, r, res[r].tickets[t], t)'
<1> DEFINE j == res[r].tickets[t]
           k == res'[r].tickets[t]
<1>1. TicketOk(l, r, j, t) /\ l # None /\ t # None
  BY TidyFacts, ConstantsAssumption DEF TidyInv, Tidy
<1> SUFFICES /\ claim'[l][r] = t => k.launch = l /\ k.owner = OwnerOf[l] /\ k.state # "absent"
             /\ k.launch = l => /\ k.state \in Active => claim'[l][r] = t
                                /\ InPhase(k.state, pc'[l], r \in left'[l])
  BY DEF TicketOk, InPhase
<1>2. Mine(l, r, t) /\ k.state \in Active => claim'[l][r] = t /\ InPhase(k.state, pc'[l], r \in left'[l])
  OBVIOUS
<1>3. Mine(l, r, t) <=> j.launch = l /\ j.state \in Active  BY DEF Mine
<1>4. TicketTame(j, k)  OBVIOUS
<1> HIDE DEF j, k
<1>5. claim'[l][r] = t => k.launch = l /\ k.owner = OwnerOf[l] /\ k.state # "absent"
  BY <1>1, <1>4 DEF TicketOk, TicketTame
<1>6. k.launch = l /\ k.state \in Active => j.launch = l /\ j.state \in Active
  BY <1>1, <1>4 DEF TicketTame, Active, Unused, Started
<1>7. k.state \notin Active => InPhase(k.state, pc'[l], r \in left'[l])
  BY DEF InPhase, Active, Unused, Started
<1> QED  BY <1>2, <1>3, <1>5, <1>6, <1>7

\* The ledger forgets a launch only when its process is gone.
LedgerRests(k) == ledger'[k] = ledger[k] \/ (ledger[k] = "published" /\ ledger'[k] = "absent")

\* A launch whose variables rest.
LEMMA OthersTidy ==
  ASSUME TidyInv, NEW k \in Launches,
         pc'[k] = pc[k], left'[k] = left[k], claim'[k] = claim[k], LedgerRests(k),
         \A r \in Resources, t \in Requests :
            \/ TicketTame(res[r].tickets[t], res'[r].tickets[t])
            \/ res'[r].tickets[t].launch # k /\ claim[k][r] # t
  PROVE  /\ LedgerOk(k)' /\ ClaimsOk(k)'
         /\ \A r \in Resources, t \in Requests : TicketOk(k, r, res[r].tickets[t], t)'
<1>1. LedgerOk(k) /\ ClaimsOk(k)  BY TidyFacts
<1>2. LedgerOk(k)'  BY <1>1 DEF LedgerOk, LedgerRests
<1>3. ClaimsOk(k)'  BY <1>1 DEF ClaimsOk, IsNext
<1> QED  BY <1>2, <1>3, TicketRests

\* Tickets that a tame step makes are of clients.
LEMMA IdsStay ==
  ASSUME TidyInv, RecordsTame
  PROVE  IdsOk'
<1>1. CASE NumResources = 1
  BY <1>1 DEF IdsOk, TicketsDistinct, Resources
<1>2. CASE Clients = {}
  <2>1. \A r \in Resources, t \in Requests :
           res'[r].tickets[t].state # "absent" => res[r].tickets[t].state # "absent"
    BY <1>2 DEF RecordsTame, Tame, TicketTame
  <2>2. TicketsDistinct  BY <1>2 DEF TidyInv, Tidy, IdsOk
  <2>3. TicketsDistinct'  BY <2>1, <2>2 DEF TicketsDistinct
  <2> QED  BY <2>3 DEF IdsOk
<1> QED  BY <1>1, <1>2 DEF IdsOk

\* A step of launch l that is tame: what is left to show of l.
LEMMA OwnTidy ==
  ASSUME TidyInv, NEW l \in Launches, RecordsTame, proc' = proc \/ proc' = [proc EXCEPT ![l] = "alive"],
         status' = status, pc'[l] \notin {"recovery", "crashed"},
         \A k \in Launches \ {l} : /\ pc'[k] = pc[k] /\ left'[k] = left[k] /\ claim'[k] = claim[k]
                                   /\ LedgerRests(k),
         LedgerOk(l)', ClaimsOk(l)',
         \A r \in Resources : claim'[l][r] \in {claim[l][r], None},
         \A r \in Resources, t \in Requests :
           (Mine(l, r, t) /\ res'[r].tickets[t].state \in Active)
             => claim'[l][r] = t /\ InPhase(res'[r].tickets[t].state, pc'[l], r \in left'[l])
  PROVE  Tidy'
<1>1. \A r \in Resources : SpawnerOk(res'[r]) /\ \A t \in Requests : ~res'[r].tickets[t].aged
  BY RecordsAfter DEF RecordsTame
<1>2. proc \in [Launches -> ProcessStates]  BY TidyFacts DEF StoreTypeOK
<1>3. Calm'  BY <1>1, <1>2, TidyFacts DEF Calm, TidyInv, Tidy
<1>4. \A r \in Resources, t \in Requests : TicketTame(res[r].tickets[t], res'[r].tickets[t])
  BY DEF RecordsTame, Tame
<1>5. \A r \in Resources, t \in Requests : TicketOk(l, r, res[r].tickets[t], t)'
  BY <1>4, TicketMovesOn, ConstantsAssumption
<1>6. ASSUME NEW k \in Launches \ {l}
      PROVE  /\ LedgerOk(k)' /\ ClaimsOk(k)'
             /\ \A r \in Resources, t \in Requests : TicketOk(k, r, res[r].tickets[t], t)'
  BY <1>4, OthersTidy
<1> QED  BY <1>1, <1>3, <1>5, <1>6, IdsStay DEF Tidy

\* A step of launch l that writes one record, whose ticket t it changes as no tame step does.
LEMMA TicketTidy ==
  ASSUME TidyInv, NEW l \in Launches, NEW r \in Resources, NEW t \in Requests,
         NEW s, Tame(res[r], s), NEW e, Commit(r, e), SpawnerOk(e),
         \A u \in Requests \ {t} : e.tickets[u] = s.tickets[u],
         e.tickets[t].launch = l, ~e.tickets[t].aged,
         \A q \in Resources : res[r].tickets[t].state # "absent" \/ res[q].tickets[t].state = "absent",
         \A k \in Launches \ {l} : claim[k][r] # t,
         UNCHANGED <<ledger, proc, status>>, pc'[l] \notin {"recovery", "crashed"},
         \A k \in Launches \ {l} : pc'[k] = pc[k] /\ left'[k] = left[k] /\ claim'[k] = claim[k],
         LedgerOk(l)', ClaimsOk(l)', TicketOk(l, r, res[r].tickets[t], t)',
         \A q \in Resources : claim'[l][q] = claim[l][q] \/ (q = r /\ claim'[l][q] = t),
         \A q \in Resources, u \in Requests :
           (Mine(l, q, u) /\ (q # r \/ u # t) /\ res'[q].tickets[u].state \in Active)
             => claim'[l][q] = u /\ InPhase(res'[q].tickets[u].state, pc'[l], q \in left'[l])
  PROVE  Tidy'
<1>1. \A q \in Resources : res'[q] = IF q = r THEN e ELSE res[q]
  BY TidyFacts DEF Commit, StoreTypeOK
<1>2. ASSUME NEW q \in Resources, NEW u \in Requests, q # r \/ u # t
      PROVE  TicketTame(res[q].tickets[u], res'[q].tickets[u])
  <2>1. CASE q = r
    <3>1. res'[q].tickets[u] = s.tickets[u] /\ TicketTame(res[r].tickets[u], s.tickets[u])
      BY <1>1, <1>2, <2>1 DEF Tame
    <3> QED  BY <2>1, <3>1
  <2>2. CASE q # r
    BY <1>1, <2>2 DEF TicketTame
  <2> QED  BY <2>1, <2>2
<1>3. \A q \in Resources : SpawnerOk(res[q])'
  BY <1>1, TidyFacts DEF SpawnerOk
<1>4. \A q \in Resources, u \in Requests : ~res'[q].tickets[u].aged
  <2> TAKE q \in Resources, u \in Requests
  <2>1. CASE q # r \/ u # t
    BY <1>2, <2>1, TidyFacts DEF TicketTame
  <2>2. CASE q = r /\ u = t
    BY <1>1, <2>2
  <2> QED  BY <2>1, <2>2
<1>5. Calm'  BY <1>4, TidyFacts DEF Calm, TidyInv, Tidy
<1>6. ASSUME NEW k \in Launches \ {l}
      PROVE  /\ LedgerOk(k)' /\ ClaimsOk(k)'
             /\ \A q \in Resources, u \in Requests : TicketOk(k, q, res[q].tickets[u], u)'
  <2>1. \A q \in Resources, u \in Requests :
           \/ TicketTame(res[q].tickets[u], res'[q].tickets[u])
           \/ res'[q].tickets[u].launch # k /\ claim[k][q] # u
    BY <1>1, <1>2
  <2> QED  BY <2>1, OthersTidy DEF LedgerRests
<1>7. ASSUME NEW q \in Resources, NEW u \in Requests  PROVE TicketOk(l, q, res[q].tickets[u], u)'
  <2>1. CASE q = r /\ u = t
    BY <2>1
  <2>2. CASE q # r \/ u # t
    <3>1. claim'[l][q] = u => claim[l][q] = u  BY <2>2
    <3>2. (Mine(l, q, u) /\ res'[q].tickets[u].state \in Active)
             => claim'[l][q] = u /\ InPhase(res'[q].tickets[u].state, pc'[l], q \in left'[l])
      BY <2>2
    <3> QED  BY <1>2, <2>2, <3>1, <3>2, TicketMovesOn
  <2> QED  BY <2>1, <2>2
<1>8. IdsOk'
  <2>1. CASE NumResources = 1
    BY <2>1 DEF IdsOk, TicketsDistinct, Resources
  <2>2. CASE Clients = {}
    <3>1. TicketsDistinct  BY <2>2 DEF TidyInv, Tidy, IdsOk
    <3>2. \A q \in Resources, u \in Requests :
             res'[q].tickets[u].state # "absent" => res[q].tickets[u].state # "absent" \/ (q = r /\ u = t)
      BY <1>2, <2>2 DEF TicketTame
    <3>3. TicketsDistinct'  BY <3>1, <3>2 DEF TicketsDistinct
    <3> QED  BY <3>3 DEF IdsOk
  <2> QED  BY <2>1, <2>2 DEF IdsOk
<1> QED  BY <1>3, <1>5, <1>6, <1>7, <1>8 DEF Tidy

\* A step on the store alone.
LEMMA StoreTidy ==
  ASSUME TidyInv, RecordsTame, UNCHANGED gateVars, UNCHANGED <<ledger, status>>,
         \A l \in Launches : proc'[l] # "reused"
  PROVE  Tidy'
<1>1. \A r \in Resources : SpawnerOk(res'[r]) /\ \A t \in Requests : ~res'[r].tickets[t].aged
  BY RecordsAfter DEF RecordsTame
<1>2. Calm'  BY <1>1 DEF Calm, TidyInv, Tidy, gateVars
<1>3. \A k \in Launches : /\ LedgerOk(k)' /\ ClaimsOk(k)'
                          /\ \A r \in Resources, t \in Requests : TicketOk(k, r, res[r].tickets[t], t)'
  BY OthersTidy DEF gateVars, LedgerRests, RecordsTame, Tame
<1> QED  BY <1>1, <1>2, <1>3, IdsStay DEF Tidy

-----------------------------------------------------------------------------
(* The store. *)

\* A step that writes no record.
LEMMA NotCommitted ==
  ASSUME res' = res  PROVE RecordsTame
BY TameSame DEF RecordsTame

\* A step that writes one record.
LEMMA TameCommit ==
  ASSUME TidyInv, NEW r \in Resources, NEW e, Commit(r, e), Tame(res[r], e)
  PROVE  RecordsTame
<1>1. \A q \in Resources : res'[q] = IF q = r THEN e ELSE res[q]
  BY TidyFacts DEF Commit, StoreTypeOK
<1> QED  BY <1>1, TameSame DEF RecordsTame

\* What the operations start from.
LEMMA OpenedTame ==
  ASSUME TidyInv, NEW r \in Resources
  PROVE  /\ RecordOk(Opened(r)) /\ Tame(res[r], Opened(r))
         /\ Opened(r).holder = res[r].holder /\ Opened(r).tickets = res[r].tickets
<1>1. RecordOk(res[r]) /\ \A t \in Requests : ~res[r].tickets[t].aged  BY TidyFacts
<1>2. Opened(r).tickets = res[r].tickets
  BY <1>1 DEF Opened, Purge, RecordOk, ResourceState
<1> QED  BY <1>1, <1>2, PurgeOk, PurgeTame DEF Opened

\* The same for the operations with reconcile.
LEMMA CurrentTame ==
  ASSUME TidyInv, NEW r \in Resources
  PROVE  RecordOk(Current(r)) /\ Tame(res[r], Current(r))
<1>1. RecordOk(Opened(r)) /\ Tame(res[r], Opened(r))  BY OpenedTame
<1>2. RecordOk(Current(r)) /\ Tame(Opened(r), Current(r))
  BY <1>1, ReconciledTame, ReconciledOk DEF Current, Opened
<1> QED  BY <1>1, <1>2, TameTrans

\* Tool calls are tame.
LEMMA ToolTidy ==
  ASSUME TidyInv, NEW p \in Principals, ToolCall(p), UNCHANGED gateVars
  PROVE  Tidy'
<1>1. UNCHANGED <<ledger, proc, status>>
  BY DEF ToolCall, Status, Lookup, SetController, Grant
<1>2. ASSUME NEW r \in Resources, Status(p, r)  PROVE RecordsTame
  BY <1>2, CurrentTame, TameCommit DEF Status
<1>3. ASSUME NEW r \in Resources, Lookup(p, r)  PROVE RecordsTame
  BY <1>3, OpenedTame, TameCommit DEF Lookup
<1>4. ASSUME NEW r \in Resources, NEW policy \in Policies, SetController(p, r, policy)  PROVE RecordsTame
  <2> DEFINE e == Install(Current(r), policy, Admitted)
  <2>1. Tame(res[r], e)  BY CurrentTame, InstallTame, TameTrans
  <2> HIDE DEF e
  <2> QED  BY <1>4, <2>1, TameCommit DEF SetController, e
<1>5. ASSUME NEW r \in Resources, NEW t \in Requests, Grant(p, r, t)  PROVE RecordsTame
  <2> DEFINE e == Reserve(Current(r), t)
  <2>1. Current(r).tickets[t].state = "queued"  BY <1>5 DEF Grant, Grantable
  <2>2. Tame(res[r], e)  BY <2>1, CurrentTame, ReserveTame, TameTrans
  <2> HIDE DEF e
  <2> QED  BY <1>5, <2>2, TameCommit DEF Grant, e
<1>6. RecordsTame  BY <1>2, <1>3, <1>4, <1>5 DEF ToolCall
<1> QED  BY <1>1, <1>6, StoreTidy, TidyFacts

\* So are the calls of clients.
LEMMA ManualTidy ==
  ASSUME TidyInv, Faults = {}, NEW p \in Clients, ManualCall(p), UNCHANGED gateVars
  PROVE  Tidy'
<1>1. UNCHANGED <<ledger, proc, status>>
  BY DEF ManualCall, Request, Release, Cancel, AdoptRunning
<1>2. ASSUME NEW r \in Resources, NEW t \in Requests, Request(p, r, t)  PROVE RecordsTame
  <2> DEFINE s == Current(r)
             e == [s EXCEPT !.tickets[t] = NewTicket(s, p, "queued", None)]
  <2>1. RecordOk(s) /\ Tame(res[r], s) /\ s.tickets[t].state = "absent" /\ Commit(r, e)
    BY <1>2, CurrentTame DEF Request
  <2>2. Tame(s, e)
    <3> HIDE DEF s
    <3> QED  BY <2>1, QueueTame
  <2> HIDE DEF s, e
  <2> QED  BY <2>1, <2>2, TameTrans, TameCommit
<1>3. ASSUME NEW r \in Resources, NEW t \in Requests, NEW outcome \in Closed,
             Current(r).tickets[t].state # "absent", Commit(r, Close(Current(r), t, outcome))
      PROVE  RecordsTame
  BY <1>3, CurrentTame, CloseTame, TameTrans, TameCommit
<1>4. ASSUME NEW r \in Resources, NEW t \in Requests, Release(p, r, t) \/ Cancel(p, r, t)  PROVE RecordsTame
  <2>1. \E outcome \in Closed : Commit(r, Close(Current(r), t, outcome))
    BY <1>4 DEF Release, Cancel, CancelRequest, Closed
  <2>2. Current(r).tickets[t].state # "absent"
    BY <1>4 DEF Release, Cancel, CancelRequest, Cancellable, Unused
  <2> QED  BY <1>3, <2>1, <2>2
<1>5. RecordsTame  BY <1>2, <1>4 DEF ManualCall, AdoptRunning
<1> QED  BY <1>1, <1>5, StoreTidy, TidyFacts

\* Without faults, no run ends and time does not reach a day.
LEMMA EnvironmentTidy ==
  ASSUME TidyInv, Faults = {}, Environment, UNCHANGED gateVars
  PROVE  Tidy'
<1>1. proc \in [Launches -> ProcessStates] /\ \A l \in Launches : proc[l] # "reused"
  BY TidyFacts DEF StoreTypeOK
<1>2. UNCHANGED <<ledger, status>> /\ \A l \in Launches : proc'[l] # "reused"
  BY <1>1 DEF Environment, Lapse, DayPasses, ProcessExits, GroupIdReused, StrangerExits
<1>3. RecordsTame
  <2>1. ASSUME NEW r \in Resources, Lapse(r)  PROVE RecordsTame
    <3> DEFINE e == [res[r] EXCEPT !.holder.lapsed = TRUE]
    <3>1. res \in [Resources -> ResourceState] /\ res[r].holder.state = "reserved"
      BY <2>1, TidyFacts DEF Lapse, StoreTypeOK
    <3>2. e.holder.state = "reserved" /\ e.tickets = res[r].tickets
      BY <3>1 DEF ResourceState, Holder
    <3>3. Commit(r, e)  BY <2>1, <3>1 DEF Lapse, Commit
    <3> HIDE DEF e
    <3>4. Tame(res[r], e)  BY <3>2 DEF Tame, TicketTame, Started
    <3> QED  BY <3>3, <3>4, TameCommit
  <2> QED
    BY <2>1, NotCommitted DEF Environment, DayPasses, ProcessExits, GroupIdReused, StrangerExits
<1> QED  BY <1>2, <1>3, StoreTidy

\* Without faults, nothing ends and nothing crashes.
LEMMA NothingEnds ==
  ASSUME TidyInv, Faults = {}, NEW p \in Principals
  PROVE  ~Ending(p) /\ ~Crash(p)
<1>1. status[p] = "live"  BY DEF TidyInv, Tidy, Calm
<1> QED  BY <1>1 DEF Ending, BeginEnd, EndRun, EndRunFails, CloseCoordinator, Crash

-----------------------------------------------------------------------------
(* The gate. *)

\* What a step of launch l does to the gate and to the ledger.
Goes(l, phase, toVisit) ==
  /\ pc' = [pc EXCEPT ![l] = phase] /\ left' = [left EXCEPT ![l] = toVisit]

\* A tame step of a launch that keeps its claims.
LEMMA GoesOn ==
  ASSUME TidyInv, NEW l \in Launches, RecordsTame, proc' = proc \/ proc' = [proc EXCEPT ![l] = "alive"],
         status' = status, claim' = claim,
         NEW phase, NEW toVisit, Goes(l, phase, toVisit), phase \notin {"recovery", "crashed", "survey", "refused"},
         \A k \in Launches \ {l} : LedgerRests(k),
         phase \in {"admitted", "abort", "publish"} => ledger'[l] = "admitted",
         phase \in {"record", "drain"} => ledger'[l] # "admitted",
         phase \notin {"admitted", "abort", "publish", "record", "drain"} => ledger'[l] = "absent",
         phase = "claim" => \A r \in toVisit : claim[l][r] = None,
         phase = "wait" => FALSE,
         \A r \in Resources, t \in Requests :
           (Mine(l, r, t) /\ res'[r].tickets[t].state \in Active)
             => InPhase(res'[r].tickets[t].state, phase, r \in toVisit)
  PROVE  Tidy'
<1>1. pc \in [Launches -> Phases] /\ left \in [Launches -> SUBSET Resources]
  BY TidyFacts DEF GateTypeOK
<1>2. /\ pc'[l] = phase /\ left'[l] = toVisit
      /\ \A k \in Launches \ {l} : pc'[k] = pc[k] /\ left'[k] = left[k] /\ claim'[k] = claim[k]
  BY <1>1 DEF Goes
<1>3. LedgerOk(l)'  BY <1>2 DEF LedgerOk
<1>4. ClaimsOk(l)'  BY <1>2 DEF ClaimsOk
<1>5. \A r \in Resources, t \in Requests :
        (Mine(l, r, t) /\ res'[r].tickets[t].state \in Active)
          => claim'[l][r] = t /\ InPhase(res'[r].tickets[t].state, pc'[l], r \in left'[l])
  BY <1>2, MineFacts
<1> QED  BY <1>2, <1>3, <1>4, <1>5, OwnTidy

\* A launch that is over has no active ticket.
LEMMA ForgetTidy ==
  ASSUME TidyInv, NEW l \in Launches, RecordsTame, proc' = proc, status' = status, Forget(l),
         \A k \in Launches \ {l} : LedgerRests(k), ledger'[l] = "absent",
         \A r \in Resources, t \in Requests : ~Mine(l, r, t)
  PROVE  Tidy'
<1>1. /\ pc \in [Launches -> Phases] /\ left \in [Launches -> SUBSET Resources]
      /\ claim \in [Launches -> [Resources -> Requests \union {None}]]
  BY TidyFacts DEF GateTypeOK
<1>2. /\ pc'[l] = "refused" /\ claim'[l] = NoClaims /\ \A r \in Resources : claim'[l][r] = None
      /\ \A k \in Launches \ {l} : pc'[k] = pc[k] /\ left'[k] = left[k] /\ claim'[k] = claim[k]
  BY <1>1 DEF Forget, GoTo, Visit, NoClaims
<1>3. LedgerOk(l)' /\ ClaimsOk(l)'  BY <1>2 DEF LedgerOk, ClaimsOk
<1> QED  BY <1>2, <1>3, OwnTidy

\* The survey: nothing is claimed yet, and a refused launch forgets what it found.
LEMMA SurveyTidy ==
  ASSUME TidyInv, Faults = {}, NEW l \in Launches,
         SurveyFails(l) \/ \E r \in Resources : Survey(l, r)
  PROVE  Tidy'
<1>1. pc[l] = "survey"  BY DEF SurveyFails, Survey
<1>2. ledger[l] = "absent" /\ claim[l] = NoClaims  BY <1>1, TidyFacts DEF LedgerOk, ClaimsOk
<1>3. \A r \in Resources, t \in Requests : ~Mine(l, r, t)
  BY <1>1, MineFacts DEF InPhase, Mine, Active, Unused, Started
<1>4. CASE SurveyFails(l)
  BY <1>2, <1>3, <1>4, NotCommitted, ForgetTidy DEF SurveyFails, storeVars, LedgerRests
<1>5. ASSUME NEW r \in Resources, Survey(l, r)  PROVE Tidy'
  <2>1. RecordsTame /\ UNCHANGED <<ledger, proc, status, claim>>
    BY <1>5, CurrentTame, TameCommit DEF Survey
  <2>2. CASE pc'[l] # "survey"
    <3>1. PICK phase \in {"claim", "commit"}, toVisit \in SUBSET Resources : Goes(l, phase, toVisit)
      <4>1. need[l] \in SUBSET Resources /\ pc \in [Launches -> Phases]  BY TidyFacts DEF GateTypeOK
      <4> QED  BY <1>5, <2>2, <4>1 DEF Survey, GoTo, Visit, Goes
    <3>2. phase = "claim" => \A q \in toVisit : claim[l][q] = None  BY <1>2 DEF NoClaims
    <3> QED  BY <1>2, <1>3, <2>1, <3>1, <3>2, GoesOn DEF LedgerRests
  <2>3. CASE pc'[l] = "survey"
    <3>1. \A k \in Launches \ {l} : pc'[k] = pc[k] /\ left'[k] = left[k] /\ claim'[k] = claim[k]
      BY <1>5, TidyFacts DEF Survey, GoTo, Visit, GateTypeOK
    <3>2. LedgerOk(l)' /\ ClaimsOk(l)'
      BY <1>2, <2>1, <2>3 DEF LedgerOk, ClaimsOk
    <3> QED  BY <1>3, <2>1, <2>3, <3>1, <3>2, OwnTidy DEF LedgerRests
  <2> QED  BY <2>2, <2>3
<1> QED  BY <1>4, <1>5

\* A tame step takes an active ticket to no other phase.
LEMMA MineLater ==
  ASSUME TidyInv, NEW l \in Launches, NEW r \in Resources, NEW t \in Requests,
         RecordsTame, Mine(l, r, t), res'[r].tickets[t].state \in Active
  PROVE  LET k == res'[r].tickets[t]
         IN  /\ k.state \in Started => k.state = res[r].tickets[t].state
             /\ k.state \in Unused => res[r].tickets[t].state \in Unused
BY DEF RecordsTame, Tame, TicketTame, Mine, Active, Unused, Started

\* Nothing is started while a launch claims and waits.
LEMMA UnusedBefore ==
  ASSUME TidyInv, NEW l \in Launches, NEW r \in Resources, NEW t \in Requests, Mine(l, r, t),
         pc[l] \in {"claim", "wait"}
  PROVE  res[r].tickets[t].state \in Unused
BY MineFacts DEF InPhase, Mine, Active, Unused, Started

\* A grant is observed: the next resource is claimed, or what was granted is armed.
LEMMA AwaitTidy ==
  ASSUME TidyInv, NEW l \in Launches, NEW r \in Resources, AwaitGrant(l, r)
  PROVE  Tidy'
<1>1. /\ pc[l] = "wait" /\ IsNext(l, r) /\ UNCHANGED <<ledger, proc, status, claim, need>>
      /\ need[l] \in SUBSET Resources /\ left[l] \in SUBSET Resources
  BY TidyFacts DEF AwaitGrant, GateTypeOK
<1>2. RecordsTame  BY CurrentTame, TameCommit DEF AwaitGrant
<1>3. ledger[l] = "absent" /\ \A q \in left[l] : claim[l][q] # None => IsNext(l, q)
  BY <1>1, TidyFacts DEF LedgerOk, ClaimsOk
<1>4. ASSUME NEW q \in left[l] \ {r}  PROVE claim[l][q] = None
  <2>1. q <= r /\ r <= q => q = r
    <3>1. q \in Nat /\ r \in Nat  BY <1>1 DEF Resources
    <3> QED  BY <3>1
  <2> QED  BY <1>1, <1>3, <1>4, <2>1 DEF IsNext
<1>5. ASSUME NEW q \in Resources, NEW t \in Requests, Mine(l, q, t), res'[q].tickets[t].state \in Active,
             NEW toVisit, NEW phase \in {"claim", "arm"}
      PROVE  InPhase(res'[q].tickets[t].state, phase, q \in toVisit)
  BY <1>1, <1>2, <1>5, MineLater, UnusedBefore DEF InPhase, Active, Unused, Started
<1>6. \/ Goes(l, "claim", left[l] \ {r})
      \/ Goes(l, "arm", need[l])
  BY DEF AwaitGrant, GoTo, Visit, Goes
<1> QED  BY <1>1, <1>2, <1>3, <1>4, <1>5, <1>6, GoesOn DEF LedgerRests

\* The steps that give up a preparation go to undo what was armed.
LEMMA GiveUpTidy ==
  ASSUME TidyInv, NEW l \in Launches,
         ClaimFails(l) \/ WaitFails(l) \/ ArmFails(l) \/ BeginLaunchFails(l)
  PROVE  Tidy'
<1>1. /\ UNCHANGED <<res, ledger, proc, status, claim, need>> /\ pc[l] \in {"claim", "wait", "arm", "commit"}
      /\ \/ pc[l] \in {"claim", "wait"} /\ Goes(l, "unwind", {})
         \/ pc[l] \in {"arm", "commit"} /\ Goes(l, "unwind", IF pc[l] = "arm" THEN need[l] \ left[l] ELSE need[l])
  BY DEF ClaimFails, WaitFails, ArmFails, BeginLaunchFails, Unwind, GoTo, Visit, Goes, storeVars
<1>2. RecordsTame /\ ledger[l] = "absent"  BY <1>1, NotCommitted, TidyFacts DEF LedgerOk
<1>3. CASE pc[l] \in {"claim", "wait"}
  <2>1. \A r \in Resources, t \in Requests : Mine(l, r, t) => InPhase(res'[r].tickets[t].state, "unwind", r \in {})
    BY <1>1, <1>3, UnusedBefore DEF InPhase, Unused, Started
  <2> QED  BY <1>1, <1>2, <1>3, <2>1, GoesOn DEF LedgerRests
<1>4. CASE pc[l] \in {"arm", "commit"}
  <2> DEFINE toVisit == IF pc[l] = "arm" THEN need[l] \ left[l] ELSE need[l]
  <2>1. ASSUME NEW r \in Resources, NEW t \in Requests, Mine(l, r, t)
        PROVE  InPhase(res'[r].tickets[t].state, "unwind", r \in toVisit)
    <3>1. r \in need[l] /\ InPhase(res[r].tickets[t].state, pc[l], r \in left[l])  BY <2>1, MineFacts
    <3>2. res[r].tickets[t].state # "running"  BY <1>4, <3>1 DEF InPhase
    <3>3. res[r].tickets[t].state = "starting" => r \in toVisit  BY <1>4, <3>1 DEF InPhase
    <3> HIDE DEF toVisit
    <3> QED  BY <1>1, <3>2, <3>3 DEF InPhase, Unused
  <2> HIDE DEF toVisit
  <2>2. Goes(l, "unwind", toVisit)  BY <1>1, <1>4 DEF toVisit
  <2> QED  BY <1>1, <1>2, <2>1, <2>2, GoesOn DEF LedgerRests
<1> QED  BY <1>1, <1>3, <1>4

\* Admission: everything was armed.
LEMMA BeginTidy ==
  ASSUME TidyInv, Faults = {}, NEW l \in Launches, BeginLaunch(l)
  PROVE  Tidy'
<1>1. /\ pc[l] = "commit" /\ UNCHANGED <<proc, status, claim>> /\ Goes(l, "admitted", {})
      /\ res' = [r \in Resources |-> Current(r)]
      /\ ledger' = [k \in Launches |-> IF k = l THEN "admitted" ELSE IF k \in Retained THEN ledger[k] ELSE "absent"]
  <2>1. Replies = {TRUE}  BY CallsSucceed
  <2>2. GoTo(l, "admitted") /\ Visit(l, {})  BY <2>1 DEF BeginLaunch
  <2> QED  BY <2>2 DEF BeginLaunch, GoTo, Visit, Goes
<1>2. RecordsTame  BY <1>1, CurrentTame DEF RecordsTame
<1>3. ASSUME NEW k \in Launches \ {l}  PROVE LedgerRests(k)
  <2>1. k \in Retained \/ ledger[k] = "published" \/ ledger[k] = "absent"
    BY DEF Retained, Admitted
  <2> QED  BY <1>1, <2>1 DEF LedgerRests
<1>4. ASSUME NEW r \in Resources, NEW t \in Requests, Mine(l, r, t), res'[r].tickets[t].state \in Active
      PROVE  InPhase(res'[r].tickets[t].state, "admitted", r \in {})
  <2>1. res[r].tickets[t].state = "starting"
    BY <1>1, <1>4, MineFacts DEF InPhase, Mine, Active, Unused, Started
  <2> QED  BY <1>2, <1>4, <2>1, MineLater DEF InPhase, Active, Unused, Started
<1>5. ledger'[l] = "admitted"  BY <1>1
<1> QED  BY <1>1, <1>2, <1>3, <1>4, <1>5, GoesOn

\* A tame edit keeps what a record says of its spawner.
LEMMA SpawnerTame ==
  ASSUME NEW a, NEW b, RecordOk(a), SpawnerOk(a), Tame(a, b)
  PROVE  SpawnerOk(b)
<1>1. a.holder.state \in Started => a.holder.request \in Requests /\ a.tickets[a.holder.request].state # "absent"
  BY DEF RecordOk, SlotAgrees, Started
<1> QED  BY <1>1 DEF SpawnerOk, Tame, TicketTame

\* Claiming: the ticket is no launch's before.
LEMMA ClaimTidy ==
  ASSUME TidyInv, Faults = {}, NEW l \in Launches, NEW r \in Resources, NEW t \in Requests, Claim(l, r, t)
  PROVE  Tidy'
<1> DEFINE p == OwnerOf[l]
           s == Current(r)
           assigned == [s EXCEPT !.tickets[t].launch = l]
           queued == [s EXCEPT !.tickets[t] = NewTicket(s, p, "queued", l)]
<1>1. /\ pc[l] = "claim" /\ IsNext(l, r) /\ UNCHANGED <<ledger, proc, status, left>>
      /\ pc' = [pc EXCEPT ![l] = "wait"] /\ claim' = [claim EXCEPT ![l][r] = t]
      /\ \/ t \in Claimable(s, p) /\ Commit(r, assigned)
         \/ FreshId(t) /\ Commit(r, queued)
  <2>1. Replies = {TRUE}  BY CallsSucceed
  <2>2. GoTo(l, "wait") /\ claim' = [claim EXCEPT ![l][r] = t] /\ UNCHANGED left
    BY <2>1 DEF Claim
  <2> QED  BY <2>2 DEF Claim, GoTo
<1>2. RecordOk(s) /\ Tame(res[r], s) /\ SpawnerOk(s) /\ s \in ResourceState /\ s.tickets[t] \in Ticket
  <2>1. RecordOk(s) /\ Tame(res[r], s)  BY CurrentTame
  <2>2. SpawnerOk(s)  BY <2>1, SpawnerTame, TidyFacts
  <2>3. s \in ResourceState  BY <2>1 DEF RecordOk
  <2> QED  BY <2>1, <2>2, <2>3 DEF ResourceState
<1>3. ledger[l] = "absent" /\ \A q \in left[l] : claim[l][q] = None
  BY <1>1, TidyFacts DEF LedgerOk, ClaimsOk
<1>4. /\ pc'[l] = "wait" /\ claim'[l][r] = t
      /\ \A q \in Resources : q # r => claim'[l][q] = claim[l][q]
      /\ \A k \in Launches \ {l} : pc'[k] = pc[k] /\ left'[k] = left[k] /\ claim'[k] = claim[k]
  BY <1>1, TidyFacts DEF GateTypeOK
<1> HIDE DEF s
<1>5. PICK e : /\ Commit(r, e) /\ e.holder = s.holder
               /\ e.tickets[t].launch = l /\ e.tickets[t].owner = p /\ e.tickets[t].state \in Unused
               /\ ~e.tickets[t].aged /\ s.tickets[t].state \in Unused \union {"absent"}
               /\ \A u \in Requests \ {t} : e.tickets[u] = s.tickets[u]
  <2>1. CASE t \in Claimable(s, p) /\ Commit(r, assigned)
    <3> DEFINE k == [s.tickets[t] EXCEPT !.launch = l]
    <3>1. assigned.holder = s.holder /\ \A u \in Requests : assigned.tickets[u] = IF u = t THEN k ELSE s.tickets[u]
      BY <1>2 DEF ResourceState
    <3>2. s.tickets[t].state \in Unused /\ s.tickets[t].owner = p  BY <2>1 DEF Claimable, InState
    <3>3. ~s.tickets[t].aged  BY <1>2, TidyFacts DEF Tame, TicketTame
    <3>4. k.launch = l /\ k.owner = p /\ k.state \in Unused /\ ~k.aged
      BY <1>2, <3>2, <3>3 DEF Ticket
    <3> HIDE DEF k, assigned, p
    <3> QED  BY <2>1, <3>1, <3>2, <3>4
  <2>2. CASE FreshId(t) /\ Commit(r, queued)
    <3> DEFINE k == NewTicket(s, p, "queued", l)
    <3>1. queued.holder = s.holder /\ \A u \in Requests : queued.tickets[u] = IF u = t THEN k ELSE s.tickets[u]
      BY <1>2 DEF ResourceState
    <3>2. k.launch = l /\ k.owner = p /\ k.state \in Unused /\ ~k.aged
      BY DEF NewTicket, Unused
    <3>3. res[r].tickets[t].state = "absent"  BY <2>2 DEF FreshId
    <3>4. s.tickets[t].state \in Unused \union {"absent"}
      <4>1. Current(r).tickets[t].state = "absent"  BY <3>3, TidyFacts, CurrentOk
      <4> QED  BY <4>1 DEF s
    <3> HIDE DEF k, queued, p
    <3> QED  BY <2>2, <3>1, <3>2, <3>4
  <2> QED  BY <1>1, <2>1, <2>2
<1>6. ASSUME NEW k \in Launches \ {l}  PROVE claim[k][r] # t
  <2>1. CASE FreshId(t)
    BY <2>1 DEF FreshId
  <2>2. CASE t \in Claimable(s, p)
    <3>1. s.tickets[t].launch = None  BY <2>2 DEF Claimable
    <3>2. TicketOk(k, r, res[r].tickets[t], t) /\ k # None  BY TidyFacts DEF TidyInv, Tidy
    <3> QED  BY <1>2, <3>1, <3>2 DEF TicketOk, Tame, TicketTame
  <2> QED  BY <1>1, <2>1, <2>2
<1>7. SpawnerOk(e)
  <2>1. e.holder.state \in Started => e.holder.request \in Requests \ {t}
    BY <1>2, <1>5 DEF RecordOk, SlotAgrees, Started, Unused
  <2> QED  BY <1>2, <1>5, <2>1 DEF SpawnerOk
<1>8. LedgerOk(l)'  BY <1>1, <1>3, <1>4 DEF LedgerOk
<1>9. ClaimsOk(l)'
  <2>1. ASSUME NEW q \in left[l], claim'[l][q] # None  PROVE q = r
    BY <1>3, <1>4, <2>1, TidyFacts DEF GateTypeOK
  <2> QED  BY <1>1, <1>4, <2>1 DEF ClaimsOk, IsNext
<1>10. TicketOk(l, r, res[r].tickets[t], t)'
  <2>1. res'[r] = e  BY <1>5, TidyFacts DEF Commit, StoreTypeOK
  <2>2. e.tickets[t].state # "absent"  BY <1>5 DEF Unused
  <2> QED  BY <1>4, <1>5, <2>1, <2>2 DEF TicketOk, InPhase, Unused, Started
<1>11. ASSUME NEW q \in Resources, NEW u \in Requests, Mine(l, q, u), q # r \/ u # t,
              res'[q].tickets[u].state \in Active
       PROVE  claim'[l][q] = u /\ InPhase(res'[q].tickets[u].state, pc'[l], q \in left'[l])
  <2>1. claim[l][q] = u /\ u # None  BY <1>11, MineFacts
  <2>2. q # r  BY <1>1, <1>3, <2>1 DEF IsNext
  <2>3. res'[q] = res[q]  BY <1>5, <2>2, TidyFacts DEF Commit, StoreTypeOK
  <2>4. res[q].tickets[u].state \in Unused  BY <1>1, <1>11, UnusedBefore
  <2> QED  BY <1>4, <2>1, <2>2, <2>3, <2>4 DEF InPhase, Unused, Started
<1>12. ASSUME NEW q \in Resources  PROVE res[r].tickets[t].state # "absent" \/ res[q].tickets[t].state = "absent"
  <2>1. CASE FreshId(t)
    BY <2>1 DEF FreshId
  <2>2. CASE t \in Claimable(s, p)
    <3>1. Current(r).tickets[t].state # "absent"  BY <2>2 DEF Claimable, InState, Unused, s
    <3> QED  BY <3>1, TidyFacts, CurrentOk
  <2> QED  BY <1>1, <2>1, <2>2
<1> HIDE DEF p
<1> QED  BY <1>12, <1>1, <1>2, <1>4, <1>5, <1>6, <1>7, <1>8, <1>9, <1>10, <1>11, TicketTidy

\* Arming: the reserved ticket of the launch starts, the last one before admission.
LEMMA ArmTidy ==
  ASSUME TidyInv, Faults = {}, NEW l \in Launches, NEW r \in Resources, BeforeSpawn(l, r)
  PROVE  Tidy'
<1>t. PICK t \in Requests : t = claim[l][r] /\ Current(r).holder.request = t /\ Current(r).holder.state = "reserved"
  <2>1. Current(r).holder.request = claim[l][r] /\ Current(r).holder.state = "reserved"
    BY DEF BeforeSpawn, Armable
  <2>2. RecordOk(Current(r))  BY CurrentTame
  <2> QED  BY <2>1, <2>2 DEF RecordOk, SlotAgrees
<1> DEFINE s == Current(r)
           e == Start(s, l)
           rest == left[l] \ {r}
           phase == IF rest = {} THEN "commit" ELSE "arm"
<1>1. /\ pc[l] = "arm" /\ r \in left[l] /\ Commit(r, e) /\ UNCHANGED <<ledger, proc, status, claim, need>>
      /\ pc' = [pc EXCEPT ![l] = phase] /\ left' = [left EXCEPT ![l] = rest]
      /\ s.holder.request = t /\ s.holder.state = "reserved"
  <2>1. Replies = {TRUE}  BY CallsSucceed
  <2>2. Visit(l, rest) /\ GoTo(l, phase)
    <3> HIDE DEF rest, phase
    <3> QED  BY <2>1 DEF BeforeSpawn, rest, phase
  <2>3. s.holder.request = t /\ s.holder.state = "reserved"  BY <1>t
  <2> HIDE DEF s, e, rest, phase
  <2> QED  BY <2>2, <2>3 DEF BeforeSpawn, GoTo, Visit, IsNext, s, e
<1>2. RecordOk(s) /\ Tame(res[r], s) /\ SpawnerOk(s) /\ s \in ResourceState
  <2>1. RecordOk(s) /\ Tame(res[r], s)  BY CurrentTame
  <2>2. SpawnerOk(s)  BY <2>1, SpawnerTame, TidyFacts
  <2> QED  BY <2>1, <2>2 DEF RecordOk
<1> HIDE DEF s, phase, rest
<1>3. claim[l][r] = t /\ s.tickets[t].state = "reserved" /\ s.tickets[t] \in Ticket
  <2> QED  BY <1>1, <1>t, <1>2 DEF RecordOk, SlotAgrees, ResourceState
<1>4. /\ e.holder.state = "starting" /\ e.holder.spawner = l /\ e.holder.request = t
      /\ \A u \in Requests : e.tickets[u] = IF u = t THEN [s.tickets[t] EXCEPT !.state = "starting"] ELSE s.tickets[u]
  <2> QED  BY <1>1, <1>2 DEF Start, ResourceState, Holder
<1>5. /\ res[r].tickets[t].launch = l /\ res[r].tickets[t].owner = OwnerOf[l]
      /\ res[r].tickets[t].state # "absent" /\ ~res[r].tickets[t].aged
  BY <1>3, TidyFacts DEF TidyInv, Tidy, TicketOk
<1>6. /\ e.tickets[t].launch = l /\ e.tickets[t].owner = OwnerOf[l]
      /\ e.tickets[t].state = "starting" /\ ~e.tickets[t].aged
  <2>1. s.tickets[t].launch = l /\ s.tickets[t].owner = OwnerOf[l] /\ ~s.tickets[t].aged
    BY <1>2, <1>3, <1>5 DEF Tame, TicketTame
  <2> DEFINE k == [s.tickets[t] EXCEPT !.state = "starting"]
  <2>2. k.launch = l /\ k.owner = OwnerOf[l] /\ k.state = "starting" /\ ~k.aged
    BY <1>3, <2>1 DEF Ticket
  <2>3. e.tickets[t] = k  BY <1>3, <1>4
  <2> HIDE DEF k, e
  <2> QED  BY <2>2, <2>3
<1> HIDE DEF e
<1>7. SpawnerOk(e)  BY <1>4, <1>6 DEF SpawnerOk
<1>8. ASSUME NEW k \in Launches \ {l}  PROVE claim[k][r] # t
  <2>1. TicketOk(k, r, res[r].tickets[t], t)  BY <1>3 DEF TidyInv, Tidy
  <2> QED  BY <1>5, <2>1 DEF TicketOk
<1>9. /\ pc'[l] = phase /\ left'[l] = rest
      /\ \A k \in Launches \ {l} : pc'[k] = pc[k] /\ left'[k] = left[k] /\ claim'[k] = claim[k]
  BY <1>1, TidyFacts DEF GateTypeOK
<1>10. phase \in {"arm", "commit"} /\ (phase = "commit" => rest = {})  BY DEF phase
<1>11. LedgerOk(l)'  BY <1>1, <1>9, <1>10, TidyFacts DEF LedgerOk
<1>12. ClaimsOk(l)'  BY <1>9, <1>10 DEF ClaimsOk
<1>13. \A q \in Resources : res'[q] = IF q = r THEN e ELSE res[q]
  BY <1>1, TidyFacts DEF Commit, StoreTypeOK
<1>14. TicketOk(l, r, res[r].tickets[t], t)'
  <2>1. res'[r].tickets[t] = e.tickets[t] /\ claim'[l][r] = t /\ r \notin left'[l]
    BY <1>1, <1>3, <1>9, <1>13 DEF rest
  <2> QED  BY <1>6, <1>9, <1>10, <2>1 DEF TicketOk, InPhase, Unused
<1>15. ASSUME NEW q \in Resources, NEW u \in Requests, Mine(l, q, u), q # r \/ u # t,
              res'[q].tickets[u].state \in Active
       PROVE  claim'[l][q] = u /\ InPhase(res'[q].tickets[u].state, pc'[l], q \in left'[l])
  <2>1. claim[l][q] = u /\ q \in need[l] /\ InPhase(res[q].tickets[u].state, "arm", q \in left[l])
    BY <1>1, <1>15, MineFacts
  <2>2. q # r  BY <1>3, <1>15, <2>1
  <2>3. res'[q] = res[q]  BY <1>13, <2>2
  <2>4. CASE phase = "arm"
    BY <1>1, <1>9, <2>1, <2>2, <2>3, <2>4 DEF InPhase, rest
  <2>5. CASE phase = "commit"
    <3>1. q \notin left[l] /\ q \notin left'[l]  BY <1>9, <1>10, <2>2, <2>5 DEF rest
    <3>2. Armed(res[q], l)  BY <1>1, <2>1, <3>1, TidyFacts DEF LaunchOk, MustBeArmed
    <3>3. Holds(res[q], l)  BY <3>2 DEF Armed, Holds, Started
    <3>4. res[q].tickets[u].state = "starting"  BY <1>15, <3>2, <3>3, HeldIsMine DEF Armed
    <3> QED  BY <1>1, <1>9, <2>1, <2>3, <2>5, <3>1, <3>4 DEF InPhase, Unused
  <2> QED  BY <1>10, <2>4, <2>5
<1>16. pc'[l] \notin {"recovery", "crashed"}  BY <1>9, <1>10
<1>17. \A u \in Requests \ {t} : e.tickets[u] = s.tickets[u]  BY <1>4
<1>18. Commit(r, e) /\ UNCHANGED <<ledger, proc, status>>  BY <1>1
<1>19. \A q \in Resources : claim'[l][q] = claim[l][q]  BY <1>1
<1> QED  BY <1>5, <1>2, <1>3, <1>17, <1>18, <1>19, <1>6, <1>7, <1>8, <1>9, <1>11, <1>12, <1>14, <1>15, <1>16, TicketTidy

\* Publication: the process is recorded in the next reservation, the last one before the drain.
LEMMA RecordTidy ==
  ASSUME TidyInv, Faults = {}, NEW l \in Launches, NEW r \in Resources, RecordSpawn(l, r)
  PROVE  Tidy'
<1> DEFINE s == Opened(r)
           e == Run(s, l)
           rest == left[l] \ {r}
           phase == IF rest = {} THEN "drain" ELSE "record"
           toVisit == IF rest = {} THEN need[l] ELSE rest
<1>1. /\ pc[l] = "record" /\ r \in left[l] /\ Commit(r, e) /\ UNCHANGED <<ledger, proc, status, claim, need>>
      /\ pc' = [pc EXCEPT ![l] = phase] /\ left' = [left EXCEPT ![l] = toVisit]
      /\ Holds(s, l) /\ s.holder.state = "starting"
  <2>1. Replies = {TRUE}  BY CallsSucceed
  <2>2. Visit(l, toVisit) /\ GoTo(l, phase)  BY <2>1 DEF RecordSpawn
  <2>3. Holds(s, l) /\ s.holder.state = "starting"  BY DEF RecordSpawn
  <2> HIDE DEF s, e, rest, phase, toVisit
  <2> QED  BY <2>2, <2>3 DEF RecordSpawn, GoTo, Visit, IsNext, s, e
<1>2. /\ RecordOk(s) /\ Tame(res[r], s) /\ s \in ResourceState
      /\ s.holder = res[r].holder /\ s.tickets = res[r].tickets
  BY OpenedTame DEF RecordOk
<1>3. Holds(res[r], l) /\ res[r].holder.state = "starting"  BY <1>1, <1>2 DEF Holds
<1> HIDE DEF s
<1>4. PICK t \in Requests : t = res[r].holder.request /\ Mine(l, r, t) /\ res[r].tickets[t].state = "starting"
  BY <1>3, HeldIsMine
<1>5. claim[l][r] = t /\ r \in need[l] /\ res[r].tickets[t].owner = OwnerOf[l] /\ res[r].tickets[t].launch = l
  BY <1>4, MineFacts DEF Mine
<1>6. s.tickets[t] \in Ticket /\ ~s.tickets[t].aged
  BY <1>2, TidyFacts DEF ResourceState
<1>7. /\ e.holder.spawner = l /\ e.holder.request = t
      /\ \A u \in Requests : e.tickets[u] = IF u = t THEN [s.tickets[t] EXCEPT !.state = "running"] ELSE s.tickets[u]
  <2>1. s.holder.spawner = l /\ s.holder.request = t  BY <1>2, <1>3, <1>4 DEF Holds
  <2> QED  BY <1>2, <2>1 DEF Run, ResourceState, Holder
<1>8. /\ e.tickets[t].launch = l /\ e.tickets[t].owner = OwnerOf[l]
      /\ e.tickets[t].state = "running" /\ ~e.tickets[t].aged
  <2> DEFINE k == [s.tickets[t] EXCEPT !.state = "running"]
  <2>1. s.tickets[t].launch = l /\ s.tickets[t].owner = OwnerOf[l]  BY <1>2, <1>5
  <2>2. k.launch = l /\ k.owner = OwnerOf[l] /\ k.state = "running" /\ ~k.aged
    BY <1>6, <2>1 DEF Ticket
  <2>3. e.tickets[t] = k  BY <1>7
  <2> HIDE DEF k, e
  <2> QED  BY <2>2, <2>3
<1> HIDE DEF e, phase, toVisit, rest
<1>9. SpawnerOk(e)  BY <1>7, <1>8 DEF SpawnerOk
<1>10. ASSUME NEW k \in Launches \ {l}  PROVE claim[k][r] # t
  <2>1. TicketOk(k, r, res[r].tickets[t], t)  BY DEF TidyInv, Tidy
  <2> QED  BY <1>5, <2>1 DEF TicketOk
<1>11. /\ pc'[l] = phase /\ left'[l] = toVisit
       /\ \A k \in Launches \ {l} : pc'[k] = pc[k] /\ left'[k] = left[k] /\ claim'[k] = claim[k]
  <2>1. phase \in Phases /\ toVisit \in SUBSET Resources
    BY TidyFacts DEF phase, toVisit, rest, Phases, Spawned, GateTypeOK
  <2> QED  BY <1>1, <2>1, TidyFacts DEF GateTypeOK
<1>12. \/ phase = "drain" /\ rest = {} /\ toVisit = need[l]
       \/ phase = "record" /\ toVisit = rest
  BY DEF phase, toVisit
<1>13. LedgerOk(l)'  BY <1>1, <1>11, <1>12, TidyFacts DEF LedgerOk
<1>14. ClaimsOk(l)'  BY <1>11, <1>12 DEF ClaimsOk
<1>15. \A q \in Resources : res'[q] = IF q = r THEN e ELSE res[q]
  BY <1>1, TidyFacts DEF Commit, StoreTypeOK
<1>16. TicketOk(l, r, res[r].tickets[t], t)'
  <2>1. res'[r].tickets[t] = e.tickets[t] /\ claim'[l][r] = t
    BY <1>1, <1>5, <1>15
  <2>2. \/ pc'[l] = "drain" /\ r \in left'[l]
        \/ pc'[l] = "record" /\ r \notin left'[l]
    BY <1>5, <1>11, <1>12 DEF rest
  <2> QED  BY <1>8, <2>1, <2>2 DEF TicketOk, InPhase, Unused
<1>17. ASSUME NEW q \in Resources, NEW u \in Requests, Mine(l, q, u), q # r \/ u # t,
              res'[q].tickets[u].state \in Active
       PROVE  claim'[l][q] = u /\ InPhase(res'[q].tickets[u].state, pc'[l], q \in left'[l])
  <2>1. claim[l][q] = u /\ q \in need[l] /\ InPhase(res[q].tickets[u].state, "record", q \in left[l])
    BY <1>1, <1>17, MineFacts
  <2>2. q # r  BY <1>5, <1>17, <2>1
  <2>3. res'[q] = res[q] /\ (q \in left[l] <=> q \in rest)  BY <1>15, <2>2 DEF rest
  <2> QED  BY <1>1, <1>11, <1>12, <2>1, <2>3 DEF InPhase
<1>18. pc'[l] \notin {"recovery", "crashed"}  BY <1>11, <1>12
<1>19. \A u \in Requests \ {t} : e.tickets[u] = s.tickets[u]  BY <1>7
<1>20. Commit(r, e) /\ UNCHANGED <<ledger, proc, status>>  BY <1>1
<1>21. \A q \in Resources : claim'[l][q] = claim[l][q]  BY <1>1
<1>22. res[r].tickets[t].state # "absent"  BY <1>4
<1> QED  BY <1>2, <1>8, <1>9, <1>10, <1>11, <1>13, <1>14, <1>16, <1>17, <1>18, <1>19, <1>20, <1>21, <1>22, TicketTidy

\* A launch has visited r: what it still has there may stay.
LEMMA VisitedTidy ==
  ASSUME TidyInv, NEW l \in Launches, NEW r \in Resources, RecordsTame,
         UNCHANGED <<ledger, proc, status, pc, claim>>, Visit(l, left[l] \ {r}),
         pc[l] \in {"unwind", "cancel", "abort", "drain", "drained"},
         \A t \in Requests : (Mine(l, r, t) /\ res'[r].tickets[t].state \in Active)
                               => InPhase(res'[r].tickets[t].state, pc[l], FALSE)
  PROVE  Tidy'
<1> DEFINE phase == pc[l]
           toVisit == left[l] \ {r}
<1>1. Goes(l, phase, toVisit)  BY TidyFacts DEF Visit, Goes, GateTypeOK
<1>2. ASSUME NEW q \in Resources, NEW t \in Requests, Mine(l, q, t), res'[q].tickets[t].state \in Active
      PROVE  InPhase(res'[q].tickets[t].state, phase, q \in toVisit)
  <2>1. CASE q = r
    BY <1>2, <2>1 DEF InPhase
  <2>2. CASE q # r
    <3>1. InPhase(res[q].tickets[t].state, pc[l], q \in left[l])  BY <1>2, MineFacts
    <3>2. /\ res'[q].tickets[t].state \in Started => res'[q].tickets[t].state = res[q].tickets[t].state
          /\ res'[q].tickets[t].state \in Unused => res[q].tickets[t].state \in Unused
      BY <1>2, MineLater
    <3> QED  BY <1>2, <2>2, <3>1, <3>2 DEF InPhase, Active, Started, Unused
  <2> QED  BY <2>1, <2>2
<1>3. LedgerOk(l)  BY TidyFacts
<1>4. phase \in {"unwind", "cancel", "abort", "drain", "drained"}  OBVIOUS
<1>5. /\ phase \in {"admitted", "abort", "publish"} => ledger'[l] = "admitted"
      /\ phase \in {"record", "drain"} => ledger'[l] # "admitted"
      /\ phase \notin {"admitted", "abort", "publish", "record", "drain"} => ledger'[l] = "absent"
  BY <1>3 DEF LedgerOk
<1> HIDE DEF phase, toVisit
<1> QED  BY <1>1, <1>2, <1>4, <1>5, GoesOn DEF LedgerRests

\* Closing the ticket a launch holds at r.
LEMMA CloseHeldTidy ==
  ASSUME TidyInv, NEW l \in Launches, NEW r \in Resources, Holds(res[r], l), NEW outcome \in Closed,
         Commit(r, Close(Opened(r), Opened(r).holder.request, outcome))
  PROVE  /\ RecordsTame
         /\ \A t \in Requests : Mine(l, r, t) => res'[r].tickets[t].state \notin Active
<1>1. PICK t \in Requests : t = res[r].holder.request /\ Mine(l, r, t) /\ \A u \in Requests : Mine(l, r, u) => u = t
  BY HeldIsMine
<1>2. /\ RecordOk(Opened(r)) /\ Tame(res[r], Opened(r)) /\ Opened(r).holder.request = t
      /\ Opened(r).tickets[t].state # "absent"
  BY <1>1, OpenedTame DEF Mine, Active, Unused, Started
<1> DEFINE e == Close(Opened(r), t, outcome)
<1>3. Tame(Opened(r), e) /\ e.tickets[t].state = outcome  BY <1>2, CloseTame
<1>4. Tame(res[r], e)  BY <1>2, <1>3, TameTrans
<1>5. Commit(r, e)  BY <1>2
<1> HIDE DEF e
<1>6. res'[r] = e  BY <1>5, TidyFacts DEF Commit, StoreTypeOK
<1>7. outcome \notin Active  BY DEF Closed, Active, Unused, Started
<1> QED  BY <1>1, <1>3, <1>4, <1>5, <1>6, <1>7, TameCommit

\* confirmSpawnFailure leaves nothing started.
LEMMA ConfirmTidy ==
  ASSUME TidyInv, NEW l \in Launches, NEW r \in Resources, ConfirmSpawnFailure(l, r)
  PROVE  Tidy'
<1> DEFINE s == Opened(r)
<1>1. /\ pc[l] \in {"unwind", "abort"} /\ Visit(l, left[l] \ {r})
      /\ UNCHANGED <<ledger, proc, status, pc, claim>>
  BY DEF ConfirmSpawnFailure
<1>2. s.holder = res[r].holder  BY OpenedTame
<1>3. CASE Holds(s, l) /\ s.holder.state = "starting"
  <2>1. Commit(r, Close(s, s.holder.request, "released")) /\ Holds(res[r], l)
    BY <1>2, <1>3 DEF ConfirmSpawnFailure, SpawnFailed, Holds
  <2>2. RecordsTame /\ \A t \in Requests : Mine(l, r, t) => res'[r].tickets[t].state \notin Active
    BY <2>1, CloseHeldTidy DEF Closed
  <2> QED  BY <1>1, <2>2, VisitedTidy
<1>4. CASE ~(Holds(s, l) /\ s.holder.state = "starting")
  <2>1. res' = res  BY <1>4 DEF ConfirmSpawnFailure
  <2>2. ASSUME NEW t \in Requests, Mine(l, r, t)
        PROVE  InPhase(res'[r].tickets[t].state, pc[l], FALSE)
    <3>1. InPhase(res[r].tickets[t].state, pc[l], r \in left[l])  BY <2>2, MineFacts
    <3>2. res[r].tickets[t].state # "starting"
      BY <1>2, <1>4, <2>2, MineIsHeld DEF Holds, Started
    <3> QED  BY <1>1, <2>1, <3>1, <3>2 DEF InPhase
  <2> QED  BY <1>1, <2>1, <2>2, NotCommitted, VisitedTidy
<1> QED  BY <1>3, <1>4

\* An unused ticket stays so, or expires.
LEMMA CurrentUnused ==
  ASSUME TidyInv, NEW r \in Resources, NEW t \in Requests, res[r].tickets[t].state \in Unused
  PROVE  Current(r).tickets[t].state \in Unused \union {"expired"}
<1> DEFINE s == Opened(r)
           c == [s EXCEPT !.blockers = @ \intersect Blocking]
<1>1. RecordOk(s) /\ s.tickets = res[r].tickets /\ s \in ResourceState  BY OpenedTame DEF RecordOk
<1>2. Current(r) = Reconciled(s, Blocking, Gone)  BY DEF Current, Opened
<1> HIDE DEF s
<1>3. c.tickets = s.tickets /\ c.holder = s.holder /\ c \in ResourceState  BY <1>1 DEF ResourceState
<1>4. \/ Current(r) = c
      \/ Current(r) = Close(c, s.holder.request, "expired")
      \/ s.holder.state = "running" /\ Current(r) = Close(c, s.holder.request, "completed")
  BY <1>2 DEF Reconciled
<1>5. s.holder.state = "running" => s.holder.request # t
  BY <1>1 DEF RecordOk, SlotAgrees, Unused
<1> HIDE DEF c
<1>6. ASSUME NEW outcome, NEW u
      PROVE  Close(c, u, outcome).tickets[t].state = IF u = t THEN outcome ELSE c.tickets[t].state
  <2>1. c.tickets \in [Requests -> Ticket]  BY <1>3 DEF ResourceState
  <2>2. Close(c, u, outcome).tickets = [c.tickets EXCEPT ![u].state = outcome]
    BY <1>3 DEF Close, ResourceState
  <2> QED  BY <2>1, <2>2 DEF Ticket
<1> QED  BY <1>1, <1>3, <1>4, <1>5, <1>6

\* Cancelling what was claimed: a ticket of the launch can be found and cancelled.
LEMMA CancelTidy ==
  ASSUME TidyInv, TicketsDistinct, Faults = {}, NEW l \in Launches, NEW r \in Resources,
         CancelClaim(l, r) \/ CancelClaimSkipped(l, r)
  PROVE  Tidy'
<1> DEFINE t == claim[l][r]
<1>1. /\ pc[l] = "cancel" /\ r \in left[l] /\ Visit(l, left[l] \ {r})
      /\ UNCHANGED <<ledger, proc, status, pc, claim>>
  BY DEF CancelClaim, CancelClaimSkipped, storeVars
<1>2. t \in Requests
  BY <1>1, TidyFacts DEF LaunchOk, GateTypeOK
<1>3. CASE CancelClaim(l, r)
  <2> DEFINE s == Current(r)
             e == Close(s, t, "cancelled")
  <2>1. RecordOk(s) /\ Tame(res[r], s)  BY CurrentTame
  <2>2. Commit(r, e) /\ s.tickets[t].state # "absent"
    BY <1>3 DEF CancelClaim, CancelRequest, Cancellable, Unused
  <2> HIDE DEF s, t
  <2>3. Tame(s, e) /\ e.tickets[t].state = "cancelled"
    BY <1>2, <2>1, <2>2, CloseTame DEF Closed
  <2> HIDE DEF e
  <2>4. RecordsTame  BY <2>1, <2>2, <2>3, TameTrans, TameCommit
  <2>5. res'[r] = e  BY <2>2, TidyFacts DEF Commit, StoreTypeOK
  <2>6. ASSUME NEW u \in Requests, Mine(l, r, u)  PROVE res'[r].tickets[u].state \notin Active
    <3>1. u = t  BY <2>6, MineFacts DEF t
    <3> QED  BY <2>3, <2>5, <3>1 DEF Active, Unused, Started
  <2> QED  BY <1>1, <2>4, <2>6, VisitedTidy
<1>4. CASE CancelClaimSkipped(l, r)
  <2>1. res' = res  BY <1>4 DEF CancelClaimSkipped, storeVars
  <2>2. ~Located(r, t) \/ ~Cancellable(Current(r), t) \/ Current(r).tickets[t].owner # OwnerOf[l]
    BY <1>4, CallsSucceed DEF CancelClaimSkipped
  <2>3. ASSUME NEW u \in Requests, Mine(l, r, u)  PROVE FALSE
    <3>1. /\ u = t /\ res[r].tickets[t].owner = OwnerOf[l]
          /\ InPhase(res[r].tickets[t].state, pc[l], r \in left[l])
      BY <2>3, MineFacts
    <3>2. res[r].tickets[t].state \in Unused
      BY <1>1, <2>3, <3>1 DEF InPhase, Mine, Active, Started
    <3>3. Located(r, t)
      <4>1. \A q \in Resources : Opened(q).tickets = res[q].tickets  BY OpenedTame
      <4>2. res[r].tickets[t].state # "absent"  BY <3>2 DEF Unused
      <4> QED  BY <1>2, <4>1, <4>2 DEF Located, TicketsDistinct
    <3>4. Cancellable(Current(r), t)
      BY <1>2, <3>2, CurrentUnused DEF Cancellable
    <3>5. Tame(res[r], Current(r)) /\ res[r].tickets[t].state # "absent"
      BY <3>2, CurrentTame DEF Unused
    <3>6. Current(r).tickets[t].owner = OwnerOf[l]
      BY <1>2, <3>1, <3>5 DEF Tame, TicketTame
    <3> QED  BY <2>2, <3>3, <3>4, <3>6
  <2> QED  BY <1>1, <2>1, <2>3, NotCommitted, VisitedTidy
<1> QED  BY <1>3, <1>4

\* Everything started was confirmed: what is left is to be cancelled.
LEMMA UnwoundTidy ==
  ASSUME TidyInv, NEW l \in Launches, UnwindDone(l)
  PROVE  Tidy'
<1> DEFINE toVisit == {r \in Resources : claim[l][r] # None}
<1>1. /\ pc[l] = "unwind" /\ left[l] = {} /\ UNCHANGED <<res, ledger, proc, status, claim>>
      /\ Goes(l, "cancel", toVisit)
  BY DEF UnwindDone, GoTo, Visit, Goes, storeVars
<1>2. ASSUME NEW r \in Resources, NEW t \in Requests, Mine(l, r, t)
      PROVE  InPhase(res'[r].tickets[t].state, "cancel", r \in toVisit)
  <2>1. claim[l][r] = t /\ t # None /\ InPhase(res[r].tickets[t].state, pc[l], r \in left[l])
    BY <1>2, MineFacts
  <2>2. r \in toVisit  BY <2>1
  <2> HIDE DEF toVisit
  <2> QED  BY <1>1, <2>1, <2>2 DEF InPhase, Started
<1> HIDE DEF toVisit
<1>3. ledger[l] = "absent"  BY <1>1, TidyFacts DEF LedgerOk
<1> QED  BY <1>1, <1>2, <1>3, NotCommitted, GoesOn DEF LedgerRests

\* finishLaunch reconciles every resource.
LEMMA RemovedTame ==
  ASSUME TidyInv, Faults = {}, NEW l \in Launches, RemoveLaunch(l)
  PROVE  RecordsTame /\ ledger' = [ledger EXCEPT ![l] = "absent"]
<1>1. res' = [r \in Resources |->
        IF r <= NumResources THEN Reconciled(Opened(r), Blocking \ {l}, Gone) ELSE res[r]]
  BY DEF RemoveLaunch
<1>2. ASSUME NEW r \in Resources  PROVE Tame(res[r], res'[r])
  <2>1. r <= NumResources  BY ConstantsAssumption DEF Resources
  <2>2. RecordOk(Opened(r)) /\ Tame(res[r], Opened(r))  BY OpenedTame
  <2>3. Tame(Opened(r), Reconciled(Opened(r), Blocking \ {l}, Gone))  BY <2>2, ReconciledTame
  <2> QED  BY <1>1, <2>1, <2>2, <2>3, TameTrans
<1> QED  BY <1>2 DEF RecordsTame, RemoveLaunch

\* A launch that is undone has nothing left.
LEMMA UndoneTidy ==
  ASSUME TidyInv, Faults = {}, NEW l \in Launches, CancelDone(l) \/ AbortDone(l)
  PROVE  Tidy'
<1>1. pc[l] \in {"cancel", "abort"} /\ left[l] = {} /\ Forget(l) /\ UNCHANGED <<proc, status>>
  BY DEF CancelDone, AbortDone, storeVars
<1>2. ASSUME NEW r \in Resources, NEW t \in Requests, Mine(l, r, t)  PROVE FALSE
  <2>1. InPhase(res[r].tickets[t].state, pc[l], r \in left[l])  BY <1>2, MineFacts
  <2> QED  BY <1>1, <1>2, <2>1 DEF InPhase, Mine, Active, Unused, Started
<1>3. CASE CancelDone(l)
  <2>1. UNCHANGED <<res, ledger>> /\ ledger[l] = "absent"
    BY <1>3, TidyFacts DEF CancelDone, storeVars, LedgerOk
  <2> QED  BY <1>1, <1>2, <2>1, NotCommitted, ForgetTidy DEF LedgerRests
<1>4. CASE AbortDone(l)
  <2>1. RemoveLaunch(l)  BY <1>4, CallsSucceed DEF AbortDone
  <2>2. RecordsTame /\ ledger' = [ledger EXCEPT ![l] = "absent"]  BY <2>1, RemovedTame
  <2>3. ledger'[l] = "absent" /\ \A k \in Launches \ {l} : LedgerRests(k)
    BY <2>2, TidyFacts DEF StoreTypeOK, LedgerRests
  <2> QED  BY <1>1, <1>2, <2>2, <2>3, ForgetTidy
<1> QED  BY <1>3, <1>4

\* Every step that undoes a launch, one of which never happens: no call fails.
LEMMA UndoTidy ==
  ASSUME TidyInv, TicketsDistinct, Faults = {}, NEW l \in Launches, Undo(l)
  PROVE  Tidy'
<1>1. ASSUME NEW r \in Resources, ConfirmSkipped(l, r)  PROVE FALSE
  BY <1>1, CallsSucceed DEF ConfirmSkipped
<1> QED  BY <1>1, ConfirmTidy, CancelTidy, UnwoundTidy, UndoneTidy DEF Undo

\* From the spawn to the publication.
LEMMA SpawnTidy ==
  ASSUME TidyInv, Faults = {}, NEW l \in Launches, Spawn(l) \/ SpawnFails(l) \/ PublishLaunch(l)
  PROVE  Tidy'
<1>1. RecordsTame /\ UNCHANGED <<res, status, claim>>
  BY NotCommitted DEF Spawn, SpawnFails, PublishLaunch, storeVars
<1>2. LedgerOk(l) /\ left[l] = left[l] /\ ledger \in [Launches -> {"absent", "admitted", "published"}]
      /\ left \in [Launches -> SUBSET Resources]
  BY TidyFacts DEF GateTypeOK, StoreTypeOK
<1>3. ASSUME NEW r \in Resources, NEW t \in Requests, Mine(l, r, t), pc[l] \in {"admitted", "publish"}
      PROVE  res'[r].tickets[t].state = "starting" /\ r \in need[l] /\ r \notin left[l]
  <2>1. r \in need[l] /\ InPhase(res[r].tickets[t].state, pc[l], r \in left[l])  BY <1>3, MineFacts
  <2> QED  BY <1>1, <1>3, <2>1 DEF InPhase, Mine, Active, Unused, Started
<1>4. CASE Spawn(l)
  <2>1. /\ Goes(l, "publish", left[l]) /\ proc' = [proc EXCEPT ![l] = "alive"] /\ UNCHANGED ledger
        /\ pc[l] = "admitted"
    BY <1>2, <1>4 DEF Spawn, GoTo, Goes
  <2>2. ledger[l] = "admitted"  BY <1>2, <2>1 DEF LedgerOk
  <2>3. \A r \in Resources, t \in Requests :
           Mine(l, r, t) => InPhase(res'[r].tickets[t].state, "publish", r \in left[l])
    BY <1>3, <2>1 DEF InPhase, Unused
  <2> QED  BY <1>1, <2>1, <2>2, <2>3, GoesOn DEF LedgerRests
<1>5. CASE SpawnFails(l)
  <2>1. Goes(l, "abort", need[l]) /\ UNCHANGED <<ledger, proc>> /\ pc[l] = "admitted"
    BY <1>5 DEF SpawnFails, GoTo, Visit, Goes, storeVars
  <2>2. ledger[l] = "admitted"  BY <1>2, <2>1 DEF LedgerOk
  <2>3. \A r \in Resources, t \in Requests :
           Mine(l, r, t) => InPhase(res'[r].tickets[t].state, "abort", r \in need[l])
    BY <1>3, <2>1 DEF InPhase, Unused
  <2> QED  BY <1>1, <2>1, <2>2, <2>3, GoesOn DEF LedgerRests
<1>6. CASE PublishLaunch(l)
  <2>1. Replies = {TRUE}  BY CallsSucceed
  <2>2. PICK phase \in {"record", "drain"} :
           /\ GoTo(l, phase) /\ Visit(l, need[l]) /\ (phase = "drain" => need[l] = {})
           /\ pc[l] = "publish" /\ ledger' = [ledger EXCEPT ![l] = "published"] /\ UNCHANGED proc
    BY <1>6, <2>1 DEF PublishLaunch
  <2>3. Goes(l, phase, need[l])  BY <2>2 DEF GoTo, Visit, Goes
  <2>4. ledger'[l] = "published" /\ \A k \in Launches \ {l} : LedgerRests(k)
    BY <1>2, <2>2 DEF LedgerRests
  <2>5. \A r \in Resources, t \in Requests :
           Mine(l, r, t) => InPhase(res'[r].tickets[t].state, phase, r \in need[l])
    BY <1>3, <2>2 DEF InPhase, Unused
  <2> QED  BY <1>1, <2>2, <2>3, <2>4, <2>5, GoesOn
<1> QED  BY <1>4, <1>5, <1>6

\* complete() and finishLaunch: the recorded processes are identified and proven gone.
LEMMA DrainTidy ==
  ASSUME TidyInv, Faults = {}, NEW l \in Launches,
         FinishLaunch(l) \/ \E r \in Resources : Complete(l, r) \/ CompleteGivenUp(l, r)
  PROVE  Tidy'
<1>1. CASE FinishLaunch(l)
  <2>1. /\ pc[l] = "drain" /\ UNCHANGED <<proc, status, left, claim>> /\ GoTo(l, "drained")
        /\ \/ ledger[l] = "absent" /\ UNCHANGED <<res, ledger>>
           \/ RemoveLaunch(l)
    BY <1>1 DEF FinishLaunch
  <2>2. RecordsTame /\ ledger'[l] = "absent" /\ \A k \in Launches \ {l} : LedgerRests(k)
    BY <2>1, NotCommitted, RemovedTame, TidyFacts DEF StoreTypeOK, LedgerRests
  <2>3. Goes(l, "drained", left[l])  BY <2>1, TidyFacts DEF GoTo, Goes, GateTypeOK
  <2>4. ASSUME NEW r \in Resources, NEW t \in Requests, Mine(l, r, t), res'[r].tickets[t].state \in Active
        PROVE  InPhase(res'[r].tickets[t].state, "drained", r \in left[l])
    <3>1. InPhase(res[r].tickets[t].state, pc[l], r \in left[l])  BY <2>4, MineFacts
    <3> QED  BY <2>1, <2>2, <2>4, <3>1, MineLater DEF InPhase, Active, Unused, Started
  <2> QED  BY <2>1, <2>2, <2>3, <2>4, GoesOn
<1>2. ASSUME NEW r \in Resources, Complete(l, r)  PROVE Tidy'
  <2>1. /\ pc[l] \in {"drain", "drained"} /\ Visit(l, left[l] \ {r})
        /\ UNCHANGED <<ledger, proc, status, pc, claim>> /\ Holds(Opened(r), l)
        /\ Commit(r, Close(Opened(r), Opened(r).holder.request, "completed"))
    BY <1>2 DEF Complete, Completable
  <2>2. Holds(res[r], l)  BY <2>1, OpenedTame DEF Holds
  <2>3. RecordsTame /\ \A t \in Requests : Mine(l, r, t) => res'[r].tickets[t].state \notin Active
    BY <2>1, <2>2, CloseHeldTidy DEF Closed
  <2> QED  BY <2>1, <2>3, VisitedTidy
<1>3. ASSUME NEW r \in Resources, CompleteGivenUp(l, r)  PROVE Tidy'
  <2>1. /\ pc[l] \in {"drain", "drained"} /\ Visit(l, left[l] \ {r})
        /\ UNCHANGED <<res, ledger, proc, status, pc, claim>>
    BY <1>3 DEF CompleteGivenUp, storeVars
  <2>2. ASSUME NEW t \in Requests, Mine(l, r, t)  PROVE FALSE
    <3>1. InPhase(res[r].tickets[t].state, pc[l], r \in left[l])  BY <2>2, MineFacts
    <3>2. res[r].tickets[t].state = "running"
      BY <2>1, <2>2, <3>1 DEF InPhase, Mine, Active, Unused, Started
    <3>3. Holds(res[r], l) /\ res[r].holder.state = "running"  BY <2>2, <3>2, MineIsHeld DEF Started
    <3>4. res[r].holder.process = l /\ l # None /\ proc[l] # "reused"
      BY <3>3, TidyFacts DEF RecordOk, HolderOk, Holds
    <3>5. Opened(r).holder = res[r].holder  BY OpenedTame
    <3>6. CallFails(l) \/ ~Holds(Opened(r), l) \/ Opened(r).holder.process = None
          \/ Opened(r).holder.process \in Unidentified
      BY <1>3 DEF CompleteGivenUp
    <3> QED  BY <3>3, <3>4, <3>5, <3>6, CallsSucceed DEF Holds, Unidentified
  <2> QED  BY <2>1, <2>2, NotCommitted, VisitedTidy
<1> QED  BY <1>1, <1>2, <1>3

\* Publication does not fail: every resource still to be recorded is armed.
LEMMA NoFailure ==
  ASSUME TidyInv, Faults = {}, NEW l \in Launches
  PROVE  ~PublicationFails(l) /\ ~FinishLaunchGivenUp(l)
<1>1. ~CallFails(l) /\ LedgerOk(l) /\ LaunchOk(l) /\ proc[l] # "reused"  BY TidyFacts, CallsSucceed
<1>2. ASSUME pc[l] = "record", NEW r \in Resources, IsNext(l, r)  PROVE Holds(Opened(r), l)
  <2>1. Armed(res[r], l)  BY <1>1, <1>2 DEF LaunchOk, MustBeArmed, IsNext
  <2> QED  BY <2>1, OpenedTame DEF Armed, Holds, Started
<1>3. ~PublicationFails(l)  BY <1>1, <1>2 DEF PublicationFails, LedgerOk
<1>4. ~FinishLaunchGivenUp(l)  BY <1>1 DEF FinishLaunchGivenUp, LedgerOk, Unidentified
<1> QED  BY <1>3, <1>4

\* Every step preserves the invariant.
LEMMA TidyNext == TidyInv /\ TicketsDistinct /\ Faults = {} /\ [Next]_vars => TidyInv'
<1> SUFFICES ASSUME TidyInv, TicketsDistinct, Faults = {}, [Next]_vars  PROVE TidyInv'
  OBVIOUS
<1>1. PolicyInv'  BY PolicyNext DEF TidyInv
<1>2. ASSUME NEW l \in Launches, Prepare(l)  PROVE Tidy'
  <2>1. CASE SurveyFails(l) \/ \E r \in Resources : Survey(l, r)
    BY <2>1, SurveyTidy
  <2>2. CASE ClaimFails(l) \/ WaitFails(l) \/ ArmFails(l) \/ BeginLaunchFails(l)
    BY <2>2, GiveUpTidy
  <2>3. CASE BeginLaunch(l)
    BY <2>3, BeginTidy
  <2>4. CASE \E r \in Resources : AwaitGrant(l, r) \/ BeforeSpawn(l, r) \/ \E t \in Requests : Claim(l, r, t)
    BY <2>4, AwaitTidy, ArmTidy, ClaimTidy
  <2> QED  BY <1>2, <2>1, <2>2, <2>3, <2>4 DEF Prepare
<1>3. ASSUME NEW l \in Launches, Launch(l)  PROVE Tidy'
  BY <1>3, SpawnTidy, RecordTidy, DrainTidy, NoFailure DEF Launch
<1>4. ASSUME NEW l \in Launches, Gate(l)  PROVE Tidy'
  BY <1>2, <1>3, <1>4, UndoTidy DEF Gate
<1>5. ASSUME UNCHANGED vars  PROVE Tidy'
  BY <1>5, NotCommitted, StoreTidy, TidyFacts DEF vars, storeVars, gateVars
<1>6. ASSUME Next  PROVE Tidy'
  BY <1>4, <1>6, ToolTidy, ManualTidy, EnvironmentTidy, NothingEnds DEF Next
<1> QED  BY <1>1, <1>5, <1>6 DEF TidyInv

\* Initially nothing is claimed, recorded or assigned.
LEMMA TidyInit == Init => TidyInv
<1> SUFFICES ASSUME Init  PROVE TidyInv
  OBVIOUS
<1>1. PolicyInv  BY PolicyInit
<1>2. /\ \A r \in Resources : /\ res[r].holder.state = "none"
                               /\ \A t \in Requests : res[r].tickets[t] = NoTicket
      /\ \A l \in Launches : /\ pc[l] = "survey" /\ claim[l] = NoClaims /\ proc[l] = "none"
                              /\ ledger[l] = "absent" /\ l # None
      /\ \A p \in Principals : status[p] = "live"
  BY ConstantsAssumption DEF Init, StoreInit, GateInit, Unconfigured, NoHolder
<1>3. Calm /\ IdsOk  BY <1>2 DEF Calm, NoTicket, IdsOk, TicketsDistinct
<1>4. \A r \in Resources : SpawnerOk(res[r])  BY <1>2 DEF SpawnerOk, Started
<1>5. \A l \in Launches : LedgerOk(l) /\ ClaimsOk(l)  BY <1>2 DEF LedgerOk, ClaimsOk
<1>6. ASSUME NEW l \in Launches, NEW r \in Resources, NEW t \in Requests
      PROVE  TicketOk(l, r, res[r].tickets[t], t)
  <2>1. claim[l][r] = None /\ t # None  BY <1>2, ConstantsAssumption DEF NoClaims
  <2>2. res[r].tickets[t].launch # l  BY <1>2 DEF NoTicket
  <2> QED  BY <2>1, <2>2 DEF TicketOk
<1> QED  BY <1>1, <1>3, <1>4, <1>5, <1>6 DEF TidyInv, Tidy

\* What is over has no entry and no active ticket.
LEMMA TidyLeaksNothing == TidyInv => NothingLeaks
<1> SUFFICES ASSUME TidyInv, NEW l \in Launches, pc[l] = "refused" \/ (pc[l] = "drained" /\ left[l] = {})
             PROVE  /\ ledger[l] = "absent"
                    /\ \A r \in Resources, t \in Requests : ~Mine(l, r, t)
  BY DEF NothingLeaks, InState, Mine
<1>1. ledger[l] = "absent"  BY TidyFacts DEF LedgerOk
<1>2. ASSUME NEW r \in Resources, NEW t \in Requests, Mine(l, r, t)  PROVE FALSE
  <2>1. InPhase(res[r].tickets[t].state, pc[l], r \in left[l])  BY <1>2, MineFacts
  <2> QED  BY <1>2, <2>1 DEF InPhase, Mine, Active, Unused, Started
<1> QED  BY <1>1, <1>2

\* Without faults, as long as no two tickets share an ID, every launch that was refused or has
\* drained leaves neither a ledger entry nor an active ticket behind.
THEOREM CleansUp ==
  ASSUME Faults = {}
  PROVE  Spec /\ []TicketsDistinct => []NothingLeaks
<1>1. TidyInv /\ TicketsDistinct /\ [Next]_vars => TidyInv'  BY TidyNext
<1> QED  BY <1>1, TidyInit, TidyLeaksNothing, PTL DEF Spec

\* No two tickets do where there is one resource, or where clients choose no IDs: there
\* NothingLeaks is an invariant.
THEOREM CleansUpAlways ==
  ASSUME Faults = {}, Clients = {} \/ NumResources = 1
  PROVE  Spec => []NothingLeaks
<1>1. TidyInv => TicketsDistinct  BY DEF TidyInv, Tidy, IdsOk
<1>2. TidyInv /\ [Next]_vars => TidyInv'  BY <1>1, TidyNext
<1> QED  BY <1>2, TidyInit, TidyLeaksNothing, PTL DEF Spec
=============================================================================
