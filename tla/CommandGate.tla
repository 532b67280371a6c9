----------------------------- MODULE CommandGate -----------------------------
(***************************************************************************)
(* CommandCoordinationGate.ts over ResourceCoordinator.ts: how one command *)
(* (a launch) obtains its resources, is spawned, publishes its process and *)
(* gives the resources back, interleaved with every other launch, with     *)
(* tool calls, with policy changes and with failures.                      *)
(*                                                                         *)
(*   survey   commandRequirements, one resource after the other            *)
(*   claim    claimCommand for the next required resource                  *)
(*   wait     waitForGrant for the ticket just claimed                     *)
(*   arm      beforeSpawn for every granted ticket                         *)
(*   commit   beginLaunch: enter the launch ledger                         *)
(*   unwind, cancel   the catch block of prepareCommandCoordination        *)
(*   admitted the launch may spawn                                         *)
(*   abort    failed(): the spawn did not happen                           *)
(*   publish, record  publishProcess: publishLaunch, then recordSpawn      *)
(*   drain, drained   drain(): complete and finishLaunch every 100 ms      *)
(*   refused, recovery, crashed   no further step                          *)
(*                                                                         *)
(* A store call of the gate can fail before it takes effect (the lock wait *)
(* of two seconds elapses, the coordinator closed) or lose its reply after *)
(* it took effect (a worker's call through TeammatePeerBridge).            *)
(***************************************************************************)
EXTENDS ResourceCoordinator

CONSTANT
  MaxLaunches  \* capacity of the launch ledger (4096 in the code)

ASSUME GateAssumption == MaxLaunches \in Nat

VARIABLES
  pc,     \* phase of each launch
  need,   \* resources the survey found the command to require
  left,   \* resources the current phase has still to visit
  claim,  \* the ticket claimed for each resource
  seen    \* the policy epoch under which each ticket was granted

gateVars == <<pc, need, left, claim, seen>>
vars == <<storeVars, gateVars>>

Preparing == {"survey", "claim", "wait", "arm", "commit"}
Undoing == {"unwind", "cancel", "abort"}
Spawned == {"publish", "record", "drain", "drained", "recovery"}
Phases == Preparing \union Undoing \union Spawned \union {"admitted", "refused", "crashed"}

GateTypeOK ==
  /\ pc \in [Launches -> Phases]
  /\ need \in [Launches -> SUBSET Resources]
  /\ left \in [Launches -> SUBSET Resources]
  /\ claim \in [Launches -> [Resources -> Requests \union {None}]]
  /\ seen \in [Launches -> [Resources -> Nat]]

NoClaims == [r \in Resources |-> None]
NoEpochs == [r \in Resources |-> 0]

GateInit ==
  /\ pc = [l \in Launches |-> "survey"]
  /\ need = [l \in Launches |-> {}]
  /\ left = [l \in Launches |-> Resources]
  /\ claim = [l \in Launches |-> NoClaims]
  /\ seen = [l \in Launches |-> NoEpochs]

Init == StoreInit /\ GateInit

-----------------------------------------------------------------------------
(* Helpers. *)

\* The store call can be made at all.
CanCall(l) == Open(OwnerOf[l])

\* The call fails without effect, or its effect happened and the reply is lost.
CallFails(l) == "loss" \in Faults \/ ~CanCall(l)
Replies == IF "loss" \in Faults THEN BOOLEAN ELSE {TRUE}

\* Mutant of IsNext: the keys are not sorted, and a build names its resources in another order.
IsNextUnsorted(l, r) ==
  r \in left[l] /\ \A q \in left[l] : IF l \in BuildLaunches THEN q <= r ELSE r <= q

\* Resources are visited in the sorted order of their keys.
IsNext(l, r) == r \in left[l] /\ \A q \in left[l] : r <= q

GoTo(l, phase) == pc' = [pc EXCEPT ![l] = phase]
Visit(l, rs) == left' = [left EXCEPT ![l] = rs]

\* The error path of a prepare step: undo what was armed, then cancel the claims.
Unwind(l, armed) == GoTo(l, "unwind") /\ Visit(l, armed)

\* The launch is over and its local variables are gone.
Forget(l) ==
  /\ GoTo(l, "refused")
  /\ need' = [need EXCEPT ![l] = {}]
  /\ left' = [left EXCEPT ![l] = {}]
  /\ claim' = [claim EXCEPT ![l] = NoClaims]
  /\ seen' = [seen EXCEPT ![l] = NoEpochs]

-----------------------------------------------------------------------------
(* prepareCommandCoordination *)

\* commandRequirements throws for a peer that is governed but no longer admitted, and when
\* two tickets could serve the command.
SurveyRefuses(s, l) ==
  /\ Governs(s, l)
  /\ ~IsParticipant(s, OwnerOf[l]) \/ Cardinality(Claimable(s, OwnerOf[l])) > 1

Survey(l, r) ==
  LET s == Current(r)
      required == IF Governs(s, l) THEN need[l] \union {r} ELSE need[l]
      rest == left[l] \ {r}
  IN  /\ pc[l] = "survey"
      /\ CanCall(l)
      /\ IsNext(l, r)
      /\ ~SurveyRefuses(s, l)
      /\ Commit(r, s)
      /\ need' = [need EXCEPT ![l] = required]
      /\ IF rest # {} THEN GoTo(l, "survey") /\ Visit(l, rest)
         ELSE IF required # {} THEN GoTo(l, "claim") /\ Visit(l, required)
         ELSE GoTo(l, "commit") /\ Visit(l, {})
      /\ UNCHANGED <<ledger, proc, status, swept, claim, seen>>

SurveyFails(l) ==
  /\ pc[l] = "survey"
  /\ \/ CallFails(l)
     \/ \E r \in Resources : IsNext(l, r) /\ SurveyRefuses(Current(r), l)
  /\ Forget(l)
  /\ UNCHANGED storeVars

\* A ticket ID no record and no other launch knows: a random UUID.
FreshId(t) ==
  /\ \A r \in Resources : res[r].tickets[t].state = "absent"
  /\ \A l \in Launches, r \in Resources : claim[l][r] # t

\* claimCommand: the ticket named by the caller, the only claimable one, or a new one.
Claim(l, r, t) ==
  LET p == OwnerOf[l]
      s == Current(r)
  IN  /\ pc[l] = "claim"
      /\ CanCall(l)
      /\ IsNext(l, r)
      /\ IsParticipant(s, p)
      /\ \/ /\ t \in Claimable(s, p)
            /\ Commit(r, [s EXCEPT !.tickets[t].launch = l])
         \/ /\ Claimable(s, p) = {}
            /\ FreshId(t)
            /\ ~QueueFull(s)
            /\ Commit(r, [s EXCEPT !.tickets[t] = NewTicket(s, p, "queued", l)])
      /\ \E ok \in Replies :
           IF ok THEN /\ GoTo(l, "wait")
                      /\ claim' = [claim EXCEPT ![l][r] = t]
                      /\ UNCHANGED left
                 ELSE Unwind(l, {}) /\ UNCHANGED claim
      /\ UNCHANGED <<ledger, proc, status, swept, need, seen>>

\* waitForGrant observes the reservation.
AwaitGrant(l, r) ==
  LET s == Current(r)
      t == claim[l][r]
      rest == left[l] \ {r}
  IN  /\ pc[l] = "wait"
      /\ CanCall(l)
      /\ IsNext(l, r)
      /\ Located(r, t)
      /\ s.tickets[t].owner = OwnerOf[l]
      /\ s.tickets[t].state = "reserved"
      /\ Commit(r, s)
      /\ seen' = [seen EXCEPT ![l][r] = s.epoch]
      /\ IF rest # {} THEN GoTo(l, "claim") /\ Visit(l, rest)
                      ELSE GoTo(l, "arm") /\ Visit(l, need[l])
      /\ UNCHANGED <<ledger, proc, status, swept, need, claim>>

\* The peer is no longer admitted, two tickets could serve, the queue is full (or no ID is
\* left, the cap on tickets), or the call failed.
ClaimFails(l) ==
  /\ pc[l] = "claim"
  /\ \/ CallFails(l)
     \/ \E r \in Resources :
          LET s == Current(r)
          IN  /\ IsNext(l, r)
              /\ \/ ~IsParticipant(s, OwnerOf[l])
                 \/ Cardinality(Claimable(s, OwnerOf[l])) > 1
                 \/ /\ Claimable(s, OwnerOf[l]) = {}
                    /\ QueueFull(s) \/ ~\E t \in Requests : FreshId(t)
  /\ Unwind(l, {})
  /\ UNCHANGED <<storeVars, need, claim, seen>>

\* The deadline passes, the caller aborts, or the ticket was revoked.  (The cancel_request
\* that waitForGrant itself sends on a timeout is the one of "cancel".)
WaitFails(l) ==
  /\ pc[l] = "wait"
  /\ Unwind(l, {})
  /\ UNCHANGED <<storeVars, need, claim, seen>>

\* beforeSpawn: the reservation still stands, under the policy it was granted by.
Armable(s, l, r) ==
  LET t == claim[l][r]
  IN  /\ s.tickets[t].owner = OwnerOf[l]
      /\ seen[l][r] = s.epoch
      /\ s.tickets[t].epoch = s.epoch
      /\ s.tickets[t].state \notin {"stale", "expired", "ended", "cancelled"}
      /\ IsParticipant(s, OwnerOf[l])
      /\ s.holder.request = t
      /\ s.holder.state = "reserved"
      /\ IsAlive(OwnerOf[l])

BeforeSpawn(l, r) ==
  LET s == Current(r)
      rest == left[l] \ {r}
  IN  /\ pc[l] = "arm"
      /\ CanCall(l)
      /\ IsNext(l, r)
      /\ Located(r, claim[l][r])
      /\ Armable(s, l, r)
      /\ Commit(r, Start(s, l))
      /\ \E ok \in Replies :
           IF ok THEN Visit(l, rest) /\ GoTo(l, IF rest = {} THEN "commit" ELSE "arm")
                 ELSE Unwind(l, need[l] \ left[l])
      /\ UNCHANGED <<ledger, proc, status, swept, need, claim, seen>>

\* The reservation lapsed or was revoked, the wait was aborted, or the call failed.
ArmFails(l) ==
  /\ pc[l] = "arm"
  /\ Unwind(l, need[l] \ left[l])
  /\ UNCHANGED <<storeVars, need, claim, seen>>

\* Mutant of Admissible: the requirements are not evaluated again at admission.
AdmissibleAsSurveyed(l) == \A r \in need[l] : Holds(Current(r), l)

\* beginLaunch, under the namespace lock that also serialises set_controller: every
\* resource that governs the command now is one this launch armed.
Admissible(l) ==
  \A r \in Resources :
    LET s == Current(r)
    IN  /\ ~SurveyRefuses(s, l)
        /\ Governs(s, l) => /\ r \in need[l]
                            /\ s.holder.state = "starting"
                            /\ Holds(s, l)

\* Entries whose process is proven gone are dropped when another is added.
Retained == {k \in Admitted : ~(ledger[k] = "published" /\ k \in Gone)}

BeginLaunch(l) ==
  /\ pc[l] = "commit"
  /\ CanCall(l)
  /\ Admissible(l)
  /\ Cardinality(Retained) < MaxLaunches
  /\ res' = [r \in Resources |-> Current(r)]
  /\ ledger' = [k \in Launches |->
       IF k = l THEN "admitted" ELSE IF k \in Retained THEN ledger[k] ELSE "absent"]
  /\ \E ok \in Replies :
       IF ok THEN GoTo(l, "admitted") /\ Visit(l, {}) ELSE Unwind(l, need[l])
  /\ UNCHANGED <<proc, status, swept, need, claim, seen>>

BeginLaunchFails(l) ==
  /\ pc[l] = "commit"
  /\ CallFails(l) \/ ~Admissible(l) \/ Cardinality(Retained) >= MaxLaunches
  /\ Unwind(l, need[l])
  /\ UNCHANGED <<storeVars, need, claim, seen>>

-----------------------------------------------------------------------------
(* Undoing: confirmSpawnFailure for what was armed, then cancel_request for   *)
(* what was claimed (the catch block) or finishLaunch(failedBeforeSpawn)      *)
(* (failed()).  Every call is attempted and no error stops the others.        *)

SpawnFailed(s) == Close(s, s.holder.request, "released")

ConfirmSpawnFailure(l, r) ==
  LET s == Opened(r)
  IN  /\ pc[l] \in {"unwind", "abort"}
      /\ r \in left[l]
      /\ CanCall(l)
      /\ IF Holds(s, l) /\ s.holder.state = "starting"
           THEN Commit(r, SpawnFailed(s))
           ELSE UNCHANGED res
      /\ Visit(l, left[l] \ {r})
      /\ UNCHANGED <<ledger, proc, status, swept, pc, need, claim, seen>>

\* Mutant of UnwindDone: the error path forgets the tickets it claimed.
UnwindForgets(l) ==
  /\ pc[l] = "unwind"
  /\ left[l] = {}
  /\ Forget(l)
  /\ UNCHANGED storeVars

UnwindDone(l) ==
  /\ pc[l] = "unwind"
  /\ left[l] = {}
  /\ GoTo(l, "cancel")
  /\ Visit(l, {r \in Resources : claim[l][r] # None})
  /\ UNCHANGED <<storeVars, need, claim, seen>>

CancelClaim(l, r) ==
  LET t == claim[l][r]
  IN  /\ pc[l] = "cancel"
      /\ r \in left[l]
      /\ CanCall(l)
      /\ CancelRequest(OwnerOf[l], r, t)
      /\ Visit(l, left[l] \ {r})
      /\ UNCHANGED <<ledger, proc, status, swept, pc, need, claim, seen>>

\* The ticket is gone, closed or started, or the call failed.
CancelClaimSkipped(l, r) ==
  LET t == claim[l][r]
  IN  /\ pc[l] = "cancel"
      /\ r \in left[l]
      /\ CallFails(l) \/ ~Located(r, t) \/ ~Cancellable(Current(r), t)
                      \/ Current(r).tickets[t].owner # OwnerOf[l]
      /\ Visit(l, left[l] \ {r})
      /\ UNCHANGED <<storeVars, pc, need, claim, seen>>

\* A confirmation whose call failed is not repeated.
ConfirmSkipped(l, r) ==
  /\ pc[l] \in {"unwind", "abort"}
  /\ r \in left[l]
  /\ CallFails(l)
  /\ Visit(l, left[l] \ {r})
  /\ UNCHANGED <<storeVars, pc, need, claim, seen>>

CancelDone(l) ==
  /\ pc[l] = "cancel"
  /\ left[l] = {}
  /\ Forget(l)
  /\ UNCHANGED storeVars

\* finishLaunch removes the entry and reconciles every resource, in order: a failing
\* store call leaves the others to the next operation on them.
RemoveLaunch(l) ==
  LET blocking == Blocking \ {l}
  IN  /\ ledger' = [ledger EXCEPT ![l] = "absent"]
      /\ \E n \in IF "loss" \in Faults THEN 0..NumResources ELSE {NumResources} :
           res' = [r \in Resources |->
             IF r <= n THEN Reconciled(Opened(r), blocking, Gone) ELSE res[r]]

AbortDone(l) ==
  /\ pc[l] = "abort"
  /\ left[l] = {}
  /\ \/ CanCall(l) /\ ledger[l] # "published" /\ RemoveLaunch(l)
     \/ CallFails(l) /\ UNCHANGED <<res, ledger>>
  /\ Forget(l)
  /\ UNCHANGED <<proc, status, swept>>

-----------------------------------------------------------------------------
(* CoordinatedCommandLaunch *)

Spawn(l) ==
  /\ pc[l] = "admitted"
  /\ GoTo(l, "publish")
  /\ proc' = [proc EXCEPT ![l] = "alive"]
  /\ UNCHANGED <<res, ledger, status, swept, need, left, claim, seen>>

\* spawn() throws or emits "error" before "spawn", or the caller aborts first.
SpawnFails(l) ==
  /\ pc[l] = "admitted"
  /\ GoTo(l, "abort")
  /\ Visit(l, need[l])
  /\ UNCHANGED <<storeVars, need, claim, seen>>

PublishLaunch(l) ==
  /\ pc[l] = "publish"
  /\ CanCall(l)
  /\ ledger[l] # "absent"
  /\ ledger' = [ledger EXCEPT ![l] = "published"]
  /\ \E ok \in Replies :
       IF ~ok THEN GoTo(l, "recovery") /\ Visit(l, {})
              ELSE /\ GoTo(l, IF need[l] = {} THEN "drain" ELSE "record")
                   /\ Visit(l, need[l])
  /\ UNCHANGED <<res, proc, status, swept, need, claim, seen>>

RecordSpawn(l, r) ==
  LET s == Opened(r)
      rest == left[l] \ {r}
  IN  /\ pc[l] = "record"
      /\ CanCall(l)
      /\ IsNext(l, r)
      /\ Holds(s, l)
      /\ s.holder.state = "starting"
      /\ Commit(r, Run(s, l))
      /\ \E ok \in Replies :
           IF ~ok THEN GoTo(l, "recovery") /\ Visit(l, {})
           ELSE IF rest = {} THEN GoTo(l, "drain") /\ Visit(l, need[l])
           ELSE GoTo(l, "record") /\ Visit(l, rest)
      /\ UNCHANGED <<ledger, proc, status, swept, need, claim, seen>>

\* The process cannot be identified or recorded: the launch is reported for recovery and
\* drain() gives up; its reservations and its ledger entry stay.
PublicationFails(l) ==
  /\ \/ pc[l] = "publish" /\ (CallFails(l) \/ ledger[l] = "absent")
     \/ pc[l] = "record" /\ (CallFails(l) \/ \E r \in Resources : IsNext(l, r) /\ ~Holds(Opened(r), l))
  /\ GoTo(l, "recovery")
  /\ Visit(l, {})
  /\ UNCHANGED <<storeVars, need, claim, seen>>

\* Mutant of Completable: a command counts as complete once it was started.
CompletableAlways(s, l) == Holds(s, l)

\* complete: the recorded process tree is proven gone.
Completable(s, l) ==
  /\ Holds(s, l)
  /\ s.holder.process # None
  /\ s.holder.process \in Gone

Complete(l, r) ==
  LET s == Opened(r)
  IN  /\ pc[l] \in {"drain", "drained"}
      /\ r \in left[l]
      /\ CanCall(l)
      /\ Completable(s, l)
      /\ Commit(r, Close(s, s.holder.request, "completed"))
      /\ Visit(l, left[l] \ {r})
      /\ UNCHANGED <<ledger, proc, status, swept, pc, need, claim, seen>>

\* The reservation is no longer there, or any error but RESOURCE_BUSY.
CompleteGivenUp(l, r) ==
  LET s == Opened(r)
  IN  /\ pc[l] \in {"drain", "drained"}
      /\ r \in left[l]
      /\ \/ CallFails(l)
         \/ ~Holds(s, l)
         \/ s.holder.process = None
         \/ s.holder.process \in Unidentified
      /\ Visit(l, left[l] \ {r})
      /\ UNCHANGED <<storeVars, pc, need, claim, seen>>

\* Mutant of FinishLaunch: only an entry without a process can be removed.
FinishUnpublished(l) ==
  /\ pc[l] = "drain"
  /\ CanCall(l)
  /\ ledger[l] # "published"
  /\ IF ledger[l] = "absent" THEN UNCHANGED <<res, ledger>> ELSE RemoveLaunch(l)
  /\ GoTo(l, "drained")
  /\ UNCHANGED <<proc, status, swept, need, left, claim, seen>>

FinishLaunch(l) ==
  /\ pc[l] = "drain"
  /\ CanCall(l)
  /\ IF ledger[l] = "absent" THEN UNCHANGED <<res, ledger>>
     ELSE ledger[l] = "published" /\ l \in Gone /\ RemoveLaunch(l)
  /\ GoTo(l, "drained")
  /\ UNCHANGED <<proc, status, swept, need, left, claim, seen>>

FinishLaunchGivenUp(l) ==
  /\ pc[l] = "drain"
  /\ CallFails(l) \/ ledger[l] = "admitted" \/ l \in Unidentified
  /\ GoTo(l, "drained")
  /\ UNCHANGED <<storeVars, need, left, claim, seen>>

\* The operating system process of a root dies, with the runs it hosts.  The command
\* trees it spawned are process groups of their own and live on.
Crash(p) ==
  LET hosted == {q \in Principals : RootOf[q] = p}
      lost == {l \in Launches : OwnerOf[l] \in hosted /\ pc[l] # "refused"}
  IN  /\ "crash" \in Faults
      /\ p \in hosted
      /\ status[p] # "dead"
      /\ status' = [q \in Principals |-> IF q \in hosted THEN "dead" ELSE status[q]]
      /\ pc' = [l \in Launches |-> IF l \in lost THEN "crashed" ELSE pc[l]]
      /\ left' = [l \in Launches |-> IF l \in lost THEN {} ELSE left[l]]
      /\ claim' = [l \in Launches |-> IF l \in lost THEN NoClaims ELSE claim[l]]
      /\ seen' = [l \in Launches |-> IF l \in lost THEN NoEpochs ELSE seen[l]]
      /\ UNCHANGED <<res, ledger, proc, swept, need>>

-----------------------------------------------------------------------------
Prepare(l) ==
  \/ SurveyFails(l) \/ ClaimFails(l) \/ WaitFails(l) \/ ArmFails(l)
  \/ BeginLaunch(l) \/ BeginLaunchFails(l)
  \/ \E r \in Resources :
       Survey(l, r) \/ AwaitGrant(l, r) \/ BeforeSpawn(l, r) \/ \E t \in Requests : Claim(l, r, t)

Undo(l) ==
  \/ UnwindDone(l) \/ CancelDone(l) \/ AbortDone(l)
  \/ \E r \in Resources :
       \/ ConfirmSpawnFailure(l, r) \/ ConfirmSkipped(l, r)
       \/ CancelClaim(l, r) \/ CancelClaimSkipped(l, r)

Launch(l) ==
  \/ Spawn(l) \/ SpawnFails(l)
  \/ PublishLaunch(l) \/ PublicationFails(l)
  \/ FinishLaunch(l) \/ FinishLaunchGivenUp(l)
  \/ \E r \in Resources : RecordSpawn(l, r) \/ Complete(l, r) \/ CompleteGivenUp(l, r)

Gate(l) == Prepare(l) \/ Undo(l) \/ Launch(l)

Next ==
  \/ \E p \in Principals : ToolCall(p) /\ UNCHANGED gateVars
  \/ \E p \in Clients : ManualCall(p) /\ UNCHANGED gateVars
  \/ \E p \in Principals : Ending(p) /\ UNCHANGED gateVars
  \/ \E p \in Principals : Crash(p)
  \/ Environment /\ UNCHANGED gateVars
  \/ \E l \in Launches : Gate(l)

Spec == Init /\ [][Next]_vars

\* A gate whose process lives keeps going: every wait of prepareCommandCoordination has a
\* deadline (a timer, the lock wait of two seconds), the promise chain of a launch runs on,
\* and drain() re-arms its 100 ms timer until nothing is pending.  Nothing is assumed of
\* controllers, tool calls, policies or the length of a command.
FairSpec == Spec /\ \A l \in Launches : WF_vars(Gate(l))
-----------------------------------------------------------------------------
(* Properties. *)

\* Every variable has its type.
TypeOK == StoreTypeOK /\ GateTypeOK

\* The holder and its ticket agree: the ticket of the holder exists, is in the holder's
\* state, and no other ticket is reserved, starting or running.  reconcile, complete and
\* confirmSpawnFailure look the ticket up and throw, for ever, if it is missing
\* (ResourceCoordinator.ts ticket()); a ticket left active without its holder can
\* neither be cancelled nor used.
SlotAgreement == \A r \in Resources : SlotAgrees(res[r])

\* "Capacity-one": two commands that were both admitted for a resource never have live
\* process trees at the same time, whatever is cancelled, revoked, crashes or is lost.
CapacityOne ==
  \A r \in Resources, l, k \in Launches :
    (l # k /\ proc[l] = "alive" /\ proc[k] = "alive") => ~(r \in need[l] /\ r \in need[k])

\* A command admitted for a resource occupies it from before its spawn until its process
\* tree is gone; no timeout, cancellation, policy change or crash takes it away.
HoldsUntilGone ==
  \A r \in Resources, l \in Launches :
    (r \in need[l] /\ (proc[l] = "alive" \/ pc[l] = "admitted")) => Holds(res[r], l)

\* Policy installation and admission never miss each other: a command that runs, or may
\* still be spawned, in a session a policy governs either holds the resource or is a
\* blocker the policy waits for.
NoUngovernedCommand ==
  \A r \in Resources, l \in Launches :
    ((proc[l] = "alive" \/ pc[l] = "admitted") /\ Governs(res[r], l)) =>
      l \in res[r].blockers \/ Holds(res[r], l)

\* A grant waits for the commands admitted before its policy: while such blockers remain,
\* the resource has no reservation, and a started holder was granted under an older epoch
\* (a command adopted by adoptRunning was not granted and has no spawner).
GrantsFollowBlockers ==
  \A r \in Resources :
    LET s == res[r]
    IN  (s.blockers # {} /\ s.holder.state # "none") =>
          /\ s.holder.state \in Started
          /\ s.holder.spawner # None => s.tickets[s.holder.request].epoch < s.epoch

\* A ticket that ended never authorises anything again: it stays closed until the sweep
\* of day-old tickets forgets it.
ClosedStaysClosed ==
  [][\A r \in Resources, t \in Requests :
       (res[r].tickets[t].state \in Closed /\ ~res[r].tickets[t].aged)
         => res'[r].tickets[t].state \in Closed]_vars

\* Every way out of the gate cleans up after itself: when no call is lost and no process
\* dies, a launch that was refused or has drained leaves neither a ledger entry nor an
\* active ticket behind. (That is so with one resource, as in the run. With two, a client may
\* give its own ticket the ID of the launch's ticket at the other resource: the launch can then
\* not cancel its ticket, because the ID is found twice.)
NothingLeaks ==
  \A l \in Launches :
    (pc[l] = "refused" \/ (pc[l] = "drained" /\ left[l] = {})) =>
      /\ ledger[l] = "absent"
      /\ \A r \in Resources : \A t \in InState(res[r], Active) : res[r].tickets[t].launch # l

\* Commands that need several resources never wait for each other in a circle, through refusals,
\* crashes and lost calls: one whose ticket is queued for a resource holds no resource that comes
\* later in the order in which all of them are visited.  (A reservation that the session made by
\* hand is no command's until one is assigned to it.)
WaitsInOrder ==
  \A r, q \in Resources : \A t \in InState(res[r], {"queued"}) :
    LET l == res[r].tickets[t].launch
    IN  l # None /\ HolderLaunch(res[q]) = l => q <= r

\* Capacity comes back by itself: once the tree of a published command is gone, its
\* resources and its ledger entry are freed without any other session doing anything.
FreedAfterExit ==
  \A l \in Launches :
    (pc[l] \in {"publish", "record", "drain"} /\ proc[l] = "gone")
      ~> (ledger[l] = "absent" /\ \A r \in Resources : ~Holds(res[r], l))

\* "Ending an agent run cancels its queued tickets and unused reservations"
\* (src/docs/peer-resource-coordination.md:139): once the coordinator of a run is closed
\* and the run prepares no command any more, no record holds an unused ticket of it.
EndedRunHoldsNothingUnused ==
  \A p \in Principals :
    (status[p] = "closed" /\ \A l \in Launches : OwnerOf[l] = p => pc[l] \notin Preparing \union Undoing)
      => \A r \in Resources : \A t \in InState(res[r], Unused) : res[r].tickets[t].owner # p

-----------------------------------------------------------------------------
(* The gate implements the abstract slots: a resource is occupied from beforeSpawn on by  *)
(* the launch that armed it, and a launch uses what its survey found.  A tree whose group *)
(* ID was reused is gone.                                                                 *)

Slot == INSTANCE ExclusiveSlot WITH
  Slots <- Resources,
  Jobs <- Launches,
  occupant <- [r \in Resources |->
    IF res[r].holder.state \in Started THEN res[r].holder.spawner ELSE None],
  life <- [l \in Launches |-> IF proc[l] = "reused" THEN "gone" ELSE proc[l]],
  uses <- [l \in Launches |-> IF proc[l] = "none" THEN {} ELSE need[l]]

\* Every behaviour of the gate is one of the abstract slots.
ImplementsSlot == Slot!SlotSpec
=============================================================================
