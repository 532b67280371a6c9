---------------------------- MODULE ResourceState ----------------------------
(***************************************************************************)
(* The persistent record of one coordinated resource, as                   *)
(* src/src/session/peers/ResourceCoordinator.ts keeps it in                *)
(* <sha256(resource)>.json, and the pure edits its operations make to it.  *)
(*                                                                         *)
(* A transaction of the code reads the record, drops the tickets that aged *)
(* out, runs one operation and writes the result back in one atomic        *)
(* replacement, all under the file lock of that resource; an operation     *)
(* that throws writes nothing.  Here an operation is an operator from the  *)
(* record it read to the record it writes.                                 *)
(*                                                                         *)
(* Resource keys are strings handled in sorted order; they are numbered    *)
(* 1..NumResources here.  A peer ID is a hash of the instance and the run  *)
(* (PeerScope.ts), so a peer and an exact principal are the same thing;    *)
(* RootOf gives a run the peer it is enrolled through.                     *)
(***************************************************************************)
EXTENDS Naturals, FiniteSets

CONSTANTS
  NumResources,  \* how many resource keys exist
  Principals,    \* exact process or run incarnations
  RootOf,        \* Principals -> Principals: a run's enrollmentPeerId, itself for a root
  Requests,      \* ticket IDs (the per-resource cap of 4096 tickets is the size of this set)
  Launches,      \* launch IDs, each minted by one gate for one command
  OwnerOf,       \* Launches -> Principals: who prepares the launch
  BuildLaunches, \* the launches whose command isBuildCommand recognises
  MaxQueued,     \* at most this many queued tickets per resource (256 in the code)
  None           \* "no principal", "no ticket", "no launch"

Resources == 1..NumResources

ASSUME ConstantsAssumption ==
  /\ NumResources \in Nat
  /\ RootOf \in [Principals -> Principals]
  /\ OwnerOf \in [Launches -> Principals]
  /\ BuildLaunches \subseteq Launches
  /\ MaxQueued \in Nat
  /\ None \notin Principals \union Requests \union Launches

-----------------------------------------------------------------------------
(* Types.  "absent" stands for a ticket ID the record has no ticket for, and *)
(* a holder in state "none" for `holder: null`.                              *)

Unused == {"queued", "reserved"}
Started == {"starting", "running"}
Active == Unused \union Started
Closed == {"released", "cancelled", "expired", "stale", "ended", "completed"}

\* `aged` says that the ticket was created more than 24 hours ago.
Ticket ==
  [state: Active \union Closed \union {"absent"}, owner: Principals \union {None},
   epoch: Nat, launch: Launches \union {None}, aged: BOOLEAN]

\* `lapsed` says that expiresAt has passed; `process` is the launch whose process tree the
\* recorded process identity names.  A reservation ID reaches a gate through beforeSpawn,
\* once per launch and resource: `spawner`, the launch it was returned to, identifies it.
Holder ==
  [state: Started \union {"none", "reserved"}, request: Requests \union {None},
   lapsed: BOOLEAN, spawner: Launches \union {None}, process: Launches \union {None}]

Policy ==
  [controller: Principals, participants: SUBSET Principals, profile: {"strict", "build"}]

ResourceState ==
  [epoch: Nat, controller: Principals \union {None}, participants: SUBSET Principals,
   enrolled: SUBSET Principals, profile: {"strict", "build"},
   tickets: [Requests -> Ticket], holder: Holder, blockers: SUBSET Launches]

NoTicket == [state |-> "absent", owner |-> None, epoch |-> 0, launch |-> None, aged |-> FALSE]
NoHolder ==
  [state |-> "none", request |-> None, lapsed |-> FALSE, spawner |-> None, process |-> None]

Unconfigured ==
  [epoch |-> 0, controller |-> None, participants |-> {}, enrolled |-> {},
   profile |-> "strict", tickets |-> [t \in Requests |-> NoTicket],
   holder |-> NoHolder, blockers |-> {}]

-----------------------------------------------------------------------------
(* Questions the operations ask of the record. *)

\* A run counts as enrolled through its own peer or through its root's.
IsEnrolled(p, peers) == p \in peers \/ RootOf[p] \in peers

IsParticipant(s, p) ==
  /\ s.controller # None
  /\ IsEnrolled(p, s.participants \union {s.controller})

InState(s, states) == {t \in Requests : s.tickets[t].state \in states}

\* The tickets a command of p may still be assigned to.
Claimable(s, p) ==
  {t \in InState(s, Unused) : s.tickets[t].owner = p /\ s.tickets[t].launch = None}

QueueFull(s) == Cardinality(InState(s, {"queued"})) >= MaxQueued

\* A launch the profile of the policy applies to.
InProfile(s, l) == s.profile = "strict" \/ l \in BuildLaunches

\* Once enrolled, always governed: `enrolled` only grows.
Governs(s, l) ==
  /\ s.controller # None
  /\ IsEnrolled(OwnerOf[l], s.enrolled)
  /\ InProfile(s, l)

\* The launch of the holder's ticket; None for an adopted command or no holder.
HolderLaunch(s) ==
  IF s.holder.request \in Requests THEN s.tickets[s.holder.request].launch ELSE None

\* The holder is the reservation that launch l armed by beforeSpawn.
Holds(s, l) == s.holder.state \in Started /\ s.holder.spawner = l

\* The holder's ticket exists and is in the holder's state, and no other ticket is
\* reserved, starting or running.
SlotAgrees(s) ==
  /\ s.holder.state # "none" =>
       /\ s.holder.request \in Requests
       /\ s.tickets[s.holder.request].state = s.holder.state
  /\ \A t \in InState(s, {"reserved"} \union Started) :
       s.holder.state # "none" /\ s.holder.request = t

-----------------------------------------------------------------------------
(* Edits. *)

\* Mutant of Close: the holder becomes undefined where null is expected.
CloseUnset(s, t, outcome) ==
  [s EXCEPT !.tickets[t].state = outcome,
            !.holder = IF s.holder.request = t THEN None ELSE s.holder]

\* The ticket reaches a final state, and the resource is free if it held it.
Close(s, t, outcome) ==
  [s EXCEPT !.tickets[t].state = outcome,
            !.holder = IF s.holder.request = t THEN NoHolder ELSE s.holder]

\* Mutant of Purge: a started ticket is no longer exempt from the 24 hour sweep.
PurgeStarted(s) ==
  [s EXCEPT !.tickets = [t \in Requests |->
     IF s.tickets[t].aged /\ s.tickets[t].state \notin Unused
       THEN NoTicket ELSE s.tickets[t]]]

\* What every transaction does before its operation: closed tickets created more
\* than 24 hours ago disappear.
Purge(s) ==
  [s EXCEPT !.tickets = [t \in Requests |->
     IF s.tickets[t].aged /\ s.tickets[t].state \notin Active
       THEN NoTicket ELSE s.tickets[t]]]

NewTicket(s, p, state, l) ==
  [state |-> state, owner |-> p, epoch |-> s.epoch, launch |-> l, aged |-> FALSE]

\* reconcile, given the launches that still block and those whose tree is gone.
Reconciled(s, blocking, gone) ==
  LET cleared == [s EXCEPT !.blockers = @ \intersect blocking]
  IN  IF s.holder.state = "reserved" /\ s.holder.lapsed
        THEN Close(cleared, s.holder.request, "expired")
      ELSE IF s.holder.state = "running" /\ s.holder.process \in gone
        THEN Close(cleared, s.holder.request, "completed")
      ELSE cleared

Reserve(s, t) ==
  [s EXCEPT !.tickets[t].state = "reserved", !.tickets[t].epoch = s.epoch,
            !.holder = [state |-> "reserved", request |-> t, lapsed |-> FALSE,
                        spawner |-> None, process |-> None]]

\* set_controller: a new epoch; admitted commands of enrolled peers become blockers
\* unless they are the holder's; the unused reservation and the queued tickets of
\* peers no longer admitted go stale.
Install(s, policy, admitted) ==
  LET admissible == policy.participants \union {policy.controller}
      enrolled == s.enrolled \union admissible
      revoked == {t \in Requests :
        \/ s.holder.state = "reserved" /\ s.holder.request = t
        \/ /\ s.tickets[t].state = "queued"
           /\ ~IsEnrolled(s.tickets[t].owner, admissible)}
  IN  [s EXCEPT !.epoch = @ + 1, !.controller = policy.controller,
                !.participants = policy.participants, !.enrolled = enrolled,
                !.profile = policy.profile,
                !.blockers = @ \union {l \in admitted :
                   /\ l # HolderLaunch(s)
                   /\ IsEnrolled(OwnerOf[l], enrolled)
                   /\ policy.profile = "strict" \/ l \in BuildLaunches},
                !.tickets = [t \in Requests |->
                   IF t \in revoked THEN [s.tickets[t] EXCEPT !.state = "stale"]
                                    ELSE s.tickets[t]],
                !.holder = IF s.holder.state = "reserved" THEN NoHolder ELSE s.holder]

\* The reserved ticket's command is about to be spawned by launch l.
Start(s, l) ==
  [s EXCEPT !.holder.state = "starting", !.holder.spawner = l,
            !.tickets[s.holder.request].state = "starting"]

\* The started command's process tree is known: it is that of launch l.
Run(s, l) ==
  [s EXCEPT !.holder.state = "running", !.holder.process = l,
            !.tickets[s.holder.request].state = "running"]

\* A command that already runs takes the free resource under a new ticket t.
Adopt(s, p, t, l) ==
  [s EXCEPT !.tickets[t] = NewTicket(s, p, "running", None),
            !.holder = [state |-> "running", request |-> t, lapsed |-> TRUE,
                        spawner |-> None, process |-> l]]

\* Mutant of EndOwned: the started commands of the run lose their resource too.
EndOwnedStarted(s, p) ==
  LET ended == {t \in InState(s, Active) : s.tickets[t].owner = p}
  IN  [s EXCEPT !.tickets = [t \in Requests |->
                  IF t \in ended THEN [s.tickets[t] EXCEPT !.state = "ended"]
                                 ELSE s.tickets[t]],
                !.holder = IF s.holder.request \in ended THEN NoHolder ELSE s.holder]

\* Every unused ticket of p ends, and frees the resource if it is the reservation.
EndOwned(s, p) ==
  LET ended == {t \in InState(s, Unused) : s.tickets[t].owner = p}
  IN  [s EXCEPT !.tickets = [t \in Requests |->
                  IF t \in ended THEN [s.tickets[t] EXCEPT !.state = "ended"]
                                 ELSE s.tickets[t]],
                !.holder = IF s.holder.request \in ended THEN NoHolder ELSE s.holder]
=============================================================================
