------------------------- MODULE ResourceCoordinator -------------------------
(***************************************************************************)
(* The shared store of src/src/session/peers/ResourceCoordinator.ts and    *)
(* the operations that principals invoke on it directly: the tool calls of *)
(* coordinate(), adoptRunning(), endRun() and close(), together with the   *)
(* environment they read (process trees, the clock, crashes).  What the    *)
(* command gate invokes on behalf of a launch is in CommandGate.tla.       *)
(*                                                                         *)
(* Every operation on a resource is one atomic step: the code runs it      *)
(* under that resource's file lock and writes the record once.             *)
(***************************************************************************)
EXTENDS ResourceState

CONSTANTS
  Controllers,  \* principals with the resource.control capability
  Clients,      \* principals that also manage tickets by hand
  Policies,     \* the policies set_controller may install
  MaxEpoch,     \* bound: set_controller stops at this epoch
  Faults        \* which of FaultKinds the environment may produce

\* crash: an OS process dies; end: a run or session is closed in order; day: 24 hours
\* pass; reuse: a process group ID is reused by a stranger; loss: a store call fails,
\* its reply is lost, or the system cannot answer (no descriptor, no /proc record);
\* adopt: adoptRunning is used.
FaultKinds == {"crash", "end", "day", "reuse", "loss", "adopt"}

ASSUME StoreAssumption ==
  /\ Controllers \subseteq Principals
  /\ Clients \subseteq Principals
  /\ Policies \subseteq Policy
  /\ MaxEpoch \in Nat
  /\ Faults \subseteq FaultKinds

VARIABLES
  res,     \* the record of each resource
  ledger,  \* launches.json: "absent", "admitted" or "published" (its process is recorded)
  proc,    \* the process tree of each launch
  status,  \* each principal: "live", "ending", "closed" (coordinator closed) or "dead"
  swept    \* the resources endRun() of a principal has already visited

storeVars == <<res, ledger, proc, status, swept>>

\* "reused": the tree is gone, but its process group ID now names a stranger's group.
ProcessStates == {"none", "alive", "gone", "reused"}

StoreTypeOK ==
  /\ res \in [Resources -> ResourceState]
  /\ ledger \in [Launches -> {"absent", "admitted", "published"}]
  /\ proc \in [Launches -> ProcessStates]
  /\ status \in [Principals -> {"live", "ending", "closed", "dead"}]
  /\ swept \in [Principals -> SUBSET Resources]

StoreInit ==
  /\ res = [r \in Resources |-> Unconfigured]
  /\ ledger = [l \in Launches |-> "absent"]
  /\ proc = [l \in Launches |-> "none"]
  /\ status = [p \in Principals |-> "live"]
  /\ swept = [p \in Principals |-> {}]

-----------------------------------------------------------------------------
(* Reading the environment. *)

\* assertOpen
Open(p) == status[p] \in {"live", "ending"}

\* isPrincipalAlive: the incarnation is discoverable, available and reachable, and so is
\* the session that hosts it.
IsAlive(p) == status[p] = "live" /\ status[RootOf[p]] = "live"

\* probePeerProcess answers "gone" only for a tree none of whose group exists; a reused
\* group ID answers "unknown".
Gone == {l \in Launches : proc[l] = "gone"}
Unidentified == {l \in Launches : proc[l] = "reused"}

Admitted == {l \in Launches : ledger[l] # "absent"}

\* Mutant of Blocking: an entry with no recorded process does not block.
BlockingPublished == {l \in Launches : ledger[l] = "published" /\ l \notin Gone}

\* A blocker is kept while its launch is in the ledger and its process is unknown to
\* the ledger or not proven gone.
Blocking == {l \in Admitted : ~(ledger[l] = "published" /\ l \in Gone)}

\* The record an operation without reconcile starts from, and one with it.
Opened(r) == Purge(res[r])
Current(r) == Reconciled(Purge(res[r]), Blocking, Gone)

Commit(r, s) == res' = [res EXCEPT ![r] = s]

\* resourceForTicket: the ticket ID must exist in exactly one resource.
Located(r, t) ==
  \A q \in Resources : (Opened(q).tickets[t].state # "absent") <=> q = r

-----------------------------------------------------------------------------
(* coordinate().  A call that throws, or that finds its request already done, *)
(* changes nothing beyond what Status does.                                    *)

\* status, and the reconcile that every other successful call performs as well.
Status(p, r) ==
  /\ Open(p)
  /\ Commit(r, Current(r))
  /\ UNCHANGED <<ledger, proc, status, swept>>

\* A transaction opened only to look for a ticket or a reservation drops aged tickets.
Lookup(p, r) ==
  /\ Open(p)
  /\ Commit(r, Opened(r))
  /\ UNCHANGED <<ledger, proc, status, swept>>

SetController(p, r, policy) ==
  /\ Open(p)
  /\ p \in Controllers
  /\ Current(r).epoch < MaxEpoch
  /\ Commit(r, Install(Current(r), policy, Admitted))
  /\ UNCHANGED <<ledger, proc, status, swept>>

Request(p, r, t) ==
  LET s == Current(r)
  IN  /\ Open(p)
      /\ IsParticipant(s, p)
      /\ s.tickets[t].state = "absent"
      /\ ~QueueFull(s)
      /\ Commit(r, [s EXCEPT !.tickets[t] = NewTicket(s, p, "queued", None)])
      /\ UNCHANGED <<ledger, proc, status, swept>>

\* Mutant of Grantable: earlier commands no longer hold back a grant.
GrantableDespiteBlockers(s, p, t) ==
  /\ s.controller = p
  /\ s.tickets[t].state = "queued"
  /\ IsEnrolled(s.tickets[t].owner, s.participants \union {p})
  /\ s.holder.state = "none"

\* Mutant of Grantable: a started holder is overlooked.
GrantableOverHolder(s, p, t) ==
  /\ s.controller = p
  /\ s.tickets[t].state = "queued"
  /\ IsEnrolled(s.tickets[t].owner, s.participants \union {p})
  /\ s.blockers = {}
  /\ s.holder.state # "reserved"

\* Mutant of Grantable: a ticket whose reservation expired can be granted again.
GrantableAgain(s, p, t) ==
  /\ s.controller = p
  /\ s.tickets[t].state \in {"queued", "expired"}
  /\ IsEnrolled(s.tickets[t].owner, s.participants \union {p})
  /\ s.blockers = {}
  /\ s.holder.state = "none"

Grantable(s, p, t) ==
  /\ s.controller = p
  /\ s.tickets[t].state = "queued"
  /\ IsEnrolled(s.tickets[t].owner, s.participants \union {p})
  /\ s.blockers = {}
  /\ s.holder.state = "none"

Grant(p, r, t) ==
  LET s == Current(r)
  IN  /\ Open(p)
      /\ Located(r, t)
      /\ p \in Controllers
      /\ IsAlive(p)
      /\ Grantable(s, p, t)
      /\ IsAlive(s.tickets[t].owner)
      /\ Commit(r, Reserve(s, t))
      /\ UNCHANGED <<ledger, proc, status, swept>>

Release(p, r, t) ==
  LET s == Current(r)
  IN  /\ Open(p)
      /\ Located(r, t)
      /\ s.tickets[t].owner = p
      /\ s.tickets[t].state = "reserved"
      /\ Commit(r, Close(s, t, "released"))
      /\ UNCHANGED <<ledger, proc, status, swept>>

Cancellable(s, t) == s.tickets[t].state \in Unused \union {"expired", "stale", "cancelled"}

CancelRequest(p, r, t) ==
  LET s == Current(r)
  IN  /\ Open(p)
      /\ Located(r, t)
      /\ s.tickets[t].owner = p
      /\ Cancellable(s, t)
      /\ Commit(r, Close(s, t, "cancelled"))

\* cancel_request as a tool call.
Cancel(p, r, t) == CancelRequest(p, r, t) /\ UNCHANGED <<ledger, proc, status, swept>>

AdoptRunning(p, r, t, l) ==
  LET s == Current(r)
  IN  /\ "adopt" \in Faults
      /\ Open(p)
      /\ OwnerOf[l] = p
      /\ proc[l] = "alive"
      /\ IsParticipant(s, p)
      /\ s.holder.state = "none"
      /\ \A q \in Resources : res[q].tickets[t].state = "absent"
      /\ Commit(r, Adopt(s, p, t, l))
      /\ UNCHANGED <<ledger, proc, status, swept>>

-----------------------------------------------------------------------------
(* The end of a run or session: the runs it hosts are closed first, then     *)
(* endRun() visits each resource in order, then close().  A failing store    *)
(* call abandons the resources not yet visited.                              *)

BeginEnd(p) ==
  /\ "end" \in Faults
  /\ status[p] = "live"
  /\ status' = [status EXCEPT ![p] = "ending"]
  /\ UNCHANGED <<res, ledger, proc, swept>>

EndRun(p, r) ==
  /\ status[p] = "ending"
  /\ \A q \in Principals \ {p} : RootOf[q] = p => status[q] \in {"closed", "dead"}
  /\ r \notin swept[p]
  /\ \A q \in Resources : q < r => q \in swept[p]
  /\ Commit(r, EndOwned(Opened(r), p))
  /\ swept' = [swept EXCEPT ![p] = @ \union {r}]
  /\ UNCHANGED <<ledger, proc, status>>

EndRunFails(p) ==
  /\ "loss" \in Faults
  /\ status[p] = "ending"
  /\ swept' = [swept EXCEPT ![p] = Resources]
  /\ UNCHANGED <<res, ledger, proc, status>>

CloseCoordinator(p) ==
  /\ status[p] = "ending"
  /\ swept[p] = Resources
  /\ status' = [status EXCEPT ![p] = "closed"]
  /\ UNCHANGED <<res, ledger, proc, swept>>

-----------------------------------------------------------------------------
(* The clock and the process table. *)

\* More than 30 seconds pass since the grant.
Lapse(r) ==
  /\ res[r].holder.state = "reserved"
  /\ ~res[r].holder.lapsed
  /\ res' = [res EXCEPT ![r].holder.lapsed = TRUE]
  /\ UNCHANGED <<ledger, proc, status, swept>>

\* More than 24 hours pass.
DayPasses ==
  /\ "day" \in Faults
  /\ res' = [r \in Resources |->
       [res[r] EXCEPT !.tickets = [t \in Requests |->
                        IF res[r].tickets[t].state = "absent" THEN NoTicket
                        ELSE [res[r].tickets[t] EXCEPT !.aged = TRUE]],
                      !.holder = IF res[r].holder.state = "reserved"
                                   THEN [res[r].holder EXCEPT !.lapsed = TRUE]
                                   ELSE res[r].holder]]
  /\ UNCHANGED <<ledger, proc, status, swept>>

ProcessExits(l) ==
  /\ proc[l] = "alive"
  /\ proc' = [proc EXCEPT ![l] = "gone"]
  /\ UNCHANGED <<res, ledger, status, swept>>

GroupIdReused(l) ==
  /\ "reuse" \in Faults
  /\ proc[l] = "gone"
  /\ proc' = [proc EXCEPT ![l] = "reused"]
  /\ UNCHANGED <<res, ledger, status, swept>>

StrangerExits(l) ==
  /\ proc[l] = "reused"
  /\ proc' = [proc EXCEPT ![l] = "gone"]
  /\ UNCHANGED <<res, ledger, status, swept>>

-----------------------------------------------------------------------------
\* Tool calls open to every principal; the last two need the resource.control capability.
ToolCall(p) ==
  \E r \in Resources :
    \/ Status(p, r)
    \/ Lookup(p, r)
    \/ \E policy \in Policies : SetController(p, r, policy)
    \/ \E t \in Requests : Grant(p, r, t)

\* Tool calls of a principal that manages tickets by hand, beside its commands.
ManualCall(p) ==
  \E r \in Resources, t \in Requests :
    \/ Request(p, r, t)
    \/ Release(p, r, t)
    \/ Cancel(p, r, t)
    \/ \E l \in Launches : AdoptRunning(p, r, t, l)

Ending(p) ==
  \/ BeginEnd(p)
  \/ \E r \in Resources : EndRun(p, r)
  \/ EndRunFails(p)
  \/ CloseCoordinator(p)

Environment ==
  \/ \E r \in Resources : Lapse(r)
  \/ DayPasses
  \/ \E l \in Launches : ProcessExits(l) \/ GroupIdReused(l) \/ StrangerExits(l)
=============================================================================
