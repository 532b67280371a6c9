---------------------------- MODULE MCCommandGate ----------------------------
(* Small instances of CommandGate for TLC. *)
EXTENDS CommandGate, TLC

CONSTANTS lead, work, l1, l2, t1, t2, t3

\* One controller and one worker session.
TwoRoots == (lead :> lead) @@ (work :> work)

\* The worker is a run of the controller's session.
OneRoot == (lead :> lead) @@ (work :> lead)

\* Two launches of the worker, or one of each session.
OneEach == (l1 :> work) @@ (l2 :> lead)
BothWork == (l1 :> work) @@ (l2 :> work)

\* A strict policy for both sessions, and a build policy that no longer lists the worker.
StrictBoth == [controller |-> lead, participants |-> {work}, profile |-> "strict"]
BuildLead == [controller |-> lead, participants |-> {}, profile |-> "build"]
Both == {StrictBoth, BuildLead}

\* The strict policy alone.
StrictOnly == {StrictBoth}

\* Ticket IDs are interchangeable.
AnyTicket == Permutations(Requests)
=============================================================================
