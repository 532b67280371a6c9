------------------------------ MODULE EventFeed ------------------------------
(***************************************************************************)
(* What the hooks of one agent run are promised, and nothing of how: they  *)
(* run one at a time and in the order of the events, none is left out but  *)
(* a progress event that another progress event follows directly, and who  *)
(* waits for an event waits until its hooks, or those of the progress that *)
(* replaced it, have run.                                                  *)
(*                                                                         *)
(* src/docs/hooks.md, "Track and control subagents"; the comment in        *)
(* AgentRunLifecycle.ts: "Coalesce only waiting progress; control events   *)
(* retain their exact order."                                              *)
(***************************************************************************)
EXTENDS Naturals, SequencesExt

CONSTANT None

VARIABLES
  due,      \* events whose hooks have not started, in order of emission
  current,  \* the event whose hooks run, or None
  awaited   \* numbers of the events somebody may still wait for

feedVars == <<due, current, awaited>>

FeedInit == due = <<>> /\ current = None /\ awaited = {}

Ids(es) == {es[i].id : i \in DOMAIN es}

\* The first event after a pause is begun at once.
Woken ==
  /\ current = None /\ current' # None
  /\ awaited' = {current'.id} \union Ids(due')

Emitted ==
  /\ current # None
  /\ IsPrefix(due, due')
  /\ awaited' = awaited \union Ids(due')
  /\ UNCHANGED current

\* Progress events may be skipped in favour of the progress event behind them.
Begin(k) ==
  /\ \A i \in 1 .. k - 1 : due[i].type = "progress" /\ due[k].type = "progress"
  /\ current' = due[k]
  /\ due' = SubSeq(due, k + 1, Len(due))

\* The next event follows. Those who waited for the one that ends, or for progress that it
\* replaced, are let go.
Ended ==
  /\ current # None
  /\ IF due = <<>> THEN current' = None /\ UNCHANGED due ELSE \E k \in DOMAIN due : Begin(k)
  /\ awaited' = {i \in awaited : i > current.id}

FeedSpec == FeedInit /\ [][Woken \/ Emitted \/ Ended]_feedVars
=============================================================================
