-------------------------------- MODULE Mutex --------------------------------
(***************************************************************************)
(* What a file lock promises its callers, and nothing of how: a process    *)
(* that asks enters alone, and stays alone until it leaves or dies. The    *)
(* promise holds while the lock is sound; nothing is said of it after.     *)
(*                                                                         *)
(* src/docs/peer-communication-protocol.md: "short owner-aware locks".     *)
(***************************************************************************)
CONSTANT Procs

VARIABLES
  trying,  \* processes that have asked and have no answer yet
  inside,  \* processes that hold the lock
  dead,    \* processes that have died
  sound    \* the promise still holds

mutexVars == <<trying, inside, dead, sound>>

MutexInit == trying = {} /\ inside = {} /\ dead = {} /\ sound = TRUE

Ask(p) ==
  /\ p \notin trying \union inside \union dead
  /\ trying' = trying \union {p}
  /\ UNCHANGED <<inside, dead>>

Enter(p) ==
  /\ p \in trying
  /\ inside = {}
  /\ inside' = {p}
  /\ trying' = trying \ {p}
  /\ UNCHANGED dead

TimeOut(p) ==
  /\ p \in trying
  /\ trying' = trying \ {p}
  /\ UNCHANGED <<inside, dead>>

Leave(p) ==
  /\ p \in inside
  /\ inside' = inside \ {p}
  /\ UNCHANGED <<trying, dead>>

Die(p) ==
  /\ p \notin dead
  /\ dead' = dead \union {p}
  /\ trying' = trying \ {p}
  /\ inside' = inside \ {p}

MutexNext ==
  \/ /\ \E p \in Procs : Ask(p) \/ Enter(p) \/ TimeOut(p) \/ Leave(p) \/ Die(p)
     /\ UNCHANGED sound
  \/ sound' = FALSE

MutexSpec == MutexInit /\ [][MutexNext]_mutexVars
=============================================================================
