---------------------------- MODULE ExclusiveSlot ----------------------------
(***************************************************************************)
(* What resource coordination promises, and nothing of how: each slot has  *)
(* at most one occupant; a job takes all the slots it will use before it   *)
(* starts; a slot becomes free only when its occupant is gone, or has not  *)
(* started and then never uses the slot.                                   *)
(*                                                                         *)
(* src/docs/peer-resource-coordination.md: "a shared, capacity-one build   *)
(* resource", "capacity is released only after exit is established".       *)
(***************************************************************************)
CONSTANTS Slots, Jobs, None

VARIABLES
  occupant,  \* Slots -> Jobs \union {None}
  life,      \* Jobs -> "none", "alive" or "gone"
  uses       \* Jobs -> the slots a started job uses

slotVars == <<occupant, life, uses>>

SlotInit ==
  /\ occupant = [s \in Slots |-> None]
  /\ life = [j \in Jobs |-> "none"]
  /\ uses = [j \in Jobs |-> {}]

Occupy(s, j) ==
  /\ occupant[s] = None
  /\ life[j] = "none"
  /\ occupant' = [occupant EXCEPT ![s] = j]
  /\ UNCHANGED <<life, uses>>

\* Several slots may become free at once.
Vacate(S) ==
  /\ \A s \in S : occupant[s] # None /\ life[occupant[s]] # "alive"
  /\ occupant' = [s \in Slots |-> IF s \in S THEN None ELSE occupant[s]]
  /\ UNCHANGED <<life, uses>>

StartJob(j, S) ==
  /\ life[j] = "none"
  /\ \A s \in S : occupant[s] = j
  /\ life' = [life EXCEPT ![j] = "alive"]
  /\ uses' = [uses EXCEPT ![j] = S]
  /\ UNCHANGED occupant

EndJob(j) ==
  /\ life[j] = "alive"
  /\ life' = [life EXCEPT ![j] = "gone"]
  /\ UNCHANGED <<occupant, uses>>

SlotNext ==
  \/ \E s \in Slots, j \in Jobs : Occupy(s, j)
  \/ \E S \in SUBSET Slots : Vacate(S)
  \/ \E j \in Jobs, S \in SUBSET Slots : StartJob(j, S)
  \/ \E j \in Jobs : EndJob(j)

SlotSpec == SlotInit /\ [][SlotNext]_slotVars

-----------------------------------------------------------------------------
\* Two live jobs never use the same slot.
Exclusive ==
  \A j, k \in Jobs :
    (j # k /\ life[j] = "alive" /\ life[k] = "alive") => uses[j] \intersect uses[k] = {}
=============================================================================
