------------------------------- MODULE Mailbox -------------------------------
(***************************************************************************)
(* What peer messaging promises on one route, and nothing of how: messages *)
(* enter the recipient's box once each, in the order they were submitted,  *)
(* except that a message the sender has been refused may come later or     *)
(* never; the sender believes only in deliveries that took place.          *)
(*                                                                         *)
(* src/docs/peer-communication-protocol.md, "Durable custody and ordering" *)
(***************************************************************************)
EXTENDS Naturals, Sequences

CONSTANT Msgs

VARIABLES
  submitted,  \* messages in the order of submission
  box,        \* messages in the order of acceptance
  known,      \* messages the sender knows to be in the box
  refused,    \* messages the sender was refused
  read        \* messages that entered a context of the recipient

boxVars == <<submitted, box, known, refused, read>>

In(m, s) == \E i \in DOMAIN s : s[i] = m

\* The messages submitted before m.
Earlier(m) == {n \in Msgs : \E i, j \in DOMAIN submitted : i < j /\ submitted[i] = n /\ submitted[j] = m}

BoxInit == submitted = <<>> /\ box = <<>> /\ known = {} /\ refused = {} /\ read = {}

Submit(m) ==
  /\ ~In(m, submitted)
  /\ submitted' = Append(submitted, m)
  /\ UNCHANGED <<box, known, refused, read>>

Deliver(m) ==
  /\ In(m, submitted) /\ ~In(m, box)
  /\ \A n \in Earlier(m) : In(n, box) \/ n \in refused
  /\ box' = Append(box, m)
  /\ UNCHANGED <<submitted, known, refused, read>>

Learn(m) ==
  /\ In(m, box) /\ m \notin refused
  /\ known' = known \union {m}
  /\ UNCHANGED <<submitted, box, refused, read>>

Refuse(m) ==
  /\ In(m, submitted) /\ m \notin known
  /\ refused' = refused \union {m}
  /\ UNCHANGED <<submitted, box, known, read>>

Read(S) ==
  /\ \A m \in S : In(m, box)
  /\ read' = read \union S
  /\ UNCHANGED <<submitted, box, known, refused>>

BoxNext ==
  \/ \E m \in Msgs : Submit(m) \/ Deliver(m) \/ Learn(m) \/ Refuse(m)
  \/ \E S \in SUBSET Msgs : Read(S)

BoxSpec == BoxInit /\ [][BoxNext]_boxVars
=============================================================================
