-------------------------- MODULE PeerMessageStore --------------------------
(***************************************************************************)
(* PeerMessageStore.ts: the durable outbox of the sender and the durable   *)
(* inbox of the recipient of one route. Every operation is one transaction *)
(* under the store's file lock; the recipient's begin by expiring overdue  *)
(* messages, and one that throws writes nothing, not even that.            *)
(***************************************************************************)
EXTENDS Naturals, Sequences, FiniteSets

CONSTANTS
  Msgs,       \* message IDs
  Consumers,  \* contexts of the recipient that read its inbox
  Capacity,   \* limits.inboxMessages
  None, Lost  \* no consumer; one that is gone and never comes back

ASSUME StoreAssumption ==
  /\ Capacity \in Nat
  /\ {None, Lost} \intersect Consumers = {} /\ None # Lost
  /\ None \notin {"TARGET_ENDED", "refused"}  \* no outcome is not an outcome

VARIABLES
  outbox,   \* messages in the order of enqueueOutbound
  sent,     \* receipt of each message at the sender
  inbox,    \* messages in the order of their sequence numbers
  got,      \* receipt of each message at the recipient
  token,    \* entry.consumer of each inbox message
  overdue   \* messages whose expiresAt has passed

outVars == <<outbox, sent>>
inVars == <<inbox, got, token>>
storeVars == <<outVars, inVars, overdue>>

States == {"none", "pending", "accepted", "consumed", "replied", "rejected", "expired"}
Outcomes == {None, "TARGET_ENDED", "refused"}
Receipt == [state : States, outcome : Outcomes]

NoReceipt == [state |-> "none", outcome |-> None]
Plain(state) == [state |-> state, outcome |-> None]
Rejected(code) == [state |-> "rejected", outcome |-> code]

Elems(s) == {s[i] : i \in DOMAIN s}

StoreTypeOK ==
  /\ outbox \in Seq(Msgs) /\ Len(outbox) = Cardinality(Elems(outbox))
  /\ sent \in [Msgs -> Receipt]
  /\ inbox \in Seq(Msgs) /\ Len(inbox) = Cardinality(Elems(inbox))
  /\ got \in [Msgs -> Receipt]
  /\ token \in [Msgs -> Consumers \union {None, Lost}]
  /\ overdue \subseteq Msgs

StoreInit ==
  /\ outbox = <<>> /\ inbox = <<>>
  /\ sent = [m \in Msgs |-> NoReceipt]
  /\ got = [m \in Msgs |-> NoReceipt]
  /\ token = [m \in Msgs |-> None]
  /\ overdue = {}

-----------------------------------------------------------------------------
(* The sender's transactions. *)

\* Mutant: a message that is sent again gets a second outbox entry.
EnqueueTwice(m) ==
  /\ outbox' = Append(outbox, m)
  /\ sent' = [sent EXCEPT ![m] = Plain("pending")]
  /\ UNCHANGED <<inVars, overdue>>

EnqueueOutbound(m) ==
  /\ IF m \in Elems(outbox) THEN UNCHANGED outVars
     ELSE /\ outbox' = Append(outbox, m)
          /\ sent' = [sent EXCEPT ![m] = Plain("pending")]
  /\ UNCHANGED <<inVars, overdue>>

\* The messages of the route that still have to be sent. They are sent in outbox order, so
\* their set says what the list does.
PendingOutbox == {m \in Elems(outbox) : sent[m].state = "pending"}

\* The first of the messages S of the outbox.
First(S) ==
  outbox[CHOOSE i \in DOMAIN outbox : outbox[i] \in S /\ \A j \in 1..(i - 1) : outbox[j] \notin S]

Rank == [none |-> 0, pending |-> 0, accepted |-> 1, consumed |-> 2, replied |-> 3,
         rejected |-> 4, expired |-> 4]

\* Mutant: receipts are compared by their rank alone.
LowerRank(old, new) == Rank[new.state] < Rank[old.state]

\* recordReceipt: news that would contradict what the sender knows is dropped.
Obsolete(old, new) ==
  \/ old.state \in {"replied", "rejected", "expired"} /\ new.state # old.state
  \/ old.state = "consumed" /\ new.state \in {"rejected", "expired"}
  \/ old.state = "accepted" /\ new.state = "rejected"
  \/ Rank[new.state] < Rank[old.state]

Merge(old, new) ==
  IF Obsolete(old, new) THEN old
  ELSE [state |-> new.state, outcome |-> IF new.outcome = None THEN old.outcome ELSE new.outcome]

RecordReceipt(m, r) ==
  /\ sent' = [sent EXCEPT ![m] = Merge(@, r)]
  /\ UNCHANGED <<outbox, inVars, overdue>>

-----------------------------------------------------------------------------
(* The recipient's transactions. *)

\* expireInbox
Swept ==
  [m \in Msgs |-> IF got[m].state = "accepted" /\ m \in overdue /\ token[m] = None
                  THEN [got[m] EXCEPT !.state = "expired"] ELSE got[m]]

\* Any other transaction on the store of the recipient's process.
Touch ==
  /\ got' = Swept
  /\ UNCHANGED <<outVars, inbox, token, overdue>>

InboxFull == Cardinality({m \in Msgs : Swept[m].state = "accepted"}) >= Capacity

\* accept, which answers with the receipt r or throws a refusal.
Accept(m, r) ==
  /\ \/ /\ m \in Elems(inbox)
        /\ r = Swept[m]
        /\ got' = Swept
        /\ UNCHANGED inbox
     \/ /\ m \notin Elems(inbox)
        /\ m \in overdue \/ InboxFull
        /\ r = Rejected("refused")
        /\ UNCHANGED <<inbox, got>>
     \/ /\ m \notin Elems(inbox)
        /\ m \notin overdue /\ ~InboxFull
        /\ r = Plain("accepted")
        /\ inbox' = Append(inbox, m)
        /\ got' = [Swept EXCEPT ![m] = r]
  /\ UNCHANGED <<outVars, token, overdue>>

\* readInbox: what a context that may consume is shown.
Readable == {m \in Elems(inbox) : Swept[m] = Plain("accepted") /\ token[m] = None}

\* consume, first transaction: the messages still ready are tied to the consumer, or
\* another consumer has one of them and the call throws RESOURCE_BUSY.
Ready(S) == {m \in S : Swept[m] = Plain("accepted")}

\* Mutant: nobody looks for another consumer.
NeverBusy(S) == FALSE

Busy(S) == \E m \in Ready(S) : token[m] # None

\* Mutant: the messages count as consumed before the context is recorded.
ConsumeFirst(c, S) ==
  /\ ~Busy(S)
  /\ token' = [m \in Msgs |-> IF m \in Ready(S) THEN c ELSE token[m]]
  /\ got' = [m \in Msgs |-> IF m \in Ready(S) THEN Plain("consumed") ELSE Swept[m]]
  /\ UNCHANGED <<outVars, inbox, overdue>>

Prepare(c, S) ==
  /\ ~Busy(S)
  /\ token' = [m \in Msgs |-> IF m \in Ready(S) THEN c ELSE token[m]]
  /\ got' = Swept
  /\ UNCHANGED <<outVars, inbox, overdue>>

Untied(c) == [m \in Msgs |-> IF token[m] = c THEN None ELSE token[m]]

\* consume, second transaction.
MarkConsumed(c) ==
  /\ got' = [m \in Msgs |-> IF token[m] = c THEN [got[m] EXCEPT !.state = "consumed"] ELSE Swept[m]]
  /\ token' = Untied(c)
  /\ UNCHANGED <<outVars, inbox, overdue>>

\* Mutant: a failed consumer stays tied to its messages.
KeepConsumer(c) ==
  /\ got' = Swept
  /\ UNCHANGED <<outVars, inbox, token, overdue>>

\* consume, after recordContext or the second transaction threw.
ReleaseConsumer(c) ==
  /\ got' = Swept
  /\ token' = Untied(c)
  /\ UNCHANGED <<outVars, inbox, overdue>>

\* That transaction may throw too, and its error is swallowed: a consumer ID that nothing
\* will ever use again keeps the messages.
AbandonConsumer(c) ==
  /\ token' = [m \in Msgs |-> IF token[m] = c THEN Lost ELSE token[m]]
  /\ UNCHANGED <<outVars, inbox, got, overdue>>

MarkReplied(m) ==
  /\ m \in Elems(inbox)
  /\ got' = [Swept EXCEPT ![m].state = "replied"]
  /\ UNCHANGED <<outVars, inbox, token, overdue>>

EndRecipient ==
  /\ got' = [m \in Msgs |-> IF Swept[m] = Plain("accepted") THEN [Swept[m] EXCEPT !.outcome = "TARGET_ENDED"] ELSE Swept[m]]
  /\ UNCHANGED <<outVars, inbox, token, overdue>>
=============================================================================
