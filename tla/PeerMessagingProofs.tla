------------------------ MODULE PeerMessagingProofs ------------------------
(***************************************************************************)
(* Proofs about PeerMessaging: receipts say what happened, progress is     *)
(* never taken back, one context deals with a message, and the route is a  *)
(* mailbox.                                                                *)
(*                                                                         *)
(* The inductive invariant has one part per hand-over: a chain and its one *)
(* request (Askers), a receipt and what it is about (Receipts), a consumer *)
(* and the messages tied to it (Readers), and the order in which messages  *)
(* may still reach the inbox (Order).                                      *)
(***************************************************************************)
EXTENDS PeerMessaging, FiniteSetTheorems, SequenceTheorems, WellFoundedInduction, TLAPS

KnownStates == {"accepted", "consumed", "replied", "expired"}

\* What has to be so for the recipient to say r of m.
Credible(m, r) ==
  /\ r.state \in KnownStates => m \in Elems(inbox)
  /\ r.state = "consumed" => m \in recorded
  /\ r.state = "replied" => m \in replied
  /\ r.outcome = "TARGET_ENDED" => run # "live"

\* What may be on its way to the sender.
News(m, r) == Credible(m, r) /\ (r.state \in KnownStates \/ r \in Refusals)

Unique(s) == \A i, j \in DOMAIN s : s[i] = s[j] => i = j

\* The outbox and the inbox hold a message at most once, the inbox nothing that was not sent.
Custody ==
  /\ IsFiniteSet(Elems(outbox)) /\ Unique(outbox)
  /\ IsFiniteSet(Elems(inbox)) /\ Unique(inbox)
  /\ Elems(inbox) \subseteq Elems(outbox)
  /\ \A m \in Msgs : m \in Elems(outbox) <=> sent[m].state # "none"
  /\ \A m \in Msgs : m \in Elems(inbox) <=> got[m].state # "none"

\* A chain has one request or one answer on its way, about the message it is at.
Askers ==
  /\ \A k \in Chains : todo[k] \subseteq Elems(outbox)
  /\ \A k \in Chains : step[k] = "await" => todo[k] # {}
  /\ \A k \in Chains : answer[k] # NoReceipt => step[k] = "await"
  /\ \A c \in calls : c.msg \in Elems(outbox)
  /\ \A c \in calls : c.asker # None =>
       step[c.asker] = "await" /\ answer[c.asker] = NoReceipt /\ c.msg = First(todo[c.asker])
  /\ \A c, d \in calls : c.asker = d.asker /\ c.asker # None => c = d

Receipts ==
  /\ \A m \in Msgs : Credible(m, sent[m])
  /\ \A m \in Msgs : Credible(m, got[m]) /\ got[m].state \in KnownStates \union {"none"}
  /\ \A k \in Chains : answer[k] # NoReceipt => News(First(todo[k]), answer[k])
  /\ \A n \in notes : n.msg \in Elems(outbox) /\ News(n.msg, n.receipt)

Dealing(c) == reader[c] \in {"recording", "marking", "releasing"}

\* The messages tied to a consumer are its batch.
Readers ==
  \A c \in Consumers :
    /\ batch[c] \subseteq Elems(inbox)
    /\ \A m \in Msgs : token[m] = c <=> Dealing(c) /\ m \in batch[c]
    /\ reader[c] = "marking" => batch[c] \subseteq recorded

Before(n, m) == \E i, j \in DOMAIN outbox : i < j /\ outbox[i] = n /\ outbox[j] = m
Settled(n) == n \in Elems(inbox) \/ sent[n].state = "rejected"

\* What was submitted before a message on its way has arrived or been refused, and what was
\* submitted before a message still to be sent goes first.
Order ==
  /\ \A c \in calls, n \in Msgs : Before(n, c.msg) => Settled(n)
  /\ \A k \in Chains : step[k] = "await" =>
       \A m \in todo[k], n \in Msgs : Before(n, m) => Settled(n) \/ n \in todo[k]

MailInv == TypeOK /\ Custody /\ Askers /\ Receipts /\ Readers /\ Order

-----------------------------------------------------------------------------
(* Sequences without repetition, and the first of a set of messages. *)

FirstOf(s, S) == s[CHOOSE i \in DOMAIN s : s[i] \in S /\ \A j \in 1..(i - 1) : s[j] \notin S]

\* Appending a message that is not there keeps a sequence free of repetitions, and its length
\* the number of its messages.
LEMMA AppendNew ==
  ASSUME NEW s \in Seq(Msgs), NEW m \in Msgs, m \notin Elems(s),
         Unique(s), IsFiniteSet(Elems(s)), Len(s) = Cardinality(Elems(s))
  PROVE  /\ Append(s, m) \in Seq(Msgs)
         /\ DOMAIN Append(s, m) = DOMAIN s \union {Len(s) + 1}
         /\ \A i \in DOMAIN s : Append(s, m)[i] = s[i]
         /\ Append(s, m)[Len(s) + 1] = m
         /\ Elems(Append(s, m)) = Elems(s) \union {m}
         /\ Unique(Append(s, m))
         /\ IsFiniteSet(Elems(Append(s, m)))
         /\ Len(Append(s, m)) = Cardinality(Elems(Append(s, m)))
<1>1. /\ Append(s, m) \in Seq(Msgs)
      /\ Len(s) \in Nat /\ Len(Append(s, m)) = Len(s) + 1
      /\ DOMAIN s = 1..Len(s) /\ DOMAIN Append(s, m) = 1..(Len(s) + 1)
      /\ \A i \in DOMAIN s : Append(s, m)[i] = s[i]
      /\ Append(s, m)[Len(s) + 1] = m
  OBVIOUS
<1>2. DOMAIN Append(s, m) = DOMAIN s \union {Len(s) + 1}
  BY <1>1
<1>3. Elems(Append(s, m)) = Elems(s) \union {m}
  <2>1. ASSUME NEW x \in Elems(Append(s, m)) PROVE x \in Elems(s) \union {m}
    BY <1>1, <1>2 DEF Elems
  <2>2. ASSUME NEW x \in Elems(s) PROVE x \in Elems(Append(s, m))
    <3>1. PICK i \in DOMAIN s : s[i] = x
      BY DEF Elems
    <3> QED BY <1>1, <1>2, <3>1 DEF Elems
  <2>3. m \in Elems(Append(s, m))
    BY <1>1, <1>2 DEF Elems
  <2> QED BY <2>1, <2>2, <2>3
<1>4. Unique(Append(s, m))
  <2>1. SUFFICES ASSUME NEW i \in DOMAIN Append(s, m), NEW j \in DOMAIN Append(s, m),
                        Append(s, m)[i] = Append(s, m)[j]
                 PROVE  i = j
    BY DEF Unique
  <2>2. \A a \in DOMAIN s : s[a] # m
    BY DEF Elems
  <2> QED BY <1>1, <1>2, <2>1, <2>2 DEF Unique
<1>5. /\ IsFiniteSet(Elems(s) \union {m})
      /\ Cardinality(Elems(s) \union {m}) = Cardinality(Elems(s)) + 1
  BY FS_AddElement
<1> QED BY <1>1, <1>2, <1>3, <1>4, <1>5

\* A set of messages of a sequence has a first one: it is there, and none before it is.
LEMMA FirstThere ==
  ASSUME NEW s \in Seq(Msgs), NEW S \in SUBSET Elems(s), S # {}
  PROVE  \E i \in DOMAIN s : /\ s[i] = FirstOf(s, S) /\ s[i] \in S
                             /\ \A j \in 1..(i - 1) : s[j] \notin S
<1> DEFINE T == {i \in DOMAIN s : s[i] \in S}
<1>1. DOMAIN s = 1..Len(s) /\ Len(s) \in Nat
  OBVIOUS
<1>2. T \subseteq Nat /\ T # {}
  BY <1>1 DEF Elems
<1>3. PICK i \in T : \A j \in T : ~(<<j, i>> \in OpToRel(<, Nat))
  <2> HIDE DEF T
  <2> QED BY <1>2, WFMin, NatLessThanWellFounded
<1>4. \A j \in T : ~(j < i)
  BY <1>2, <1>3 DEF OpToRel
<1>5. i \in DOMAIN s /\ s[i] \in S /\ \A j \in 1..(i - 1) : s[j] \notin S
  BY <1>1, <1>4
<1> QED BY <1>5 DEF FirstOf

\* What is appended does not change which of them is the first.
LEMMA FirstStays ==
  ASSUME NEW s \in Seq(Msgs), NEW m \in Msgs, NEW S \in SUBSET Elems(s), S # {}
  PROVE  FirstOf(Append(s, m), S) = FirstOf(s, S)
<1> DEFINE t == Append(s, m)
           Least(u, i) == u[i] \in S /\ \A j \in 1..(i - 1) : u[j] \notin S
<1>1. PICK i \in DOMAIN s : s[i] = FirstOf(s, S) /\ Least(s, i)
  BY FirstThere
<1>2. /\ DOMAIN s = 1..Len(s) /\ Len(s) \in Nat /\ DOMAIN t = 1..(Len(s) + 1)
      /\ \A j \in DOMAIN s : t[j] = s[j]
  OBVIOUS
<1>3. i \in DOMAIN t /\ Least(t, i)
  BY <1>1, <1>2
<1>4. \A j \in DOMAIN t : Least(t, j) => j = i
  BY <1>2, <1>3
<1>5. FirstOf(t, S) = t[CHOOSE j \in DOMAIN t : Least(t, j)]
  BY DEF FirstOf
<1> HIDE DEF t, Least
<1>6. (CHOOSE j \in DOMAIN t : Least(t, j)) = i
  BY <1>3, <1>4
<1> QED BY <1>1, <1>2, <1>5, <1>6 DEF t

-----------------------------------------------------------------------------
(* The receipts. *)

\* Merging two receipts gives a receipt in the state of either, and news that is dropped
\* changes nothing.
LEMMA MergeFacts ==
  ASSUME NEW old \in Receipt, NEW new \in Receipt
  PROVE  /\ Merge(old, new) \in Receipt
         /\ Obsolete(old, new) => Merge(old, new) = old
         /\ ~Obsolete(old, new) => Merge(old, new).state = new.state
         /\ Merge(old, new).outcome \in {old.outcome, new.outcome}
<1>1. /\ old.state \in States /\ old.outcome \in Outcomes
      /\ new.state \in States /\ new.outcome \in Outcomes
  BY DEF Receipt
<1> QED BY <1>1 DEF Merge, Receipt

\* expireInbox makes an accepted message expired, and changes no other receipt.
LEMMA SweptFacts ==
  ASSUME got \in [Msgs -> Receipt]
  PROVE  /\ Swept \in [Msgs -> Receipt]
         /\ \A m \in Msgs :
              /\ Swept[m] # got[m] => got[m].state = "accepted" /\ Swept[m].state = "expired"
              /\ Swept[m].outcome = got[m].outcome
<1> SUFFICES ASSUME NEW m \in Msgs
             PROVE  /\ Swept[m] \in Receipt
                    /\ Swept[m] # got[m] => got[m].state = "accepted" /\ Swept[m].state = "expired"
                    /\ Swept[m].outcome = got[m].outcome
  BY DEF Swept
<1>1. /\ got[m] \in Receipt /\ got[m].outcome \in Outcomes
      /\ got[m] = [state |-> got[m].state, outcome |-> got[m].outcome]
  BY DEF Receipt
<1>2. /\ [got[m] EXCEPT !.state = "expired"] \in Receipt
      /\ [got[m] EXCEPT !.state = "expired"].state = "expired"
      /\ [got[m] EXCEPT !.state = "expired"].outcome = got[m].outcome
  BY <1>1 DEF Receipt, States
<1>3. Swept[m] = IF got[m].state = "accepted" /\ m \in overdue /\ token[m] = None
                 THEN [got[m] EXCEPT !.state = "expired"] ELSE got[m]
  BY DEF Swept
<1> QED BY <1>1, <1>2, <1>3

-----------------------------------------------------------------------------
(* The steps by what they may touch. *)

ChainMove == \E k \in Chains : ChainStep(k) \/ \E m \in Msgs : Submit(k, m)

NoteMove ==
  \/ \E m \in Msgs : ForwardReceipt(m) \/ StatusFor(m)
  \/ \E n \in notes : NoteArrives(n) \/ NoteLost(n)

RecipientMove ==
  \/ \E m \in Answered : Reply(m)
  \/ \E m \in Mortal : Expire(m)
  \/ BeginEndRun \/ EndRun
  \/ \E c \in Consumers : Look(c) \/ ReaderStep(c)
  \/ OtherTransaction

\* A step is one of a chain, of a request, of a receipt in flight or of the recipient, and
\* leaves what the others deal with alone.
LEMMA Kinds ==
  ASSUME Next
  PROVE  \/ ChainMove /\ UNCHANGED <<inVars, overdue, notes, run, readVars, replied>>
         \/ CallStep /\ UNCHANGED <<outVars, token, overdue, chainVars, notes, run, readVars, replied>>
         \/ NoteMove /\ UNCHANGED <<outbox, inVars, overdue, chainVars, calls, answer, run, readVars, replied>>
         \/ RecipientMove /\ UNCHANGED <<outVars, chainVars, netVars>>
<1>1. CASE ChainMove
  BY <1>1 DEF ChainMove, ChainStep, Submit, List, Receive, TimeOut, EnqueueOutbound, RecordReceipt,
      storeVars, outVars, inVars, chainVars, netVars, readVars
<1>2. CASE CallStep
  BY <1>2 DEF CallStep, Admit, Refuse, AcceptEnvelope, Accept,
      storeVars, outVars, inVars, chainVars, netVars, readVars
<1>3. CASE NoteMove
  BY <1>3 DEF NoteMove, ForwardReceipt, StatusFor, NoteArrives, NoteLost, RecordReceipt,
      storeVars, outVars, inVars, chainVars, netVars, readVars
<1>4. CASE RecipientMove
  BY <1>4 DEF RecipientMove, ReaderStep, Reply, Expire, BeginEndRun, EndRun, Look, Consume, RecordContext,
      RecordFails, Mark, MarkFails, Release, ReleaseFails, OtherTransaction, MarkReplied, EndRecipient,
      Touch, Prepare, MarkConsumed, ReleaseConsumer, AbandonConsumer,
      storeVars, outVars, inVars, chainVars, netVars, readVars
<1> QED BY <1>1, <1>2, <1>3, <1>4 DEF Next, ChainMove, NoteMove, RecipientMove

\* A message of a chain's set is a message of the outbox, the first of them too.
LEMMA ChainFirst ==
  ASSUME MailInv, NEW k \in Chains, step[k] = "await"
  PROVE  /\ First(todo[k]) = FirstOf(outbox, todo[k])
         /\ First(todo[k]) \in todo[k]
         /\ First(todo[k]) \in Elems(outbox)
         /\ First(todo[k]) \in Msgs
<1>1. /\ todo[k] \in SUBSET Elems(outbox) /\ todo[k] # {} /\ outbox \in Seq(Msgs)
      /\ todo[k] \in SUBSET Msgs
  BY DEF MailInv, Askers, TypeOK, StoreTypeOK
<1>2. First(todo[k]) = FirstOf(outbox, todo[k])
  BY DEF First, FirstOf
<1>3. FirstOf(outbox, todo[k]) \in todo[k]
  BY <1>1, FirstThere
<1> QED BY <1>1, <1>2, <1>3

-----------------------------------------------------------------------------
(* What only grows. *)

\* The effect of the sender's transactions: nothing, a new message that is pending, or a
\* receipt merged into that of a message of the outbox.
SenderEffect ==
  \/ UNCHANGED outVars
  \/ \E m \in Msgs \ Elems(outbox) :
       outbox' = Append(outbox, m) /\ sent' = [sent EXCEPT ![m] = Plain("pending")]
  \/ \E m \in Elems(outbox), r \in Receipt :
       /\ News(m, r)
       /\ outbox' = outbox /\ sent' = [sent EXCEPT ![m] = Merge(@, r)]
       /\ UNCHANGED <<inVars, run, recorded, replied>>

LEMMA SenderStep ==
  ASSUME MailInv, Next
  PROVE  SenderEffect
<1>1. ASSUME NEW k \in Chains, NEW m \in Msgs, Submit(k, m) PROVE SenderEffect
  BY <1>1 DEF Submit, EnqueueOutbound, SenderEffect, outVars
<1>2. ASSUME NEW k \in Chains, Receive(k) PROVE SenderEffect
  <2> DEFINE m == First(todo[k])
  <2>1. m \in Elems(outbox) /\ answer[k] \in Receipt /\ News(m, answer[k])
    BY <1>2, ChainFirst DEF Receive, MailInv, TypeOK, Receipts
  <2>2. /\ outbox' = outbox /\ sent' = [sent EXCEPT ![m] = Merge(@, answer[k])]
        /\ UNCHANGED <<inVars, run, recorded, replied>>
    BY <1>2 DEF Receive, RecordReceipt, readVars
  <2> QED BY <2>1, <2>2 DEF SenderEffect
<1>3. ASSUME NEW n \in notes, NoteArrives(n) PROVE SenderEffect
  <2>1. n.msg \in Elems(outbox) /\ n.receipt \in Receipt /\ News(n.msg, n.receipt)
    BY DEF MailInv, TypeOK, Receipts, Notes
  <2>2. /\ outbox' = outbox /\ sent' = [sent EXCEPT ![n.msg] = Merge(@, n.receipt)]
        /\ UNCHANGED <<inVars, run, recorded, replied>>
    BY <1>3 DEF NoteArrives, RecordReceipt, readVars
  <2> QED BY <2>1, <2>2 DEF SenderEffect
<1>4. ASSUME NEW k \in Chains, List(k) \/ TimeOut(k) PROVE UNCHANGED outVars
  BY <1>4 DEF List, TimeOut, storeVars
<1>5. ASSUME NEW m \in Msgs, ForwardReceipt(m) \/ StatusFor(m) PROVE UNCHANGED outVars
  BY <1>5 DEF ForwardReceipt, StatusFor, storeVars
<1>6. ASSUME NEW n \in notes, NoteLost(n) PROVE UNCHANGED outVars
  BY <1>6 DEF NoteLost, storeVars
<1> QED BY <1>1, <1>2, <1>3, <1>4, <1>5, <1>6, Kinds DEF ChainMove, ChainStep, NoteMove, SenderEffect

\* The inbox changes only by a message that was sent and is new to it, which is answered as
\* accepted.
InboxEffect ==
  \/ UNCHANGED inbox
  \/ \E c \in calls :
       /\ c.msg \notin Elems(inbox)
       /\ inbox' = Append(inbox, c.msg)
       /\ got' = [Swept EXCEPT ![c.msg] = Plain("accepted")]
       /\ Answer(c, Plain("accepted"))
       /\ UNCHANGED <<outVars, token, chainVars, notes, run, readVars, replied>>

LEMMA InboxStep ==
  ASSUME MailInv, Next
  PROVE  InboxEffect
<1>1. ASSUME NEW c \in calls, AcceptEnvelope(c) PROVE InboxEffect
  BY <1>1 DEF AcceptEnvelope, Accept, InboxEffect
<1>2. ASSUME NEW c \in calls, Admit(c) \/ Refuse(c) PROVE UNCHANGED inbox
  BY <1>2 DEF Admit, Refuse, storeVars, inVars
<1>3. CASE RecipientMove
  BY <1>3 DEF RecipientMove, ReaderStep, Reply, Expire, BeginEndRun, EndRun, Look, Consume, RecordContext,
      RecordFails, Mark, MarkFails, Release, ReleaseFails, OtherTransaction, MarkReplied, EndRecipient,
      Touch, Prepare, MarkConsumed, ReleaseConsumer, AbandonConsumer, storeVars, inVars, InboxEffect
<1> QED BY <1>1, <1>2, <1>3, Kinds DEF CallStep, InboxEffect, inVars

\* Nothing leaves the outbox, the inbox, the contexts or the replies, and a run that is
\* ending stays so.
LEMMA Grow ==
  ASSUME MailInv, Next
  PROVE  /\ Elems(outbox) \subseteq Elems(outbox')
         /\ Elems(inbox) \subseteq Elems(inbox')
         /\ recorded \subseteq recorded' /\ replied \subseteq replied'
         /\ run # "live" => run' # "live"
<1>0. /\ outbox \in Seq(Msgs) /\ Unique(outbox) /\ IsFiniteSet(Elems(outbox)) /\ Len(outbox) = Cardinality(Elems(outbox))
      /\ inbox \in Seq(Msgs) /\ Unique(inbox) /\ IsFiniteSet(Elems(inbox)) /\ Len(inbox) = Cardinality(Elems(inbox))
  BY DEF MailInv, TypeOK, StoreTypeOK, Custody
<1>4. \A c \in calls : c.msg \in Msgs
  BY DEF MailInv, TypeOK, Calls
<1>1. Elems(outbox) \subseteq Elems(outbox')
  <2>1. ASSUME NEW m \in Msgs \ Elems(outbox), outbox' = Append(outbox, m)
        PROVE  Elems(outbox) \subseteq Elems(outbox')
    BY <1>0, <2>1, AppendNew
  <2> QED BY <2>1, SenderStep DEF SenderEffect, outVars
<1>2. Elems(inbox) \subseteq Elems(inbox')
  <2>1. ASSUME NEW c \in calls, c.msg \notin Elems(inbox), inbox' = Append(inbox, c.msg)
        PROVE  Elems(inbox) \subseteq Elems(inbox')
    BY <1>0, <1>4, <2>1, AppendNew
  <2> QED BY <2>1, InboxStep DEF InboxEffect
<1>3. /\ recorded \subseteq recorded' /\ replied \subseteq replied'
      /\ run # "live" => run' # "live"
  <2>1. CASE RecipientMove
    BY <2>1 DEF RecipientMove, ReaderStep, Reply, Expire, BeginEndRun, EndRun, Look, Consume, RecordContext,
      RecordFails, Mark, MarkFails, Release, ReleaseFails, OtherTransaction, readVars
  <2> QED BY <2>1, Kinds DEF readVars
<1> QED BY <1>1, <1>2, <1>3

\* So what was said stays true.
LEMMA StaysTrue ==
  ASSUME MailInv, Next, NEW m \in Msgs, NEW r \in Receipt
  PROVE  /\ Credible(m, r) => Credible(m, r)'
         /\ News(m, r) => News(m, r)'
BY Grow DEF Credible, News

-----------------------------------------------------------------------------
(* The store. *)

OutboxOK ==
  /\ outbox \in Seq(Msgs) /\ Len(outbox) = Cardinality(Elems(outbox))
  /\ sent \in [Msgs -> Receipt]
  /\ IsFiniteSet(Elems(outbox)) /\ Unique(outbox)
  /\ \A m \in Msgs : m \in Elems(outbox) <=> sent[m].state # "none"
  /\ \A m \in Msgs : Credible(m, sent[m])

LEMMA OutboxNext ==
  ASSUME MailInv, Next
  PROVE  OutboxOK'
<1>1. OutboxOK
  BY DEF MailInv, TypeOK, StoreTypeOK, Custody, Receipts, OutboxOK
<1>2. \A m \in Msgs : Credible(m, sent[m])' \/ sent'[m] # sent[m]
  <2>1. \A m \in Msgs : Credible(m, sent[m]) => (sent'[m] = sent[m] => Credible(m, sent[m])')
    BY Grow DEF Credible
  <2> QED BY <1>1, <2>1 DEF OutboxOK
<1>3. CASE UNCHANGED outVars
  BY <1>1, <1>2, <1>3 DEF OutboxOK, outVars
<1>4. ASSUME NEW m \in Msgs \ Elems(outbox),
             outbox' = Append(outbox, m), sent' = [sent EXCEPT ![m] = Plain("pending")]
      PROVE  OutboxOK'
  <2>1. /\ outbox' \in Seq(Msgs) /\ Len(outbox') = Cardinality(Elems(outbox'))
        /\ IsFiniteSet(Elems(outbox')) /\ Unique(outbox')
        /\ Elems(outbox') = Elems(outbox) \union {m}
    BY <1>1, <1>4, AppendNew DEF OutboxOK
  <2>2. Plain("pending") \in Receipt /\ Plain("pending").state = "pending" /\ Plain("pending").outcome = None
    BY DEF Plain, Receipt, States, Outcomes
  <2>3. sent' \in [Msgs -> Receipt] /\ sent'[m] = Plain("pending") /\ \A n \in Msgs \ {m} : sent'[n] = sent[n]
    BY <1>1, <1>4, <2>2 DEF OutboxOK
  <2>4. \A n \in Msgs : n \in Elems(outbox') <=> sent'[n].state # "none"
    BY <1>1, <2>1, <2>2, <2>3 DEF OutboxOK
  <2>5. (Plain("pending").outcome = "TARGET_ENDED") => run' # "live"
    BY <2>2, StoreAssumption
  <2>6. Credible(m, sent[m])'
    BY <2>2, <2>3, <2>5 DEF Credible, KnownStates
  <2> QED BY <1>2, <2>1, <2>3, <2>4, <2>6 DEF OutboxOK
<1>5. ASSUME NEW m \in Elems(outbox), NEW r \in Receipt, News(m, r),
             outbox' = outbox, sent' = [sent EXCEPT ![m] = Merge(@, r)],
             UNCHANGED <<inVars, run, recorded, replied>>
      PROVE  OutboxOK'
  <2>1. m \in Msgs /\ sent[m] \in Receipt /\ sent[m].state # "none"
    BY <1>1 DEF OutboxOK, Elems
  <2>2. /\ Merge(sent[m], r) \in Receipt
        /\ Merge(sent[m], r).state \in {sent[m].state, r.state}
        /\ Merge(sent[m], r).outcome \in {sent[m].outcome, r.outcome}
    BY <2>1, MergeFacts
  <2>3. sent' \in [Msgs -> Receipt] /\ sent'[m] = Merge(sent[m], r) /\ \A n \in Msgs \ {m} : sent'[n] = sent[n]
    BY <1>1, <1>5, <2>1, <2>2 DEF OutboxOK
  <2>4. r.state # "none" /\ Credible(m, r) /\ Credible(m, sent[m])
    BY <1>1, <1>5, <2>1 DEF OutboxOK, News, KnownStates, Refusals, Rejected
  <2>5. Credible(m, sent[m])'
    BY <1>5, <2>2, <2>3, <2>4 DEF Credible, inVars
  <2> QED BY <1>1, <1>2, <1>5, <2>1, <2>2, <2>3, <2>4, <2>5 DEF OutboxOK
<1> QED BY <1>3, <1>4, <1>5, SenderStep DEF SenderEffect

GotOK(m) ==
  /\ got[m] \in Receipt /\ got[m].state \in KnownStates \union {"none"}
  /\ Credible(m, got[m])
  /\ m \in Elems(inbox) <=> got[m].state # "none"

\* A receipt of the recipient stays credible when it keeps its state or takes one that has
\* come true, and when TARGET_ENDED is set for a run that is no longer live.
LEMMA GotMoves ==
  ASSUME MailInv, Next, NEW m \in Msgs, UNCHANGED inbox,
         got'[m] \in Receipt, got'[m].state \in KnownStates \union {"none"},
         got'[m].state = "none" <=> got[m].state = "none",
         got'[m].state = "consumed" => got[m].state = "consumed" \/ m \in recorded,
         got'[m].state = "replied" => got[m].state = "replied" \/ m \in replied',
         got'[m].outcome = got[m].outcome \/ run' # "live"
  PROVE  GotOK(m)'
<1>1. Credible(m, got[m]) /\ (m \in Elems(inbox) <=> got[m].state # "none")
  BY DEF MailInv, Custody, Receipts
<1>2. m \in Elems(inbox) <=> m \in Elems(inbox')
  OBVIOUS
<1>3. Credible(m, got[m])'
  BY <1>1, <1>2, Grow DEF Credible, KnownStates
<1> QED BY <1>1, <1>2, <1>3 DEF GotOK

\* What the store itself does to a receipt is one of these moves.
LEMMA GotSwept ==
  ASSUME MailInv, Next, NEW m \in Msgs, UNCHANGED inbox, got'[m] \in {got[m], Swept[m]}
  PROVE  GotOK(m)'
<1>1. got \in [Msgs -> Receipt] /\ got[m] \in Receipt /\ got[m].state \in KnownStates \union {"none"}
  BY DEF MailInv, TypeOK, StoreTypeOK, Receipts
<1>2. /\ Swept[m] \in Receipt
      /\ Swept[m] # got[m] => got[m].state = "accepted" /\ Swept[m].state = "expired"
      /\ Swept[m].outcome = got[m].outcome
  BY <1>1, SweptFacts
<1>3. /\ got'[m] \in Receipt /\ got'[m].outcome = got[m].outcome
      /\ (got'[m].state = got[m].state \/ (got[m].state = "accepted" /\ got'[m].state = "expired"))
  BY <1>1, <1>2
<1> QED BY <1>1, <1>3, GotMoves DEF KnownStates

InboxOK ==
  /\ inbox \in Seq(Msgs) /\ Len(inbox) = Cardinality(Elems(inbox))
  /\ IsFiniteSet(Elems(inbox)) /\ Unique(inbox)
  /\ Elems(inbox) \subseteq Elems(outbox)
  /\ got \in [Msgs -> Receipt]
  /\ \A m \in Msgs : GotOK(m)

LEMMA InboxNext ==
  ASSUME MailInv, Next
  PROVE  InboxOK'
<1> DEFINE GotFun == got' = [m \in Msgs |-> got'[m]]
<1>1. /\ inbox \in Seq(Msgs) /\ Len(inbox) = Cardinality(Elems(inbox))
      /\ IsFiniteSet(Elems(inbox)) /\ Unique(inbox) /\ Elems(inbox) \subseteq Elems(outbox)
      /\ got \in [Msgs -> Receipt] /\ got = [m \in Msgs |-> got[m]]
  BY DEF MailInv, TypeOK, StoreTypeOK, Custody
<1>2. Swept \in [Msgs -> Receipt]
  BY <1>1, SweptFacts
<1>3. ASSUME UNCHANGED inbox, GotFun, \A m \in Msgs : GotOK(m)' PROVE InboxOK'
  <2>1. Elems(inbox') \subseteq Elems(outbox')
    BY <1>1, <1>3, Grow
  <2>2. got' \in [Msgs -> Receipt]
    BY <1>3 DEF GotOK
  <2> QED BY <1>1, <1>3, <2>1, <2>2 DEF InboxOK
<1>4. ASSUME UNCHANGED inbox, GotFun, \A m \in Msgs : got'[m] \in {got[m], Swept[m]} PROVE InboxOK'
  BY <1>3, <1>4, GotSwept
<1> HIDE DEF GotFun
<1>5. ASSUME UNCHANGED inbox, got' = got \/ got' = Swept PROVE InboxOK'
  BY <1>1, <1>2, <1>4, <1>5 DEF GotFun
<1>6. ASSUME NEW c \in calls, c.msg \notin Elems(inbox), inbox' = Append(inbox, c.msg),
             got' = [Swept EXCEPT ![c.msg] = Plain("accepted")], UNCHANGED outVars
      PROVE  InboxOK'
  <2> DEFINE a == c.msg
  <2>1. a \in Msgs /\ a \in Elems(outbox)
    BY DEF MailInv, TypeOK, Calls, Askers
  <2>2. /\ inbox' \in Seq(Msgs) /\ Len(inbox') = Cardinality(Elems(inbox'))
        /\ IsFiniteSet(Elems(inbox')) /\ Unique(inbox')
        /\ Elems(inbox') = Elems(inbox) \union {a}
    BY <1>1, <1>6, <2>1, AppendNew
  <2>3. Plain("accepted") \in Receipt /\ Plain("accepted").state = "accepted" /\ Plain("accepted").outcome = None
    BY DEF Plain, Receipt, States, Outcomes
  <2>4. got' \in [Msgs -> Receipt] /\ got'[a] = Plain("accepted") /\ \A m \in Msgs \ {a} : got'[m] = Swept[m]
    BY <1>2, <1>6, <2>1, <2>3
  <2>5. GotOK(a)'
    BY <2>1, <2>2, <2>3, <2>4, StoreAssumption DEF GotOK, Credible, KnownStates
  <2>6. ASSUME NEW m \in Msgs \ {a} PROVE GotOK(m)'
    <3>1. /\ got[m].state \in KnownStates \union {"none"} /\ Credible(m, got[m])
          /\ m \in Elems(inbox) <=> got[m].state # "none"
      BY DEF MailInv, Custody, Receipts
    <3>2. /\ Swept[m] \in Receipt
          /\ Swept[m] # got[m] => got[m].state = "accepted" /\ Swept[m].state = "expired"
          /\ Swept[m].outcome = got[m].outcome
      BY <1>1, SweptFacts
    <3>3. /\ got'[m] \in Receipt /\ got'[m].outcome = got[m].outcome
          /\ (got'[m].state = got[m].state \/ (got[m].state = "accepted" /\ got'[m].state = "expired"))
      BY <2>4, <3>2
    <3>4. m \in Elems(inbox') <=> m \in Elems(inbox)
      BY <2>2
    <3>5. Credible(m, got[m])'
      BY <3>1, <3>3, <3>4, Grow DEF Credible, KnownStates
    <3> QED BY <3>1, <3>3, <3>4, <3>5 DEF GotOK, KnownStates
  <2>7. Elems(inbox') \subseteq Elems(outbox')
    BY <1>1, <1>6, <2>1, <2>2 DEF outVars
  <2> QED BY <2>1, <2>2, <2>4, <2>5, <2>6, <2>7 DEF InboxOK
<1>7. ASSUME NEW c \in calls, AcceptEnvelope(c) PROVE InboxOK'
  BY <1>5, <1>6, <1>7 DEF AcceptEnvelope, Accept, outVars
<1>8. ASSUME NEW c \in Consumers, Mark(c) PROVE InboxOK'
  <2>1. UNCHANGED inbox /\ GotFun
    BY <1>8 DEF Mark, MarkConsumed, GotFun
  <2>2. ASSUME NEW m \in Msgs, token[m] = c PROVE GotOK(m)'
    <3>1. m \in recorded /\ m \in Elems(inbox)
      BY <1>8, <2>2 DEF Mark, MailInv, Readers
    <3>2. got'[m] = [got[m] EXCEPT !.state = "consumed"] /\ got[m] \in Receipt /\ got[m].state # "none"
      BY <1>1, <1>8, <2>2, <3>1 DEF Mark, MarkConsumed, MailInv, Custody
    <3>3. got'[m] \in Receipt /\ got'[m].state = "consumed" /\ got'[m].outcome = got[m].outcome
      BY <3>2 DEF Receipt, States
    <3> QED BY <2>1, <3>1, <3>2, <3>3, GotMoves DEF KnownStates
  <2>3. ASSUME NEW m \in Msgs, token[m] # c PROVE GotOK(m)'
    BY <1>8, <2>1, <2>3, GotSwept DEF Mark, MarkConsumed
  <2> QED BY <1>3, <2>1, <2>2, <2>3
<1>9. ASSUME NEW a \in Msgs, Reply(a) PROVE InboxOK'
  <2>1. UNCHANGED inbox /\ a \in Elems(inbox) /\ a \in replied'
        /\ got' = [Swept EXCEPT ![a].state = "replied"]
    BY <1>9 DEF Reply, MarkReplied
  <2>2. GotFun /\ got'[a] = [Swept[a] EXCEPT !.state = "replied"] /\ \A m \in Msgs \ {a} : got'[m] = Swept[m]
    BY <1>2, <2>1 DEF GotFun
  <2>3. /\ Swept[a] \in Receipt /\ Swept[a].outcome = got[a].outcome /\ got[a].state # "none"
    BY <1>1, <1>2, <2>1, SweptFacts DEF MailInv, Custody
  <2>4. got'[a] \in Receipt /\ got'[a].state = "replied" /\ got'[a].outcome = got[a].outcome
    BY <2>2, <2>3 DEF Receipt, States
  <2>5. GotOK(a)'
    BY <2>1, <2>3, <2>4, GotMoves DEF KnownStates
  <2>6. \A m \in Msgs \ {a} : GotOK(m)'
    BY <2>1, <2>2, GotSwept
  <2> QED BY <1>3, <2>1, <2>2, <2>5, <2>6
<1>10. CASE EndRun
  <2>1. UNCHANGED inbox /\ GotFun /\ run' = "ended"
    BY <1>10 DEF EndRun, EndRecipient, GotFun
  <2>2. ASSUME NEW m \in Msgs, Swept[m] = Plain("accepted") PROVE GotOK(m)'
    <3>1. got'[m] = [Swept[m] EXCEPT !.outcome = "TARGET_ENDED"]
      BY <1>10, <2>2 DEF EndRun, EndRecipient
    <3>2. Swept[m] \in Receipt /\ Swept[m].state = "accepted" /\ got[m].state = "accepted"
      BY <1>1, <2>2, SweptFacts DEF Plain
    <3>3. got'[m] \in Receipt /\ got'[m].state = "accepted"
      BY <3>1, <3>2 DEF Receipt, Outcomes
    <3> QED BY <2>1, <3>2, <3>3, GotMoves DEF KnownStates
  <2>3. ASSUME NEW m \in Msgs, Swept[m] # Plain("accepted") PROVE GotOK(m)'
    BY <1>10, <2>1, <2>3, GotSwept DEF EndRun, EndRecipient
  <2> QED BY <1>3, <2>1, <2>2, <2>3
<1>11. CASE UNCHANGED inVars
  BY <1>5, <1>11 DEF inVars
<1>12. ASSUME NEW m \in Msgs, Expire(m) PROVE UNCHANGED inVars
  BY <1>12 DEF Expire
<1>13. ASSUME NEW c \in Consumers, Look(c) \/ Consume(c) \/ Release(c) \/ ReleaseFails(c) \/ OtherTransaction
       PROVE  InboxOK'
  BY <1>5, <1>13 DEF Look, Consume, Release, ReleaseFails, OtherTransaction, Touch, Prepare, ReleaseConsumer,
     AbandonConsumer, storeVars, inVars
<1>14. CASE OtherTransaction
  BY <1>5, <1>14 DEF OtherTransaction, Touch
<1>15. ASSUME NEW c \in Consumers, RecordContext(c) \/ RecordFails(c) \/ MarkFails(c) PROVE UNCHANGED inVars
  BY <1>15 DEF RecordContext, RecordFails, MarkFails, storeVars
<1>16. CASE BeginEndRun
  BY <1>11, <1>16 DEF BeginEndRun, storeVars
<1>17. ASSUME NEW c \in calls, Admit(c) \/ Refuse(c) PROVE UNCHANGED inVars
  BY <1>17 DEF Admit, Refuse, storeVars
<1> QED
  BY <1>7, <1>8, <1>9, <1>10, <1>11, <1>12, <1>13, <1>14, <1>15, <1>16, <1>17, Kinds, MessagingAssumption
  DEF CallStep, RecipientMove, ReaderStep

-----------------------------------------------------------------------------
(* The chains, their requests and answers, and the receipts in flight. *)

NotesOK == notes \subseteq Notes /\ \A n \in notes : n.msg \in Elems(outbox) /\ News(n.msg, n.receipt)

LEMMA NotesNext ==
  ASSUME MailInv, Next
  PROVE  NotesOK'
<1>1. NotesOK /\ \A n \in notes : n.msg \in Msgs /\ n.receipt \in Receipt
  BY DEF MailInv, TypeOK, Receipts, NotesOK, Notes
<1>2. \A n \in notes : n \in Notes /\ n.msg \in Elems(outbox') /\ News(n.msg, n.receipt)'
  <2> SUFFICES ASSUME NEW n \in notes PROVE n \in Notes /\ n.msg \in Elems(outbox') /\ News(n.msg, n.receipt)'
    OBVIOUS
  <2>1. n.msg \in Msgs /\ n.receipt \in Receipt /\ News(n.msg, n.receipt) /\ n \in Notes /\ n.msg \in Elems(outbox)
    BY <1>1 DEF NotesOK
  <2>2. ASSUME NEW m \in Msgs, NEW r \in Receipt, News(m, r) PROVE News(m, r)'
    BY <2>2, StaysTrue
  <2>3. News(n.msg, n.receipt)'
    BY <2>1, <2>2
  <2> QED BY <2>1, <2>3, Grow
<1>3. CASE notes' \subseteq notes
  BY <1>2, <1>3 DEF NotesOK
<1>4. ASSUME NEW m \in Msgs, m \in Elems(inbox), Notify(m), UNCHANGED <<outVars, inVars, run, readVars, replied>>
      PROVE  NotesOK'
  <2> SUFFICES ASSUME NEW n, n = [msg |-> m, receipt |-> got[m]] PROVE NotesOK'
    OBVIOUS
  <2>1. notes' = notes \union {n}
    BY <1>4 DEF Notify
  <2>2. got[m] \in Receipt /\ got[m].state \in KnownStates /\ Credible(m, got[m]) /\ m \in Elems(outbox)
    BY <1>4 DEF MailInv, TypeOK, StoreTypeOK, Custody, Receipts
  <2>3. n \in Notes /\ News(m, got[m])
    BY <2>2 DEF Notes, News
  <2>4. News(m, got[m])'
    BY <1>4, <2>3 DEF News, Credible, inVars, readVars
  <2>5. got'[m] = got[m] /\ n.msg = m /\ n.receipt = got[m] /\ m \in Elems(outbox')
    BY <1>4, <2>2 DEF outVars, inVars
  <2>6. News(n.msg, n.receipt)'
    BY <2>4, <2>5 DEF News, Credible
  <2> QED BY <1>2, <2>1, <2>3, <2>5, <2>6 DEF NotesOK
<1>5. ASSUME NEW m \in Msgs, ForwardReceipt(m) \/ StatusFor(m) PROVE NotesOK'
  BY <1>4, <1>5 DEF ForwardReceipt, StatusFor, storeVars
<1>6. ASSUME NEW n \in notes, NoteArrives(n) \/ NoteLost(n) PROVE notes' \subseteq notes
  BY <1>6 DEF NoteArrives, NoteLost
<1> QED BY <1>3, <1>5, <1>6, Kinds DEF NoteMove, netVars

ChainTypes ==
  /\ step \in [Chains -> {"idle", "list", "await"}]
  /\ own \in [Chains -> Msgs \union {None}]
  /\ todo \in [Chains -> SUBSET Msgs]
  /\ answer \in [Chains -> Receipt]

LEMMA ChainTypesNext ==
  ASSUME MailInv, Next
  PROVE  ChainTypes'
<1>1. /\ ChainTypes /\ PendingOutbox \subseteq Msgs /\ NoReceipt \in Receipt
      /\ \A c \in calls : c.asker \in Chains \union {None}
  BY DEF MailInv, TypeOK, StoreTypeOK, ChainTypes, PendingOutbox, Elems, NoReceipt, Receipt, States, Outcomes, Calls
<1>2. ASSUME NEW k \in Chains, NEW m \in Msgs, Submit(k, m) PROVE ChainTypes'
  BY <1>1, <1>2 DEF Submit, ChainTypes, chainVars, netVars
<1>3. ASSUME NEW k \in Chains, List(k) PROVE ChainTypes'
  BY <1>1, <1>3 DEF List, Return, Transmit, ChainTypes
<1>4. ASSUME NEW k \in Chains, Receive(k) PROVE ChainTypes'
  BY <1>1, <1>4 DEF Receive, Return, Transmit, ChainTypes
<1>5. ASSUME NEW k \in Chains, TimeOut(k) PROVE ChainTypes'
  BY <1>1, <1>5 DEF TimeOut, Return, ChainTypes
<1>6. ASSUME NEW c \in calls, NEW r \in Receipt, Answer(c, r), UNCHANGED chainVars PROVE ChainTypes'
  BY <1>1, <1>6 DEF Answer, ChainTypes, chainVars
<1>7. ASSUME NEW c \in calls, Admit(c) \/ Refuse(c) \/ AcceptEnvelope(c) PROVE ChainTypes'
  <2>1. Rejected("refused") \in Receipt /\ Rejected("TARGET_ENDED") \in Receipt
    BY DEF Rejected, Receipt, States, Outcomes
  <2>2. UNCHANGED chainVars /\ (UNCHANGED answer \/ \E r \in Receipt : Answer(c, r))
    BY <1>7, <2>1 DEF Admit, Refuse, AcceptEnvelope
  <2> QED BY <1>1, <1>6, <2>2 DEF ChainTypes, chainVars
<1>8. CASE UNCHANGED <<chainVars, answer>>
  BY <1>1, <1>8 DEF ChainTypes, chainVars
<1> QED BY <1>2, <1>3, <1>4, <1>5, <1>7, <1>8, Kinds DEF ChainMove, ChainStep, CallStep, netVars

ChainOK(k) ==
  /\ todo[k] \subseteq Elems(outbox)
  /\ step[k] = "await" => todo[k] # {}
  /\ answer[k] # NoReceipt => step[k] = "await" /\ News(First(todo[k]), answer[k])

CallOK(c) ==
  /\ c \in Calls /\ c.msg \in Elems(outbox)
  /\ c.asker # None =>
       step[c.asker] = "await" /\ answer[c.asker] = NoReceipt /\ c.msg = First(todo[c.asker])

OneCall == \A c, d \in calls : c.asker = d.asker /\ c.asker # None => c = d

\* The first message a chain waits for stays the first while it waits.
LEMMA FirstKept ==
  ASSUME MailInv, Next, NEW k \in Chains, step[k] = "await", todo'[k] = todo[k]
  PROVE  First(todo[k])' = First(todo[k])
<1>1. /\ outbox \in Seq(Msgs) /\ todo[k] \in SUBSET Elems(outbox) /\ todo[k] # {}
  BY DEF MailInv, TypeOK, StoreTypeOK, Askers
<1>2. outbox' = outbox \/ \E m \in Msgs : outbox' = Append(outbox, m)
  BY SenderStep DEF SenderEffect, outVars
<1>3. FirstOf(outbox', todo[k]) = FirstOf(outbox, todo[k])
  BY <1>1, <1>2, FirstStays
<1> QED BY <1>3 DEF First, FirstOf

LEMMA ChainKept ==
  ASSUME MailInv, Next, NEW k \in Chains, step'[k] = step[k], todo'[k] = todo[k], answer'[k] = answer[k]
  PROVE  ChainOK(k)'
<1>1. ChainOK(k) /\ answer[k] \in Receipt
  BY DEF MailInv, TypeOK, Askers, Receipts, ChainOK
<1>2. ASSUME answer'[k] # NoReceipt PROVE (step[k] = "await" /\ News(First(todo[k]), answer[k]))'
  <2>1. step[k] = "await" /\ News(First(todo[k]), answer[k])
    BY <1>1, <1>2 DEF ChainOK
  <2>2. First(todo[k])' = First(todo[k]) /\ First(todo[k]) \in Msgs
    BY <2>1, FirstKept, ChainFirst
  <2>3. ASSUME NEW m \in Msgs, NEW r \in Receipt, News(m, r) PROVE News(m, r)'
    BY <2>3, StaysTrue
  <2>4. ASSUME NEW m \in Msgs, NEW r \in Receipt, m = First(todo[k])', r = answer'[k], News(m, r)'
        PROVE  News(First(todo[k]), answer[k])'
    BY <2>4 DEF News, Credible
  <2> QED BY <1>1, <2>1, <2>2, <2>3, <2>4
<1>3. NoReceipt' = NoReceipt
  BY DEF NoReceipt
<1> QED BY <1>1, <1>2, <1>3, Grow DEF ChainOK

LEMMA CallKept ==
  ASSUME MailInv, Next, NEW c \in calls,
         c.asker # None => UNCHANGED <<step[c.asker], todo[c.asker], answer[c.asker]>>
  PROVE  CallOK(c)'
<1>1. CallOK(c)
  BY DEF MailInv, TypeOK, Askers, CallOK
<1>2. ASSUME c.asker # None PROVE First(todo[c.asker])' = First(todo[c.asker])
  <2>1. c.asker \in Chains /\ step[c.asker] = "await"
    BY <1>1, <1>2 DEF CallOK, Calls
  <2> QED BY <1>2, <2>1, FirstKept
<1> QED BY <1>1, <1>2, Grow DEF CallOK, NoReceipt

ChainsOK == (\A k \in Chains : ChainOK(k)) /\ (\A c \in calls : CallOK(c)) /\ OneCall

\* A chain that returns has nothing under way.
LEMMA ChainReturns ==
  ASSUME MailInv, Next, NEW k \in Chains, Return(k), answer'[k] = NoReceipt
  PROVE  ChainOK(k)'
<1>1. todo'[k] = {} /\ step'[k] = "idle"
  BY DEF Return, MailInv, TypeOK
<1> QED BY <1>1 DEF ChainOK, NoReceipt

\* A chain transmits the first of the messages S: nobody else asks in its name.
LEMMA ChainTransmits ==
  ASSUME MailInv, Next, NEW k \in Chains, NEW S \in SUBSET Elems(outbox), S # {},
         Transmit(k, S, calls), UNCHANGED outbox, answer'[k] = NoReceipt,
         \A j \in Chains \ {k} : answer'[j] = answer[j],
         \A c \in calls : c.asker # k
  PROVE  ChainsOK'
<1> SUFFICES ASSUME NEW n, n = [msg |-> First(S), asker |-> k, stage |-> "sent"] PROVE ChainsOK'
  OBVIOUS
<1>1. /\ S \subseteq Msgs /\ First(S) \in S
  <2>1. outbox \in Seq(Msgs)
    BY DEF MailInv, TypeOK, StoreTypeOK
  <2>2. First(S) \in S
    BY <2>1, FirstThere DEF First, FirstOf
  <2> QED BY <2>1, <2>2 DEF Elems
<1>2. /\ todo'[k] = S /\ step'[k] = "await" /\ calls' = calls \union {n}
      /\ \A j \in Chains \ {k} : todo'[j] = todo[j] /\ step'[j] = step[j]
  BY DEF Transmit, MailInv, TypeOK
<1>3. /\ n.msg = First(S) /\ n.asker = k /\ n \in Calls /\ k # None
  BY <1>1, MessagingAssumption DEF Calls
<1>4. First(todo[k])' = First(S)
  BY <1>2 DEF First
<1>5. \A j \in Chains \ {k} : ChainOK(j)'
  BY <1>2, ChainKept
<1>6. ChainOK(k)'
  BY <1>2 DEF ChainOK, NoReceipt
<1>7. ASSUME NEW c \in calls PROVE CallOK(c)'
  <2>1. c.asker \in Chains \union {None}
    BY DEF MailInv, TypeOK, Calls
  <2> QED BY <1>2, <2>1, CallKept
<1>8. CallOK(n)'
  BY <1>1, <1>2, <1>3, <1>4 DEF CallOK, NoReceipt
<1>9. OneCall'
  <2>1. OneCall
    BY DEF MailInv, Askers, OneCall
  <2> QED BY <1>2, <1>3, <2>1 DEF OneCall
<1> QED BY <1>2, <1>5, <1>6, <1>7, <1>8, <1>9 DEF ChainsOK

\* A request is handled: it is gone and its chain has an answer, true of its message.
LEMMA CallAnswered ==
  ASSUME MailInv, Next, NEW c \in calls, NEW r \in Receipt, Answer(c, r), News(c.msg, r)',
         UNCHANGED chainVars, UNCHANGED outbox
  PROVE  ChainsOK'
<1>1. /\ CallOK(c) /\ OneCall /\ c.asker \in Chains \union {None} /\ answer \in [Chains -> Receipt]
      /\ \A d \in calls : d.asker \in Chains \union {None}
  BY DEF MailInv, TypeOK, Askers, CallOK, OneCall, Calls
<1>2. /\ calls' = calls \ {c}
      /\ \A k \in Chains : k # c.asker => answer'[k] = answer[k]
      /\ c.asker # None => answer'[c.asker] = r
  BY <1>1 DEF Answer
<1>3. ASSUME NEW d \in calls' PROVE CallOK(d)'
  BY <1>1, <1>2, <1>3, CallKept DEF OneCall, chainVars
<1>4. ASSUME NEW k \in Chains, k # c.asker PROVE ChainOK(k)'
  BY <1>2, <1>4, ChainKept DEF chainVars
<1>5. ASSUME c.asker # None PROVE ChainOK(c.asker)'
  <2> DEFINE k == c.asker
  <2>1. k \in Chains /\ step[k] = "await" /\ c.msg = First(todo[k])
    BY <1>1, <1>5 DEF CallOK
  <2>2. First(todo[k])' = c.msg
    BY <2>1, FirstKept DEF chainVars
  <2>3. ASSUME NEW m, m = c.msg, NEW s, s = r PROVE News(First(todo[k]), answer[k])'
    <3>1. First(todo[k])' = m /\ answer'[k] = s /\ News(m, s)'
      BY <1>2, <1>5, <2>2, <2>3
    <3> QED BY <3>1 DEF News, Credible
  <2>4. todo[k] \subseteq Elems(outbox) /\ todo[k] # {}
    BY <2>1 DEF MailInv, Askers
  <2> QED BY <1>2, <2>1, <2>3, <2>4 DEF ChainOK, chainVars
<1>6. OneCall'
  BY <1>1, <1>2 DEF OneCall
<1> QED BY <1>3, <1>4, <1>5, <1>6, MessagingAssumption DEF ChainsOK

LEMMA ChainsNext ==
  ASSUME MailInv, Next
  PROVE  ChainsOK'
<1>1. /\ OneCall /\ calls \subseteq Calls /\ \A c \in calls : c.asker \in Chains \union {None} /\ c.msg \in Msgs
      /\ step \in [Chains -> {"idle", "list", "await"}] /\ todo \in [Chains -> SUBSET Msgs]
      /\ answer \in [Chains -> Receipt] /\ None \notin Chains
      /\ \A k \in Chains : todo[k] \subseteq Elems(outbox)
      /\ \A k \in Chains : step[k] # "await" => answer[k] = NoReceipt
      /\ \A c \in calls : c.asker # None => step[c.asker] = "await" /\ answer[c.asker] = NoReceipt
  BY MessagingAssumption DEF MailInv, TypeOK, Askers, OneCall, Calls
<1>2. CASE UNCHANGED <<step, todo, answer, calls>>
  <2>1. \A k \in Chains : ChainOK(k)'
    BY <1>2, ChainKept
  <2>2. \A c \in calls : CallOK(c)'
    BY <1>2, CallKept
  <2> QED BY <1>1, <1>2, <2>1, <2>2 DEF ChainsOK, OneCall
<1>3. ASSUME NEW k \in Chains, NEW m \in Msgs, Submit(k, m) PROVE ChainsOK'
  <2>1. /\ UNCHANGED <<todo, answer, calls>>
        /\ \A j \in Chains : step'[j] = step[j] \/ (j = k /\ step[j] = "idle" /\ step'[j] = "list")
    BY <1>1, <1>3 DEF Submit, chainVars, netVars
  <2>2. \A j \in Chains : step'[j] = step[j] => ChainOK(j)'
    BY <2>1, ChainKept
  <2>3. ASSUME step[k] = "idle", step'[k] = "list" PROVE ChainOK(k)'
    BY <1>1, <2>1, <2>3, Grow DEF ChainOK, NoReceipt
  <2>4. \A c \in calls : CallOK(c)'
    BY <1>1, <2>1, CallKept
  <2> QED BY <1>1, <2>1, <2>2, <2>3, <2>4 DEF ChainsOK, OneCall
<1>4. ASSUME NEW k \in Chains, Return(k), answer'[k] = NoReceipt,
             \A j \in Chains \ {k} : answer'[j] = answer[j],
             calls' \subseteq calls, \A c \in calls' : c.asker # k
      PROVE  ChainsOK'
  <2>1. \A j \in Chains \ {k} : step'[j] = step[j] /\ todo'[j] = todo[j]
    BY <1>1, <1>4 DEF Return
  <2>2. \A j \in Chains \ {k} : ChainOK(j)'
    BY <1>4, <2>1, ChainKept
  <2>3. ChainOK(k)'
    BY <1>4, ChainReturns
  <2>4. \A c \in calls' : CallOK(c)'
    BY <1>1, <1>4, <2>1, CallKept
  <2> QED BY <1>1, <1>4, <2>2, <2>3, <2>4 DEF ChainsOK, OneCall
<1>5. ASSUME NEW k \in Chains, List(k) PROVE ChainsOK'
  <2>1. /\ step[k] = "list" /\ UNCHANGED <<outbox, answer>> /\ answer[k] = NoReceipt
        /\ \A c \in calls : c.asker # k
    BY <1>1, <1>5 DEF List, storeVars, outVars
  <2>2. CASE PendingOutbox = {}
    BY <1>4, <1>5, <2>1, <2>2 DEF List
  <2>3. CASE PendingOutbox # {}
    <3>1. PendingOutbox \in SUBSET Elems(outbox) /\ Transmit(k, PendingOutbox, calls)
      BY <1>5, <2>3 DEF List, PendingOutbox
    <3> QED BY <2>1, <2>3, <3>1, ChainTransmits
  <2> QED BY <2>2, <2>3
<1>6. ASSUME NEW k \in Chains, Receive(k) PROVE ChainsOK'
  <2> DEFINE m == First(todo[k])
  <2>1. /\ step[k] = "await" /\ answer[k] # NoReceipt /\ UNCHANGED outbox
        /\ answer' = [answer EXCEPT ![k] = NoReceipt] /\ \A c \in calls : c.asker # k
    BY <1>1, <1>6 DEF Receive, RecordReceipt
  <2>2. answer'[k] = NoReceipt /\ \A j \in Chains \ {k} : answer'[j] = answer[j]
    BY <1>1, <2>1
  <2>3. m \in todo[k] /\ todo[k] \in SUBSET Elems(outbox)
    BY <1>1, <2>1, ChainFirst
  <2>4. CASE Return(k) /\ UNCHANGED calls
    BY <1>4, <2>1, <2>2, <2>4
  <2>5. CASE Transmit(k, todo[k] \ {m}, calls) /\ todo[k] # {m}
    <3>1. todo[k] \ {m} # {} /\ todo[k] \ {m} \in SUBSET Elems(outbox)
      BY <2>3, <2>5
    <3> QED BY <2>1, <2>2, <2>5, <3>1, ChainTransmits
  <2> QED BY <1>6, <2>4, <2>5 DEF Receive
<1>7. ASSUME NEW k \in Chains, TimeOut(k) PROVE ChainsOK'
  <2> DEFINE mine == {c \in calls : c.asker = k}
             late == {[c EXCEPT !.asker = None] : c \in mine}
  <2>1. /\ step[k] = "await" /\ Return(k) /\ answer' = [answer EXCEPT ![k] = NoReceipt] /\ UNCHANGED outbox
        /\ \A c \in calls' : c.asker # k
        /\ calls' \subseteq calls \/ calls' = (calls \ mine) \union late
    BY <1>7 DEF TimeOut, storeVars, outVars
  <2>2. answer'[k] = NoReceipt /\ \A j \in Chains \ {k} : answer'[j] = answer[j]
    BY <1>1, <2>1
  <2>3. CASE calls' \subseteq calls
    BY <1>4, <2>1, <2>2, <2>3
  <2>4. CASE calls' = (calls \ mine) \union late
    <3>1. \A j \in Chains \ {k} : step'[j] = step[j] /\ todo'[j] = todo[j]
      BY <1>1, <2>1 DEF Return
    <3>2. \A j \in Chains \ {k} : ChainOK(j)'
      BY <2>2, <3>1, ChainKept
    <3>3. ChainOK(k)'
      BY <2>1, <2>2, ChainReturns
    <3>4. ASSUME NEW c \in calls \ mine PROVE CallOK(c)'
      BY <1>1, <2>2, <3>1, CallKept
    <3>5. ASSUME NEW d \in late PROVE CallOK(d)' /\ d.asker = None
      <4>1. PICK c \in mine : d = [c EXCEPT !.asker = None]
        OBVIOUS
      <4>2. c \in Calls /\ c.msg \in Elems(outbox)
        BY <1>1 DEF MailInv, Askers
      <4>3. d \in Calls /\ d.msg = c.msg /\ d.asker = None
        BY <4>1, <4>2 DEF Calls
      <4> QED BY <2>1, <4>2, <4>3 DEF CallOK
    <3> HIDE DEF mine, late
    <3>6. OneCall'
      BY <1>1, <2>4, <3>5 DEF OneCall, mine
    <3> QED BY <2>4, <3>2, <3>3, <3>4, <3>5, <3>6 DEF ChainsOK
  <2> QED BY <2>1, <2>3, <2>4
<1>8. ASSUME NEW c \in calls, Admit(c) PROVE ChainsOK'
  <2> DEFINE d == [c EXCEPT !.stage = "admitted"]
  <2>1. UNCHANGED <<step, todo, answer, outbox>> /\ calls' = (calls \ {c}) \union {d}
    BY <1>8 DEF Admit, chainVars, storeVars, outVars
  <2>2. d \in Calls /\ d.msg = c.msg /\ d.asker = c.asker
    BY <1>1 DEF Calls
  <2>3. \A e \in calls : CallOK(e)'
    BY <2>1, CallKept
  <2> HIDE DEF d
  <2>4. CallOK(d)'
    BY <2>2, <2>3 DEF CallOK
  <2>5. \A k \in Chains : ChainOK(k)'
    BY <2>1, ChainKept
  <2>6. OneCall'
    BY <1>1, <2>1, <2>2 DEF OneCall
  <2> QED BY <2>1, <2>3, <2>4, <2>5, <2>6 DEF ChainsOK
<1>9. ASSUME NEW c \in calls, Refuse(c) PROVE ChainsOK'
  <2>1. /\ Rejected("refused") \in Receipt /\ Rejected("TARGET_ENDED") \in Receipt
        /\ Rejected("refused").state = "rejected" /\ Rejected("TARGET_ENDED").state = "rejected"
        /\ Rejected("refused").outcome = "refused" /\ Rejected("TARGET_ENDED").outcome = "TARGET_ENDED"
    BY DEF Rejected, Receipt, States, Outcomes
  <2>2. /\ UNCHANGED chainVars /\ UNCHANGED <<outbox, run>>
        /\ Answer(c, Rejected("refused")) \/ (run # "live" /\ Answer(c, Rejected("TARGET_ENDED")))
    BY <1>9 DEF Refuse, storeVars, outVars
  <2>3. /\ News(c.msg, Rejected("refused"))'
        /\ run # "live" => News(c.msg, Rejected("TARGET_ENDED"))'
    BY <2>1, <2>2 DEF News, Credible, KnownStates, Refusals
  <2> QED BY <2>1, <2>2, <2>3, CallAnswered
<1>10. ASSUME NEW c \in calls, AcceptEnvelope(c) PROVE ChainsOK'
  <2>1. PICK r \in Receipt : Accept(c.msg, r) /\ Answer(c, r)
    BY <1>10 DEF AcceptEnvelope
  <2>2. UNCHANGED chainVars /\ UNCHANGED outbox
    BY <1>10, <2>1 DEF AcceptEnvelope, Accept, outVars
  <2>3. \/ r = Rejected("refused")
        \/ r = got'[c.msg] /\ c.msg \in Elems(inbox')
    <3>1. /\ Swept \in [Msgs -> Receipt] /\ inbox \in Seq(Msgs) /\ c.msg \in Msgs
          /\ Unique(inbox) /\ IsFiniteSet(Elems(inbox)) /\ Len(inbox) = Cardinality(Elems(inbox))
      BY <1>1, SweptFacts DEF MailInv, TypeOK, StoreTypeOK, Custody
    <3>2. CASE c.msg \in Elems(inbox)
      BY <2>1, <3>2 DEF Accept
    <3>3. CASE c.msg \notin Elems(inbox) /\ inbox' = Append(inbox, c.msg) /\ got' = [Swept EXCEPT ![c.msg] = r]
      BY <3>1, <3>3, AppendNew
    <3> QED BY <2>1, <3>2, <3>3 DEF Accept
  <2>4. News(c.msg, r)'
    <3>1. CASE r = Rejected("refused")
      BY <3>1 DEF News, Credible, KnownStates, Refusals, Rejected
    <3>2. CASE r = got'[c.msg] /\ c.msg \in Elems(inbox')
      <4>1. GotOK(c.msg)'
        BY <1>1, InboxNext DEF InboxOK
      <4> QED BY <3>2, <4>1 DEF GotOK, News, Credible
    <3> QED BY <2>3, <3>1, <3>2
  <2> QED BY <2>1, <2>2, <2>4, CallAnswered
<1> QED
  BY <1>2, <1>3, <1>5, <1>6, <1>7, <1>8, <1>9, <1>10, Kinds
  DEF ChainMove, ChainStep, CallStep, chainVars, netVars

-----------------------------------------------------------------------------
(* The consumers. *)

ReaderTypes ==
  /\ token \in [Msgs -> Consumers \union {None, Lost}]
  /\ reader \in [Consumers -> {"idle", "chosen", "recording", "marking", "releasing"}]
  /\ batch \in [Consumers -> SUBSET Msgs]
  /\ recorded \subseteq Msgs /\ replied \subseteq Msgs
  /\ overdue \subseteq Msgs /\ run \in {"live", "ending", "ended"}

ReaderOK(c) ==
  /\ batch[c] \subseteq Elems(inbox)
  /\ \A m \in Msgs : token[m] = c <=> Dealing(c) /\ m \in batch[c]
  /\ reader[c] = "marking" => batch[c] \subseteq recorded

\* What a consumer can be shown, or what is still ready, is in the inbox.
LEMMA ReadyThere ==
  ASSUME MailInv, NEW S \in SUBSET Msgs
  PROVE  Ready(S) \subseteq Elems(inbox) /\ Ready(S) \subseteq S /\ Readable \subseteq Elems(inbox) /\ Elems(inbox) \subseteq Msgs
<1>1. got \in [Msgs -> Receipt] /\ inbox \in Seq(Msgs) /\ \A m \in Msgs : m \in Elems(inbox) <=> got[m].state # "none"
  BY DEF MailInv, TypeOK, StoreTypeOK, Custody
<1>2. \A m \in Msgs : Swept[m].state = "accepted" => m \in Elems(inbox)
  BY <1>1, SweptFacts
<1> QED BY <1>1, <1>2 DEF Ready, Readable, Plain, Elems

\* A consumer nothing happens to keeps its messages: a message tied to it is tied to no other,
\* and nobody unties it.
LEMMA ReaderKept ==
  ASSUME MailInv, Next, NEW c \in Consumers, reader'[c] = reader[c], batch'[c] = batch[c],
         \A m \in Msgs : token'[m] = c <=> token[m] = c
  PROVE  ReaderOK(c)'
<1>1. ReaderOK(c)
  BY DEF MailInv, Readers, ReaderOK
<1> QED BY <1>1, Grow DEF ReaderOK, Dealing

LEMMA ReadersNext ==
  ASSUME MailInv, Next
  PROVE  ReaderTypes' /\ \A c \in Consumers : ReaderOK(c)'
<1> DEFINE Goal == ReaderTypes' /\ \A c \in Consumers : ReaderOK(c)'
<1>1. /\ ReaderTypes /\ \A c \in Consumers : ReaderOK(c)
      /\ None \notin Consumers /\ Lost \notin Consumers
      /\ Mortal \subseteq Msgs /\ Answered \subseteq Msgs
      /\ Elems(inbox) \subseteq Msgs
  BY StoreAssumption, MessagingAssumption, ReadyThere DEF MailInv, TypeOK, StoreTypeOK, Readers, ReaderOK, ReaderTypes
<1>2. ASSUME UNCHANGED <<token, reader, batch>>, recorded' = recorded, replied' \subseteq Msgs, overdue' \subseteq Msgs,
             run' \in {"live", "ending", "ended"}
      PROVE  Goal
  BY <1>1, <1>2, ReaderKept DEF ReaderTypes
\* A step of the consumer c that ties no message to another consumer, nor unties one.
<1>3. ASSUME NEW c \in Consumers, UNCHANGED <<replied, overdue, run>>,
             token' \in [Msgs -> Consumers \union {None, Lost}], recorded' \subseteq Msgs,
             NEW p \in {"idle", "chosen", "recording", "marking", "releasing"}, NEW S \in SUBSET Msgs,
             Reading(c, p, S),
             \A m \in Msgs : token'[m] = token[m] \/ {token'[m], token[m]} \subseteq {c, None, Lost},
             S \subseteq Elems(inbox), p = "marking" => S \subseteq recorded',
             \A m \in Msgs : token'[m] = c <=> p \in {"recording", "marking", "releasing"} /\ m \in S
      PROVE  Goal
  <2>1. /\ reader'[c] = p /\ batch'[c] = S
        /\ \A d \in Consumers \ {c} : reader'[d] = reader[d] /\ batch'[d] = batch[d]
        /\ ReaderTypes'
    BY <1>1, <1>3 DEF Reading, ReaderTypes
  <2>2. \A d \in Consumers \ {c} : ReaderOK(d)'
    BY <1>1, <1>3, <2>1, ReaderKept
  <2>3. ReaderOK(c)'
    BY <1>3, <2>1, Grow DEF ReaderOK, Dealing
  <2> QED BY <2>1, <2>2, <2>3
<1>4. ASSUME NEW c \in Consumers, Look(c) PROVE Goal
  <2>1. PICK S \in SUBSET Readable : Reading(c, "chosen", S)
    BY <1>4 DEF Look
  <2>2. S \in SUBSET Msgs /\ S \subseteq Elems(inbox)
    BY <1>1, ReadyThere
  <2>3. /\ UNCHANGED <<token, replied, overdue, run, recorded>> /\ ~Dealing(c)
    BY <1>4 DEF Look, Touch, Dealing
  <2>4. \A m \in Msgs : token[m] # c
    BY <1>1, <2>3 DEF ReaderOK
  <2> QED BY <1>1, <1>3, <2>1, <2>2, <2>3, <2>4 DEF ReaderTypes
<1>5. ASSUME NEW c \in Consumers, Consume(c) PROVE Goal
  <2>1. /\ UNCHANGED <<replied, overdue, run, recorded>> /\ ~Dealing(c)
        /\ Ready(batch[c]) \in SUBSET Msgs /\ Ready(batch[c]) \subseteq Elems(inbox)
    BY <1>1, <1>5, ReadyThere DEF Consume, Dealing, Prepare, ReaderTypes, storeVars
  <2>2. \A m \in Msgs : token[m] # c
    BY <1>1, <2>1 DEF ReaderOK
  <2>3. CASE Reading(c, "idle", {}) /\ UNCHANGED token
    BY <1>1, <1>3, <2>1, <2>2, <2>3 DEF ReaderTypes
  <2>4. CASE Prepare(c, batch[c])
    <3>1. /\ token' = [m \in Msgs |-> IF m \in Ready(batch[c]) THEN c ELSE token[m]]
          /\ \A m \in Ready(batch[c]) : token[m] = None
      BY <2>4 DEF Prepare, Busy
    <3>2. \A m \in Msgs : /\ m \in Ready(batch[c]) => token'[m] = c /\ token[m] = None
                          /\ m \notin Ready(batch[c]) => token'[m] = token[m]
      BY <3>1
    <3>3. token' \in [Msgs -> Consumers \union {None, Lost}]
      BY <1>1, <3>1 DEF ReaderTypes
    <3>4. CASE Ready(batch[c]) = {} /\ Reading(c, "idle", {})
      BY <1>1, <1>3, <2>1, <2>2, <3>2, <3>3, <3>4 DEF ReaderTypes
    <3>5. CASE Reading(c, "recording", Ready(batch[c]))
      BY <1>1, <1>3, <2>1, <2>2, <3>2, <3>3, <3>5 DEF ReaderTypes
    <3> QED BY <1>5, <2>4, <3>4, <3>5 DEF Consume, Prepare
  <2> QED BY <1>5, <2>3, <2>4 DEF Consume, storeVars, inVars
<1>6. ASSUME NEW c \in Consumers, RecordContext(c) \/ RecordFails(c) \/ MarkFails(c) PROVE Goal
  <2>1. /\ UNCHANGED <<token, replied, overdue, run>> /\ Dealing(c)
        /\ recorded' \in {recorded, recorded \union batch[c]}
        /\ \/ Reading(c, "marking", batch[c]) /\ recorded' = recorded \union batch[c]
           \/ Reading(c, "releasing", batch[c])
    BY <1>6 DEF RecordContext, RecordFails, MarkFails, Dealing, storeVars, inVars
  <2>2. batch[c] \in SUBSET Msgs /\ batch[c] \subseteq Elems(inbox) /\ \A m \in Msgs : token[m] = c <=> m \in batch[c]
    BY <1>1, <2>1 DEF ReaderTypes, ReaderOK
  <2>3. token' \in [Msgs -> Consumers \union {None, Lost}] /\ recorded' \subseteq Msgs
    BY <1>1, <2>1, <2>2 DEF ReaderTypes
  <2> QED BY <1>3, <2>1, <2>2, <2>3
<1>7. ASSUME NEW c \in Consumers, Mark(c) \/ Release(c) \/ ReleaseFails(c) PROVE Goal
  <2>1. /\ UNCHANGED <<replied, overdue, run, recorded>>
        /\ Reading(c, "idle", {})
        /\ \/ token' = [m \in Msgs |-> IF token[m] = c THEN None ELSE token[m]]
           \/ token' = [m \in Msgs |-> IF token[m] = c THEN Lost ELSE token[m]]
    BY <1>7 DEF Mark, Release, ReleaseFails, MarkConsumed, ReleaseConsumer, AbandonConsumer, Untied
  <2>2. /\ token' \in [Msgs -> Consumers \union {None, Lost}]
        /\ \A m \in Msgs : /\ token[m] = c => token'[m] \in {None, Lost}
                           /\ token[m] # c => token'[m] = token[m]
    BY <1>1, <2>1 DEF ReaderTypes
  <2> QED BY <1>1, <1>3, <2>1, <2>2 DEF ReaderTypes
<1>8. ASSUME NEW m \in Msgs, Reply(m) \/ Expire(m) \/ BeginEndRun \/ EndRun \/ OtherTransaction PROVE Goal
  <2>1. /\ UNCHANGED <<token, reader, batch>> /\ recorded' = recorded /\ replied' \subseteq Msgs /\ overdue' \subseteq Msgs
        /\ run' \in {"live", "ending", "ended"}
    BY <1>1, <1>8 DEF Reply, Expire, BeginEndRun, EndRun, OtherTransaction, MarkReplied, EndRecipient, Touch,
       storeVars, inVars, readVars, ReaderTypes
  <2> QED BY <1>2, <2>1
<1>9. ASSUME BeginEndRun \/ EndRun \/ OtherTransaction PROVE Goal
  <2>1. /\ UNCHANGED <<token, reader, batch>> /\ recorded' = recorded /\ replied' \subseteq Msgs /\ overdue' \subseteq Msgs
        /\ run' \in {"live", "ending", "ended"}
    BY <1>1, <1>9 DEF BeginEndRun, EndRun, OtherTransaction, EndRecipient, Touch,
       storeVars, inVars, readVars, ReaderTypes
  <2> QED BY <1>2, <2>1
<1>10. CASE UNCHANGED <<token, overdue, run, readVars, replied>>
  BY <1>1, <1>2, <1>10 DEF readVars, ReaderTypes
<1> QED
  BY <1>1, <1>4, <1>5, <1>6, <1>7, <1>8, <1>9, <1>10, Kinds DEF RecipientMove, ReaderStep, inVars

-----------------------------------------------------------------------------
(* The order in which messages may still reach the inbox. *)

CallOrder(x) == \A n \in Msgs : Before(n, x) => Settled(n)
TodoOrder(S) == \A m \in S, n \in Msgs : Before(n, m) => Settled(n) \/ n \in S

\* A message that has arrived or been refused stays so.
LEMMA SettledStays ==
  ASSUME MailInv, Next, NEW n \in Msgs, Settled(n)
  PROVE  Settled(n)'
<1>1. sent \in [Msgs -> Receipt] /\ (n \in Elems(outbox) <=> sent[n].state # "none")
  BY DEF MailInv, TypeOK, StoreTypeOK, Custody
<1>2. CASE n \in Elems(inbox)
  BY <1>2, Grow DEF Settled
<1>3. CASE sent[n].state = "rejected"
  <2>1. ASSUME NEW m \in Elems(outbox), NEW r \in Receipt, sent' = [sent EXCEPT ![m] = Merge(@, r)]
        PROVE  sent'[n].state = "rejected"
    <3>1. Merge(sent[n], r).state = "rejected"
      BY <1>1, <1>3, MergeFacts DEF Obsolete
    <3> QED BY <1>1, <1>3, <2>1, <3>1
  <2>2. ASSUME NEW m \in Msgs \ Elems(outbox), sent' = [sent EXCEPT ![m] = Plain("pending")]
        PROVE  sent'[n].state = "rejected"
    BY <1>1, <1>3, <2>2
  <2> QED BY <1>3, <2>1, <2>2, SenderStep DEF SenderEffect, Settled, outVars
<1> QED BY <1>2, <1>3 DEF Settled

\* What is submitted now comes after everything that was.
LEMMA BeforeKept ==
  ASSUME MailInv, Next, NEW x \in Elems(outbox), NEW n, Before(n, x)'
  PROVE  Before(n, x)
<1>1. /\ outbox \in Seq(Msgs) /\ Unique(outbox) /\ IsFiniteSet(Elems(outbox))
      /\ Len(outbox) = Cardinality(Elems(outbox)) /\ DOMAIN outbox = 1..Len(outbox) /\ Len(outbox) \in Nat
  BY DEF MailInv, TypeOK, StoreTypeOK, Custody
<1>2. ASSUME NEW m \in Msgs \ Elems(outbox), outbox' = Append(outbox, m)
      PROVE  Before(n, x)
  <2>1. /\ DOMAIN outbox' = DOMAIN outbox \union {Len(outbox) + 1} /\ outbox'[Len(outbox) + 1] = m
        /\ \A i \in DOMAIN outbox : outbox'[i] = outbox[i]
    BY <1>1, <1>2, AppendNew
  <2>2. PICK i, j \in DOMAIN outbox' : i < j /\ outbox'[i] = n /\ outbox'[j] = x
    BY DEF Before
  <2>3. j \in DOMAIN outbox
    BY <1>2, <2>1, <2>2
  <2>4. i \in DOMAIN outbox
    BY <1>1, <2>1, <2>2, <2>3
  <2> QED BY <2>1, <2>2, <2>3, <2>4 DEF Before
<1> QED BY <1>2, SenderStep DEF SenderEffect, outVars, Before

LEMMA OrderKept ==
  ASSUME MailInv, Next
  PROVE  /\ \A x \in Elems(outbox) : CallOrder(x) => CallOrder(x)'
         /\ \A S \in SUBSET Elems(outbox) : TodoOrder(S) => TodoOrder(S)'
<1>1. ASSUME NEW x \in Elems(outbox), CallOrder(x) PROVE CallOrder(x)'
  <2> SUFFICES ASSUME NEW n \in Msgs, Before(n, x)' PROVE Settled(n)'
    BY DEF CallOrder
  <2> QED BY <1>1, BeforeKept, SettledStays DEF CallOrder
<1>2. ASSUME NEW S \in SUBSET Elems(outbox), TodoOrder(S) PROVE TodoOrder(S)'
  <2> SUFFICES ASSUME NEW m \in S, NEW n \in Msgs, Before(n, m)' PROVE Settled(n)' \/ n \in S
    BY DEF TodoOrder
  <2>1. Before(n, m)
    BY BeforeKept
  <2> QED BY <1>2, <2>1, SettledStays DEF TodoOrder
<1> QED BY <1>1, <1>2

LEMMA OrderNext ==
  ASSUME MailInv, Next
  PROVE  Order'
<1>1. /\ outbox \in Seq(Msgs) /\ Unique(outbox) /\ calls \subseteq Calls
      /\ step \in [Chains -> {"idle", "list", "await"}] /\ todo \in [Chains -> SUBSET Msgs]
      /\ answer \in [Chains -> Receipt]
      /\ \A k \in Chains : todo[k] \in SUBSET Elems(outbox)
      /\ \A c \in calls : c.msg \in Elems(outbox) /\ CallOrder(c.msg)
      /\ \A k \in Chains : step[k] = "await" => TodoOrder(todo[k])
  BY DEF MailInv, TypeOK, StoreTypeOK, Custody, Askers, Order, CallOrder, TodoOrder
<1>2. /\ \A c \in calls : CallOrder(c.msg)'
      /\ \A k \in Chains, S \in SUBSET Msgs : step[k] = "await" /\ S = todo[k] => TodoOrder(S)'
  BY <1>1, OrderKept
<1>3. SUFFICES /\ \A c \in calls' : CallOrder(c.msg)'
               /\ \A k \in Chains, S \in SUBSET Msgs : step'[k] = "await" /\ S = todo'[k] => TodoOrder(S)'
  <2> SUFFICES ASSUME NEW k \in Chains, step'[k] = "await"
               PROVE  (\A m \in todo[k], n \in Msgs : Before(n, m) => Settled(n) \/ n \in todo[k])'
    BY <1>3 DEF Order, CallOrder
  <2>1. todo'[k] \in SUBSET Msgs
    BY ChainTypesNext DEF ChainTypes
  <2> QED BY <1>3, <2>1 DEF TodoOrder
<1> DEFINE Goal == /\ \A c \in calls' : CallOrder(c.msg)'
                   /\ \A k \in Chains, S \in SUBSET Msgs : step'[k] = "await" /\ S = todo'[k] => TodoOrder(S)'
<1>4. ASSUME \A c \in calls' : \E d \in calls : c.msg = d.msg,
             \A k \in Chains : step'[k] = "await" => step[k] = "await" /\ todo'[k] = todo[k]
      PROVE  Goal
  BY <1>2, <1>4 DEF CallOrder
<1>5. ASSUME NEW k \in Chains, NEW S \in SUBSET Elems(outbox), S # {}, UNCHANGED outbox,
             Transmit(k, S, calls), TodoOrder(S)'
      PROVE  Goal
  <2>1. S \in SUBSET Elems(outbox') /\ outbox' \in Seq(Msgs) /\ Unique(outbox')
    BY <1>1, <1>5
  <2>2. ASSUME NEW x, x = First(S) PROVE CallOrder(x)'
    <3>1. PICK a \in DOMAIN outbox : outbox[a] = x /\ outbox[a] \in S /\ \A j \in 1..(a - 1) : outbox[j] \notin S
      <4>1. x = FirstOf(outbox, S)
        BY <2>2 DEF First, FirstOf
      <4> QED BY <1>1, <1>5, <4>1, FirstThere
    <3> SUFFICES ASSUME NEW n \in Msgs, Before(n, x)' PROVE Settled(n)'
      BY DEF CallOrder
    <3>2. PICK i, j \in DOMAIN outbox : i < j /\ outbox[i] = n /\ outbox[j] = x
      BY <1>5 DEF Before
    <3>3. j = a /\ i \in 1..(a - 1)
      BY <1>1, <3>1, <3>2 DEF Unique
    <3>4. n \notin S /\ x \in S
      BY <3>1, <3>2, <3>3
    <3> QED BY <1>5, <3>4 DEF TodoOrder
  <2>3. /\ \A c \in calls' : c \in calls \/ c.msg = First(S)
        /\ \A j \in Chains : (j = k /\ todo'[j] = S) \/ (step'[j] = step[j] /\ todo'[j] = todo[j])
    BY <1>1, <1>5 DEF Transmit
  <2> QED BY <1>2, <1>5, <2>2, <2>3
<1>6. ASSUME NEW k \in Chains, Return(k), \A c \in calls' : \E d \in calls : c.msg = d.msg PROVE Goal
  <2>1. \A j \in Chains : step'[j] = "await" => step[j] = "await" /\ todo'[j] = todo[j]
    BY <1>1, <1>6 DEF Return
  <2> QED BY <1>4, <1>6, <2>1
<1> HIDE DEF Goal
<1>7. ASSUME NEW k \in Chains, List(k) PROVE Goal
  <2>1. UNCHANGED <<outbox, sent, inbox>>
    BY <1>7 DEF List, storeVars, outVars, inVars
  <2>2. CASE PendingOutbox = {}
    BY <1>6, <1>7, <2>2 DEF List
  <2>3. CASE PendingOutbox # {} /\ Transmit(k, PendingOutbox, calls)
    <3>1. TodoOrder(PendingOutbox)
      <4> SUFFICES ASSUME NEW m \in PendingOutbox, NEW n \in Msgs, Before(n, m)
                   PROVE  Settled(n) \/ n \in PendingOutbox
        BY DEF TodoOrder
      <4>1. n \in Elems(outbox)
        BY DEF Before, Elems
      <4>2. sent[n].state \in States /\ sent[n].state # "none" /\ Credible(n, sent[n])
        BY <4>1 DEF MailInv, TypeOK, StoreTypeOK, Custody, Receipts, Receipt
      <4> QED BY <4>1, <4>2 DEF PendingOutbox, Settled, Credible, States, KnownStates
    <3>2. PendingOutbox \in SUBSET Elems(outbox)
      BY DEF PendingOutbox
    <3>3. ASSUME NEW S, S = PendingOutbox PROVE Goal
      <4>1. S \in SUBSET Elems(outbox) /\ S # {} /\ Transmit(k, S, calls) /\ TodoOrder(S)
        BY <2>3, <3>1, <3>2, <3>3
      <4>2. TodoOrder(S)'
        BY <4>1, OrderKept
      <4> QED BY <1>5, <2>1, <4>1, <4>2
    <3> QED BY <3>3
  <2> QED BY <1>7, <2>2, <2>3 DEF List
<1>8. ASSUME NEW k \in Chains, Receive(k) PROVE Goal
  <2>1. step[k] = "await" /\ answer[k] # NoReceipt /\ UNCHANGED outbox
    BY <1>8 DEF Receive, RecordReceipt
  <2>2. CASE Return(k) /\ UNCHANGED calls
    BY <1>6, <2>2
  <2>3. CASE Transmit(k, todo[k] \ {First(todo[k])}, calls) /\ todo[k] # {First(todo[k])} /\ answer[k] \notin Refusals
    <3>1. First(todo[k]) \in todo[k] /\ First(todo[k]) \in Msgs
      BY <2>1, ChainFirst
    <3>2. First(todo[k]) \in Elems(inbox')
      <4>1. News(First(todo[k]), answer[k])
        BY <2>1 DEF MailInv, Receipts
      <4>2. First(todo[k]) \in Elems(inbox)
        BY <2>3, <4>1 DEF News, Credible
      <4> QED BY <4>2, Grow
    <3>3. ASSUME NEW S, S = todo[k] \ {First(todo[k])} PROVE Goal
      <4>1. S \in SUBSET Elems(outbox) /\ S # {} /\ Transmit(k, S, calls)
        BY <1>1, <2>3, <3>1, <3>3
      <4>2. TodoOrder(S)'
        <5> SUFFICES ASSUME NEW m \in S, NEW n \in Msgs, Before(n, m)' PROVE Settled(n)' \/ n \in S
          BY DEF TodoOrder
        <5>1. Settled(n)' \/ n \in todo[k]
          BY <1>1, <1>2, <2>1, <3>3 DEF TodoOrder
        <5>2. n = First(todo[k]) => Settled(n)'
          BY <3>2 DEF Settled
        <5> QED BY <3>3, <5>1, <5>2
      <4> QED BY <1>5, <2>1, <4>1, <4>2
    <3> QED BY <3>3
  <2> QED BY <1>8, <2>2, <2>3 DEF Receive
<1>9. ASSUME NEW k \in Chains, TimeOut(k) PROVE Goal
  <2>1. Return(k)
    BY <1>9 DEF TimeOut
  <2>2. \A c \in calls : [c EXCEPT !.asker = None].msg = c.msg
    BY <1>1 DEF Calls
  <2>3. \A c \in calls' : c \in calls \/ \E d \in calls : c = [d EXCEPT !.asker = None]
    BY <1>9 DEF TimeOut
  <2>4. \A c \in calls' : \E d \in calls : c.msg = d.msg
    BY <2>2, <2>3
  <2> QED BY <1>6, <2>1, <2>4
<1>10. ASSUME NEW k \in Chains, NEW m \in Msgs, Submit(k, m) PROVE Goal
  <2>1. UNCHANGED <<calls, todo>> /\ \A j \in Chains : step'[j] = step[j] \/ step'[j] = "list"
    BY <1>1, <1>10 DEF Submit, netVars, chainVars
  <2> QED BY <1>4, <2>1
<1>11. CASE CallStep /\ UNCHANGED chainVars
  <2>1. \A c \in calls : [c EXCEPT !.stage = "admitted"].msg = c.msg
    BY <1>1 DEF Calls
  <2>2. \A c \in calls' : \E d \in calls : c.msg = d.msg
    BY <1>11, <2>1 DEF CallStep, Admit, Refuse, AcceptEnvelope, Answer
  <2> QED BY <1>4, <1>11, <2>2 DEF chainVars, Goal
<1>12. CASE UNCHANGED <<chainVars, calls>>
  BY <1>4, <1>12 DEF chainVars, Goal
<1> QED BY <1>7, <1>8, <1>9, <1>10, <1>11, <1>12, Kinds DEF ChainMove, ChainStep, netVars, Goal

-----------------------------------------------------------------------------
(* The invariant, and what follows from it. *)

LEMMA MailInit ==
  ASSUME Init
  PROVE  MailInv
<1>1. /\ Elems(<<>>) = {} /\ IsFiniteSet({}) /\ Cardinality({}) = 0 /\ Len(<<>>) = 0 /\ <<>> \in Seq(Msgs)
      /\ DOMAIN <<>> = {}
  BY FS_EmptySet DEF Elems
<1>2. NoReceipt \in Receipt /\ NoReceipt.state = "none" /\ NoReceipt.outcome = None /\ None # "TARGET_ENDED"
  BY StoreAssumption DEF NoReceipt, Receipt, States, Outcomes
<1>3. TypeOK
  BY <1>1, <1>2 DEF Init, StoreInit, TypeOK, StoreTypeOK
<1>4. Custody
  BY <1>1, <1>2 DEF Init, StoreInit, Custody, Unique
<1>5. Askers
  BY DEF Init, Askers
<1>6. Receipts
  BY <1>2 DEF Init, StoreInit, Receipts, Credible, KnownStates
<1>7. Readers
  BY StoreAssumption DEF Init, StoreInit, Readers, Dealing
<1>8. Order
  BY DEF Init, Order
<1> QED BY <1>3, <1>4, <1>5, <1>6, <1>7, <1>8 DEF MailInv

LEMMA MailNext ==
  ASSUME MailInv, [Next]_vars
  PROVE  MailInv'
<1>1. CASE Next
  <2>1. OutboxOK' /\ InboxOK' /\ NotesOK' /\ ChainTypes' /\ ChainsOK' /\ ReaderTypes' /\ Order'
        /\ \A c \in Consumers : ReaderOK(c)'
    BY <1>1, OutboxNext, InboxNext, NotesNext, ChainTypesNext, ChainsNext, ReadersNext, OrderNext
  <2>2. TypeOK'
    BY <2>1 DEF TypeOK, StoreTypeOK, OutboxOK, InboxOK, NotesOK, ChainTypes, ChainsOK, CallOK, ReaderTypes
  <2>3. Custody'
    BY <2>1 DEF Custody, OutboxOK, InboxOK, GotOK
  <2>4. Askers'
    BY <2>1 DEF Askers, ChainsOK, ChainOK, CallOK, OneCall
  <2>5. Receipts'
    BY <2>1 DEF Receipts, OutboxOK, InboxOK, GotOK, ChainsOK, ChainOK, NotesOK
  <2>6. Readers'
    BY <2>1 DEF Readers, ReaderOK
  <2> QED BY <2>1, <2>2, <2>3, <2>4, <2>5, <2>6 DEF MailInv
<1>2. CASE UNCHANGED vars
  <2>1. /\ UNCHANGED <<outbox, sent, inbox, got, token, overdue, step, own, todo, calls, answer, notes>>
        /\ UNCHANGED <<run, reader, batch, recorded, replied>>
    BY <1>2 DEF vars, storeVars, outVars, inVars, chainVars, netVars, readVars
  <2>2. TypeOK'
    BY <2>1 DEF MailInv, TypeOK, StoreTypeOK
  <2>3. Custody'
    BY <2>1 DEF MailInv, Custody
  <2>4. Askers'
    BY <2>1 DEF MailInv, Askers, First, NoReceipt
  <2>5. Receipts'
    BY <2>1 DEF MailInv, Receipts, Credible, News, First, NoReceipt
  <2>6. Readers'
    BY <2>1 DEF MailInv, Readers, Dealing
  <2>7. Order'
    BY <2>1 DEF MailInv, Order, Before, Settled
  <2> QED BY <2>2, <2>3, <2>4, <2>5, <2>6, <2>7 DEF MailInv
<1> QED BY <1>1, <1>2

\* The invariant holds in every reachable state, for any number of messages, chains and
\* consumers, any capacity, and whatever is lost, late or throws.
THEOREM MailInvariant == Spec => []MailInv
<1>1. Init => MailInv
  BY MailInit
<1>2. MailInv /\ [Next]_vars => MailInv'
  BY MailNext
<1> QED BY <1>1, <1>2, PTL DEF Spec

\* A message is submitted and accepted at most once, however often it is sent again, and the
\* types hold (PeerMessageStore.accept, enqueueOutbound).
THEOREM MailTypes == Spec => []TypeOK
BY MailInvariant, PTL DEF MailInv

\* Whichever way the receipts come, consumed means recorded in a context, replied that a reply
\* was accepted, and TARGET_ENDED that the run is ending (PeerMessageStore.recordReceipt).
THEOREM ReceiptsTrue == Spec => []ReceiptsAreTrue
<1>1. MailInv => ReceiptsAreTrue
  BY DEF MailInv, Receipts, Credible, ReceiptsAreTrue
<1> QED BY <1>1, MailInvariant, PTL

\* Two contexts never deal with the same message at once (PeerMessageStore.consume): a message
\* they both dealt with would be tied to both.
THEOREM OneReaderOnly == Spec => []OneReader
<1>1. MailInv => OneReader
  <2> SUFFICES ASSUME MailInv, NEW c \in Consumers, NEW d \in Consumers, c # d,
                      NEW m \in batch[c] \intersect batch[d], Dealing(c), Dealing(d)
               PROVE  FALSE
    BY DEF OneReader, Dealing
  <2>1. m \in Msgs
    BY DEF MailInv, TypeOK
  <2>2. token[m] = c /\ token[m] = d
    BY <2>1 DEF MailInv, Readers
  <2> QED BY <2>2
<1> QED BY <1>1, MailInvariant, PTL

\* What the sender was told of a message is never taken back (PeerMessageStore.recordReceipt,
\* enqueueOutbound): not by a late receipt, nor by the refusal of a copy sent again.
THEOREM ProgressKept == Spec => ProgressIsKept
<1> DEFINE Kept == \A m \in Msgs :
       /\ sent[m].state = "replied" => sent'[m].state = "replied"
       /\ sent[m].state = "consumed" => sent'[m].state \in {"consumed", "replied"}
       /\ sent[m].state = "accepted" => sent'[m].state \in {"accepted", "consumed", "replied", "expired"}
<1>1. MailInv /\ [Next]_vars => [Kept]_vars
  <2> SUFFICES ASSUME MailInv, Next PROVE Kept
    OBVIOUS
  <2>1. sent \in [Msgs -> Receipt] /\ \A m \in Msgs : m \in Elems(outbox) <=> sent[m].state # "none"
    BY DEF MailInv, TypeOK, StoreTypeOK, Custody
  <2>2. ASSUME NEW m \in Msgs \ Elems(outbox), sent' = [sent EXCEPT ![m] = Plain("pending")] PROVE Kept
    BY <2>1, <2>2
  <2>3. ASSUME NEW m \in Elems(outbox), NEW r \in Receipt, News(m, r), sent' = [sent EXCEPT ![m] = Merge(@, r)]
        PROVE  Kept
    <3>1. r.state \in {"accepted", "consumed", "replied", "expired", "rejected"}
      BY <2>3 DEF News, KnownStates, Refusals, Rejected
    <3>2. ASSUME NEW old \in Receipt
          PROVE  /\ old.state = "replied" => Merge(old, r).state = "replied"
                 /\ old.state = "consumed" => Merge(old, r).state \in {"consumed", "replied"}
                 /\ old.state = "accepted" => Merge(old, r).state \in {"accepted", "consumed", "replied", "expired"}
      <4>1. /\ Rank["accepted"] = 1 /\ Rank["consumed"] = 2 /\ Rank["replied"] = 3
            /\ Rank["rejected"] = 4 /\ Rank["expired"] = 4
        BY DEF Rank
      <4>2. r.state = "accepted" /\ old.state = "consumed" => Obsolete(old, r)
        BY <4>1 DEF Obsolete
      <4> QED BY <3>1, <4>2, MergeFacts DEF Obsolete
    <3> QED BY <2>1, <2>3, <3>2
  <2>4. CASE UNCHANGED sent
    BY <2>4
  <2> QED BY <2>2, <2>3, <2>4, SenderStep DEF SenderEffect, outVars
<1> QED BY <1>1, MailInvariant, PTL DEF Spec, ProgressIsKept

-----------------------------------------------------------------------------
(* The route is a mailbox. *)

KnownToSender == {m \in Msgs : sent[m].state \in {"accepted", "consumed", "replied", "expired"}}
RefusedToSender == {m \in Msgs : sent[m].state = "rejected"}

LEMMA InElems ==
  ASSUME NEW s, NEW m
  PROVE  Box!In(m, s) <=> m \in Elems(s)
BY DEF Box!In, Elems

\* The sender's transactions submit, learn or are refused.
LEMMA SenderMaps ==
  ASSUME MailInv, Next, UNCHANGED <<inbox, recorded>>
  PROVE  [Box!BoxNext]_(Box!boxVars)
<1> DEFINE Rest(k, r) == KnownToSender' = k /\ RefusedToSender' = r
<1>1. /\ sent \in [Msgs -> Receipt] /\ \A m \in Msgs : m \in Elems(outbox) <=> sent[m].state # "none"
      /\ Elems(outbox) \subseteq Msgs
  BY DEF MailInv, TypeOK, StoreTypeOK, Custody, Elems
<1>2. CASE UNCHANGED outVars
  BY <1>2 DEF outVars, Box!boxVars
<1>3. ASSUME NEW m \in Msgs \ Elems(outbox), outbox' = Append(outbox, m), sent' = [sent EXCEPT ![m] = Plain("pending")]
      PROVE  Box!Submit(m)
  <2>1. sent[m].state = "none" /\ sent'[m].state = "pending" /\ \A n \in Msgs \ {m} : sent'[n] = sent[n]
    BY <1>1, <1>3 DEF Plain
  <2>2. Rest(KnownToSender, RefusedToSender)
    BY <2>1 DEF KnownToSender, RefusedToSender
  <2> QED BY <1>3, <2>2, InElems DEF Box!Submit, KnownToSender, RefusedToSender
<1>4. ASSUME NEW m \in Elems(outbox), NEW r \in Receipt, News(m, r),
             outbox' = outbox, sent' = [sent EXCEPT ![m] = Merge(@, r)]
      PROVE  Box!Learn(m) \/ Box!Refuse(m) \/ UNCHANGED Box!boxVars
  <2>1. m \in Msgs /\ sent[m] \in Receipt
    BY <1>1
  <2>2. sent'[m] = Merge(sent[m], r) /\ \A n \in Msgs \ {m} : sent'[n] = sent[n]
    BY <1>1, <1>4, <2>1
  <2>3. CASE sent'[m] = sent[m]
    <3>1. Rest(KnownToSender, RefusedToSender)
      BY <2>2, <2>3 DEF KnownToSender, RefusedToSender
    <3> QED BY <1>4, <3>1 DEF Box!boxVars, KnownToSender, RefusedToSender
  <2>4. CASE ~Obsolete(sent[m], r)
    <3>1. sent'[m].state = r.state
      BY <2>1, <2>2, <2>4, MergeFacts
    <3>2. CASE r.state \in KnownStates
      <4>1. m \in Elems(inbox) /\ m \notin RefusedToSender
        BY <1>4, <2>4, <3>2 DEF News, Credible, Obsolete, RefusedToSender, KnownStates
      <4>2. Rest(KnownToSender \union {m}, RefusedToSender)
        BY <2>1, <2>2, <3>1, <3>2, <4>1 DEF KnownToSender, RefusedToSender, KnownStates
      <4> QED BY <1>4, <4>1, <4>2, InElems DEF Box!Learn, KnownToSender, RefusedToSender
    <3>3. CASE r.state = "rejected"
      <4>1. m \notin KnownToSender
        BY <2>4, <3>3 DEF Obsolete, KnownToSender
      <4>2. Rest(KnownToSender, RefusedToSender \union {m})
        BY <2>1, <2>2, <3>1, <3>3, <4>1 DEF KnownToSender, RefusedToSender
      <4> QED BY <1>4, <4>1, <4>2, InElems DEF Box!Refuse, KnownToSender, RefusedToSender
    <3> QED BY <1>4, <3>2, <3>3 DEF News, Refusals, Rejected
  <2> QED BY <2>1, <2>2, <2>3, <2>4, MergeFacts
<1> QED BY <1>1, <1>2, <1>3, <1>4, SenderStep DEF SenderEffect, Box!BoxNext

\* An acceptance delivers: what was submitted before is in the inbox or was refused.
LEMMA DeliveryMaps ==
  ASSUME MailInv, Next, UNCHANGED <<outVars, recorded>>
  PROVE  [Box!BoxNext]_(Box!boxVars)
<1>1. CASE UNCHANGED inbox
  BY <1>1 DEF outVars, Box!boxVars
<1>2. ASSUME NEW c \in calls, c.msg \notin Elems(inbox), inbox' = Append(inbox, c.msg)
      PROVE  Box!Deliver(c.msg)
  <2>1. c.msg \in Elems(outbox) /\ \A n \in Msgs : Before(n, c.msg) => Settled(n)
    BY DEF MailInv, Askers, Order
  <2>2. \A n \in Box!Earlier(c.msg) : Box!In(n, inbox) \/ n \in RefusedToSender
    BY <2>1, InElems DEF Box!Earlier, Before, Settled, RefusedToSender
  <2> QED BY <1>2, <2>1, <2>2, InElems DEF Box!Deliver, outVars, RefusedToSender
<1>3. \A c \in calls : c.msg \in Msgs
  BY DEF MailInv, TypeOK, Calls
<1> QED BY <1>1, <1>2, <1>3, InboxStep DEF InboxEffect, Box!BoxNext

\* A context records messages of the inbox.
LEMMA ReadingMaps ==
  ASSUME MailInv, Next, RecipientMove, UNCHANGED <<outVars, inbox>>
  PROVE  [Box!BoxNext]_(Box!boxVars)
<1>1. recorded' = recorded \/ \E c \in Consumers : recorded' = recorded \union batch[c]
  BY DEF RecipientMove, ReaderStep, Reply, Expire, BeginEndRun, EndRun, Look, Consume, RecordContext,
     RecordFails, Mark, MarkFails, Release, ReleaseFails, OtherTransaction, readVars
<1>2. CASE recorded' = recorded
  BY <1>2 DEF outVars, Box!boxVars
<1>3. ASSUME NEW c \in Consumers, recorded' = recorded \union batch[c]
      PROVE  \E S \in SUBSET Msgs : Box!Read(S)
  <2>1. batch[c] \in SUBSET Msgs /\ batch[c] \subseteq Elems(inbox)
    BY DEF MailInv, TypeOK, Readers
  <2>2. Box!Read(batch[c])
    BY <1>3, <2>1, InElems DEF Box!Read, outVars
  <2> QED BY <2>1, <2>2
<1> QED BY <1>1, <1>2, <1>3 DEF Box!BoxNext

LEMMA MailboxStep ==
  ASSUME MailInv, [Next]_vars
  PROVE  [Box!BoxNext]_(Box!boxVars)
<1>1. CASE UNCHANGED vars
  BY <1>1 DEF vars, storeVars, outVars, inVars, readVars, Box!boxVars
<1>2. CASE Next /\ UNCHANGED <<inVars, readVars>>
  BY <1>2, SenderMaps DEF inVars, readVars
<1>3. CASE Next /\ UNCHANGED <<outVars, readVars>>
  BY <1>3, DeliveryMaps DEF readVars
<1>4. CASE Next /\ RecipientMove /\ UNCHANGED <<outVars, netVars>>
  <2>1. UNCHANGED inbox
    BY <1>4, InboxStep DEF InboxEffect, Answer, netVars
  <2> QED BY <1>4, <2>1, ReadingMaps
<1> QED BY <1>1, <1>2, <1>3, <1>4, Kinds

\* Peer messaging implements the mailbox its documentation promises
\* (docs/peer-communication-protocol.md, "Durable custody and ordering"): every message enters
\* the inbox at most once and after those submitted before it, refused ones apart, and the
\* sender believes only in deliveries that took place. The chains of one route, one per
\* spelling of the recipient, do not get in each other's way.
THEOREM MailboxRefinement == Spec => ImplementsMailbox
<1>1. Init => Box!BoxInit
  BY DEF Init, StoreInit, NoReceipt, Box!BoxInit
<1>2. MailInv /\ [Next]_vars => [Box!BoxNext]_(Box!boxVars)
  BY MailboxStep
<1> QED BY <1>1, <1>2, MailInvariant, PTL DEF Spec, ImplementsMailbox, Box!BoxSpec
=============================================================================
