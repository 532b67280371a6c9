---------------------------- MODULE PeerMessaging ----------------------------
(***************************************************************************)
(* PeerMessaging.ts: one sender and one recipient run of another endpoint. *)
(*                                                                         *)
(* Sends are chained per route key. The key holds the target as the caller *)
(* spelled it, so one route has as many chains as it has spellings. The    *)
(* transport answers a request, fails, or times out while the request is   *)
(* still on its way and may be handled later. The recipient admits a       *)
(* message (acceptEnvelope) in steps between which its run may end.        *)
(* Receipts come back with the answer, by peer.receipt notifications and   *)
(* by status queries, in any order.                                        *)
(***************************************************************************)
EXTENDS PeerMessageStore

CONSTANTS
  Chains,   \* spellings of the recipient
  Mortal,   \* messages whose deadline passes
  Answered, \* messages that may be replied to
  MaxLate,  \* bound on the requests that are on their way after their timeout
  MaxNotes, \* bound on the receipts in flight
  Faults    \* "loss" of requests and answers, "record": a context write throws,
            \* "mark", "release": the transaction after it throws (lock wait elapsed)

ASSUME MessagingAssumption ==
  /\ None \notin Chains
  /\ Mortal \subseteq Msgs /\ Answered \subseteq Msgs
  /\ {MaxLate, MaxNotes} \subseteq Nat
  /\ Faults \subseteq {"loss", "record", "mark", "release"}

VARIABLES
  step, own, todo,   \* of each chain: where submit stands, its message, what it has to transmit
  calls,             \* peer.send requests on their way or being handled
  answer,            \* the answer on its way to each chain
  notes,             \* receipts on their way to the sender
  run,               \* the recipient run: "live", "ending" (flag set) or "ended" (in the store)
  reader, batch,     \* of each consumer: where consume stands, the messages it deals with
  recorded,          \* messages whose context write took effect
  replied            \* messages whose reply was accepted

chainVars == <<step, own, todo>>
netVars == <<calls, answer, notes>>
readVars == <<reader, batch, recorded>>
vars == <<storeVars, chainVars, netVars, run, readVars, replied>>

Calls == [msg : Msgs, asker : Chains \union {None}, stage : {"sent", "admitted"}]
Refusals == {Rejected("refused"), Rejected("TARGET_ENDED")}
Notes == [msg : Msgs, receipt : Receipt]

TypeOK ==
  /\ StoreTypeOK
  /\ step \in [Chains -> {"idle", "list", "await"}]
  /\ own \in [Chains -> Msgs \union {None}]
  /\ todo \in [Chains -> SUBSET Msgs]
  /\ calls \subseteq Calls
  /\ answer \in [Chains -> Receipt]
  /\ notes \subseteq Notes
  /\ run \in {"live", "ending", "ended"}
  /\ reader \in [Consumers -> {"idle", "chosen", "recording", "marking", "releasing"}]
  /\ batch \in [Consumers -> SUBSET Msgs]
  /\ recorded \subseteq Msgs /\ replied \subseteq Msgs

Init ==
  /\ StoreInit
  /\ step = [k \in Chains |-> "idle"]
  /\ own = [k \in Chains |-> None]
  /\ todo = [k \in Chains |-> {}]
  /\ calls = {} /\ notes = {}
  /\ answer = [k \in Chains |-> NoReceipt]
  /\ run = "live"
  /\ reader = [c \in Consumers |-> "idle"]
  /\ batch = [c \in Consumers |-> {}]
  /\ recorded = {} /\ replied = {}

-----------------------------------------------------------------------------
(* sendFor, submit, transmit *)

Return(k) ==
  /\ step' = [step EXCEPT ![k] = "idle"]
  /\ own' = [own EXCEPT ![k] = None]
  /\ todo' = [todo EXCEPT ![k] = {}]

\* A message is submitted for the first time or, with the same ID, again.
Submit(k, m) ==
  /\ step[k] = "idle"
  /\ EnqueueOutbound(m)
  /\ IF sent[m].state \in {"none", "pending"}
     THEN /\ step' = [step EXCEPT ![k] = "list"]
          /\ own' = [own EXCEPT ![k] = m]
          /\ UNCHANGED todo
     ELSE UNCHANGED chainVars
  /\ UNCHANGED <<netVars, run, readVars, replied>>

\* The pending messages of the route are sent one by one, up to the one that was submitted.
Transmit(k, S, others) ==
  /\ todo' = [todo EXCEPT ![k] = S]
  /\ calls' = others \union {[msg |-> First(S), asker |-> k, stage |-> "sent"]}
  /\ step' = [step EXCEPT ![k] = "await"]
  /\ UNCHANGED own

\* Mutant: messages that are still pending are left to their own senders.
ListOwn(k) ==
  /\ step[k] = "list"
  /\ Transmit(k, {own[k]}, calls)
  /\ UNCHANGED <<storeVars, answer, notes, run, readVars, replied>>

List(k) ==
  /\ step[k] = "list"
  /\ IF PendingOutbox = {} THEN Return(k) /\ UNCHANGED calls
     ELSE Transmit(k, PendingOutbox, calls)
  /\ UNCHANGED <<storeVars, answer, notes, run, readVars, replied>>

\* The answer is recorded. A refusal is final, and thrown.
Receive(k) ==
  LET m == First(todo[k])
  IN  /\ step[k] = "await"
      /\ answer[k] # NoReceipt
      /\ RecordReceipt(m, answer[k])
      /\ answer' = [answer EXCEPT ![k] = NoReceipt]
      /\ IF answer[k] \in Refusals \/ m = own[k] \/ todo[k] = {m}
         THEN Return(k) /\ UNCHANGED calls
         ELSE Transmit(k, todo[k] \ {m}, calls)
      /\ UNCHANGED <<notes, run, readVars, replied>>

\* Mutant: a request that is lost is never given up.
WaitOn(k) ==
  /\ step[k] = "await"
  /\ "loss" \in Faults
  /\ calls' = {c \in calls : c.asker # k}
  /\ UNCHANGED <<storeVars, chainVars, answer, notes, run, readVars, replied>>

\* The request or its answer is lost, or late: the submit throws and the message stays
\* pending. A request that is late will still be handled, and nobody hears the answer.
TimeOut(k) ==
  LET mine == {c \in calls : c.asker = k}
  IN  /\ step[k] = "await"
      /\ "loss" \in Faults
      /\ \/ calls' = calls \ {c \in mine : c.stage = "sent"}
         \/ /\ Cardinality({c \in calls : c.asker = None}) < MaxLate
            /\ calls' = (calls \ mine) \union {[c EXCEPT !.asker = None] : c \in mine}
      /\ \A c \in calls' : c.asker # k
      /\ answer' = [answer EXCEPT ![k] = NoReceipt]
      /\ Return(k)
      /\ UNCHANGED <<storeVars, notes, run, readVars, replied>>

-----------------------------------------------------------------------------
(* acceptEnvelope *)

Answer(c, r) ==
  /\ calls' = calls \ {c}
  /\ answer' = IF c.asker = None THEN answer ELSE [answer EXCEPT ![c.asker] = r]

\* assertActive and the rate limit, which only new messages are charged for.
Admit(c) ==
  /\ c \in calls /\ c.stage = "sent"
  /\ run = "live"
  /\ calls' = (calls \ {c}) \union {[c EXCEPT !.stage = "admitted"]}
  /\ UNCHANGED <<storeVars, chainVars, answer, notes, run, readVars, replied>>

Refuse(c) ==
  /\ c \in calls /\ c.stage = "sent"
  /\ \/ run # "live" /\ Answer(c, Rejected("TARGET_ENDED"))
     \/ run = "live" /\ c.msg \notin Elems(inbox) /\ Answer(c, Rejected("refused"))
  /\ UNCHANGED <<storeVars, chainVars, notes, run, readVars, replied>>

\* The inbox transaction, which does not ask again whether the run is still active.
AcceptEnvelope(c) ==
  /\ c \in calls /\ c.stage = "admitted"
  /\ \E r \in Receipt : Accept(c.msg, r) /\ Answer(c, r)
  /\ UNCHANGED <<chainVars, notes, run, readVars, replied>>

-----------------------------------------------------------------------------
(* forwardReceipts, peer.receipt, statusFor *)

Notify(m) ==
  /\ Cardinality(notes) < MaxNotes
  /\ notes' = notes \union {[msg |-> m, receipt |-> got[m]]}

\* Only events of type receipt are forwarded: anything after the acceptance itself. What
\* was forwarded before may be forwarded again.
ForwardReceipt(m) ==
  /\ m \in Elems(inbox) /\ got[m] # Plain("accepted")
  /\ Notify(m)
  /\ UNCHANGED <<storeVars, chainVars, calls, answer, run, readVars, replied>>

StatusFor(m) ==
  /\ m \in Elems(inbox)
  /\ Notify(m)
  /\ UNCHANGED <<storeVars, chainVars, calls, answer, run, readVars, replied>>

NoteArrives(n) ==
  /\ n \in notes
  /\ notes' = notes \ {n}
  /\ RecordReceipt(n.msg, n.receipt)
  /\ UNCHANGED <<chainVars, calls, answer, run, readVars, replied>>

NoteLost(n) ==
  /\ n \in notes
  /\ "loss" \in Faults
  /\ notes' = notes \ {n}
  /\ UNCHANGED <<storeVars, chainVars, calls, answer, run, readVars, replied>>

-----------------------------------------------------------------------------
(* endRun: the flag, then the store. *)

BeginEndRun ==
  /\ run = "live"
  /\ run' = "ending"
  /\ UNCHANGED <<storeVars, chainVars, netVars, readVars, replied>>

EndRun ==
  /\ run = "ending"
  /\ run' = "ended"
  /\ EndRecipient
  /\ UNCHANGED <<chainVars, netVars, readVars, replied>>

-----------------------------------------------------------------------------
(* messagesFor, consumeFor, consume: read, prepare, record the context, mark. *)

Reading(c, phase, S) ==
  /\ reader' = [reader EXCEPT ![c] = phase]
  /\ batch' = [batch EXCEPT ![c] = S]

Look(c) ==
  /\ reader[c] = "idle"
  /\ run = "live"
  /\ Readable # {}
  /\ \E S \in SUBSET Readable : S # {} /\ Reading(c, "chosen", S)
  /\ Touch
  /\ UNCHANGED <<chainVars, netVars, run, recorded, replied>>

Consume(c) ==
  /\ reader[c] = "chosen"
  /\ \/ /\ Busy(batch[c])
        /\ Reading(c, "idle", {})
        /\ UNCHANGED storeVars
     \/ /\ Prepare(c, batch[c])
        /\ IF Ready(batch[c]) = {} THEN Reading(c, "idle", {})
           ELSE Reading(c, "recording", Ready(batch[c]))
  /\ UNCHANGED <<chainVars, netVars, run, recorded, replied>>

RecordContext(c) ==
  /\ reader[c] = "recording"
  /\ recorded' = recorded \union batch[c]
  /\ Reading(c, "marking", batch[c])
  /\ UNCHANGED <<storeVars, chainVars, netVars, run, replied>>

\* The context write throws, before or after it took effect.
RecordFails(c) ==
  /\ reader[c] = "recording"
  /\ "record" \in Faults
  /\ recorded' \in {recorded, recorded \union batch[c]}
  /\ Reading(c, "releasing", batch[c])
  /\ UNCHANGED <<storeVars, chainVars, netVars, run, replied>>

Mark(c) ==
  /\ reader[c] = "marking"
  /\ MarkConsumed(c)
  /\ Reading(c, "idle", {})
  /\ UNCHANGED <<chainVars, netVars, run, recorded, replied>>

MarkFails(c) ==
  /\ reader[c] = "marking"
  /\ "mark" \in Faults
  /\ Reading(c, "releasing", batch[c])
  /\ UNCHANGED <<storeVars, chainVars, netVars, run, recorded, replied>>

Release(c) ==
  /\ reader[c] = "releasing"
  /\ ReleaseConsumer(c)
  /\ Reading(c, "idle", {})
  /\ UNCHANGED <<chainVars, netVars, run, recorded, replied>>

ReleaseFails(c) ==
  /\ reader[c] = "releasing"
  /\ "release" \in Faults
  /\ AbandonConsumer(c)
  /\ Reading(c, "idle", {})
  /\ UNCHANGED <<chainVars, netVars, run, recorded, replied>>

\* transmit of a reply in the other direction: once the sender accepted it, the original is
\* marked replied, whatever its state.
Reply(m) ==
  /\ MarkReplied(m)
  /\ replied' = replied \union {m}
  /\ UNCHANGED <<chainVars, netVars, run, readVars>>

-----------------------------------------------------------------------------
(* Time, and transactions of the recipient's process that concern other runs. *)

Expire(m) ==
  /\ m \notin overdue
  /\ overdue' = overdue \union {m}
  /\ UNCHANGED <<outVars, inVars, chainVars, netVars, run, readVars, replied>>

OtherTransaction ==
  /\ Touch
  /\ UNCHANGED <<chainVars, netVars, run, readVars, replied>>

ChainStep(k) == List(k) \/ Receive(k) \/ TimeOut(k)
CallStep == \E c \in calls : Admit(c) \/ Refuse(c) \/ AcceptEnvelope(c)
ReaderStep(c) ==
  Consume(c) \/ RecordContext(c) \/ RecordFails(c) \/ Mark(c) \/ MarkFails(c) \/ Release(c) \/ ReleaseFails(c)

Next ==
  \/ \E k \in Chains, m \in Msgs : Submit(k, m)
  \/ \E k \in Chains : ChainStep(k)
  \/ CallStep
  \/ \E m \in Msgs : ForwardReceipt(m) \/ StatusFor(m)
  \/ \E m \in Answered : Reply(m)
  \/ \E m \in Mortal : Expire(m)
  \/ \E n \in notes : NoteArrives(n) \/ NoteLost(n)
  \/ BeginEndRun \/ EndRun
  \/ \E c \in Consumers : Look(c) \/ ReaderStep(c)
  \/ OtherTransaction

Spec == Init /\ [][Next]_vars

\* A submit, a request and a consume that have begun go on: every await of theirs ends, the
\* transport's by its timeout. Deadlines pass, and the store sees further transactions (every
\* flushEvents of the process is one). Nobody has to send, read, reply or end the run.
FairSpec ==
  /\ Spec
  /\ \A k \in Chains : WF_vars(ChainStep(k))
  /\ WF_vars(CallStep)
  /\ \A c \in Consumers : WF_vars(ReaderStep(c))
  /\ \A m \in Mortal : WF_vars(Expire(m))
  /\ WF_vars(EndRun)
  /\ WF_vars(OtherTransaction)

-----------------------------------------------------------------------------
(* Properties. *)

\* The route is a mailbox: every message enters the inbox once and in the order of
\* submission, refused ones apart, and the sender believes only in real deliveries.
Box == INSTANCE Mailbox WITH
  submitted <- outbox,
  box <- inbox,
  known <- {m \in Msgs : sent[m].state \in {"accepted", "consumed", "replied", "expired"}},
  refused <- {m \in Msgs : sent[m].state = "rejected"},
  read <- recorded
ImplementsMailbox == Box!BoxSpec

\* What a receipt says has happened: whichever way and in whichever order the receipts came,
\* consumed means recorded in a context, at either end, and replied means a reply accepted.
ReceiptsAreTrue ==
  \A m \in Msgs :
    /\ "consumed" \in {sent[m].state, got[m].state} => m \in recorded
    /\ sent[m].state = "replied" => m \in replied
    /\ sent[m].outcome = "TARGET_ENDED" => run # "live"

\* Progress reported to the sender is never taken back: not by a late receipt, and not by
\* the refusal of a copy that was sent again.
ProgressIsKept ==
  [][\A m \in Msgs :
       /\ sent[m].state = "replied" => sent'[m].state = "replied"
       /\ sent[m].state = "consumed" => sent'[m].state \in {"consumed", "replied"}
       /\ sent[m].state = "accepted" => sent'[m].state \in {"accepted", "consumed", "replied", "expired"}]_vars

\* Two contexts never deal with the same message at once.
OneReader ==
  \A c, d \in Consumers : c # d =>
    ~\E m \in batch[c] \intersect batch[d] :
       {reader[c], reader[d]} \subseteq {"recording", "marking", "releasing"}

\* A send never hangs: whatever is lost, the chain becomes free for the next message.
SendsReturn == \A k \in Chains : step[k] # "idle" ~> step[k] = "idle"

\* Custody ends: an accepted message is consumed, answered, expired or marked as
\* undelivered, also when contexts fail to record it or to mark it, unless the consumer that
\* failed could not be removed from it.
AcceptedSettles ==
  \A m \in Msgs : (got[m] = Plain("accepted")) ~> (got[m] # Plain("accepted") \/ token[m] = Lost)
=============================================================================
