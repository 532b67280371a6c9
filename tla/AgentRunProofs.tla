--------------------------- MODULE AgentRunProofs ---------------------------
(***************************************************************************)
(* Theorems about AgentRun, for any numbers of iterations, instructions    *)
(* and messages: its types, that a hook which stops a run is obeyed, that  *)
(* the context a hook gives is seen, and that the queue of the lifecycle   *)
(* handler implements EventFeed.                                           *)
(*                                                                         *)
(* The inductive invariant says where a run can be while an event that     *)
(* may control it waits for its hooks: at a gate that cannot open.  For a  *)
(* delegate the gate itself waits for the event.  A team worker waits for  *)
(* the answer to one question, which is on its way to the lead, held back  *)
(* there until the event is handled, or already refused.                   *)
(***************************************************************************)
EXTENDS AgentRun, LineProofs

-----------------------------------------------------------------------------
(* Numbers that are in use, and a fresh one. *)

Bounded(ns) == ns \subseteq Nat /\ \E n \in Nat : \A m \in ns : m <= n

\* Among finitely many numbers there is a greatest.
LEMMA MaxFacts ==
  ASSUME NEW ns, Bounded(ns), ns # {}
  PROVE  Max(ns) \in ns /\ \A m \in ns : m <= Max(ns)
<1>1. PICK n \in Nat : \A m \in ns : m <= n
  BY DEF Bounded
<1> DEFINE T == {n - m : m \in ns}
<1>2. ns \subseteq Nat
  BY DEF Bounded
<1>3. T \subseteq Nat /\ T # {}
  <2>1. \A m \in ns : m \in Nat /\ m <= n
    BY <1>1, <1>2
  <2>2. \A m \in ns : n - m \in Nat
    BY <2>1
  <2>3. PICK m \in ns : TRUE
    OBVIOUS
  <2> QED
    BY <2>2, <2>3
<1>4. PICK i \in T : \A j \in T : i <= j
  <2> HIDE DEF T
  <2> QED
    BY <1>3, LeastFacts
<1>5. \A j \in T : ~(j < i)
  BY <1>3, <1>4
<1>6. PICK x \in ns : i = n - x
  OBVIOUS
<1>7. \A y \in ns : x >= y
  <2> SUFFICES ASSUME NEW y \in ns PROVE x >= y
    OBVIOUS
  <2>1. n - y \in T /\ ~(n - y < n - x)
    BY <1>5, <1>6
  <2> QED
    BY <1>2, <2>1
<1> HIDE DEF T
<1>8. Max(ns) \in ns /\ \A y \in ns : Max(ns) >= y
  BY <1>6, <1>7 DEF Max
<1> QED
  BY <1>2, <1>8

\* The number after the greatest is fresh, and they stay bounded with it and the one after.
LEMMA FreshFacts ==
  ASSUME NEW ns, Bounded(ns)
  PROVE  /\ Max(ns \union {0}) + 1 \in Nat \ {0}
         /\ \A m \in ns : m \in Nat /\ m < Max(ns \union {0}) + 1
<1>1. Bounded(ns \union {0})
  <2>1. PICK n \in Nat : \A m \in ns : m <= n
    BY DEF Bounded
  <2>2. \A m \in ns \union {0} : m <= n
    BY <2>1
  <2>3. ns \union {0} \subseteq Nat
    BY DEF Bounded
  <2> QED
    BY <2>2, <2>3 DEF Bounded
<1>2. Max(ns \union {0}) \in ns \union {0} /\ \A m \in ns \union {0} : m <= Max(ns \union {0})
  BY <1>1, MaxFacts
<1>3. Max(ns \union {0}) \in Nat
  BY <1>1, <1>2 DEF Bounded
<1>4. \A m \in ns : m \in Nat /\ m <= Max(ns \union {0})
  BY <1>2 DEF Bounded
<1> QED
  BY <1>3, <1>4

LEMMA BoundedUnion ==
  ASSUME NEW ns, Bounded(ns), NEW m \in Nat
  PROVE  Bounded(ns \union {m})
<1>1. PICK n \in Nat : \A k \in ns : k <= n
  BY DEF Bounded
<1>2. CASE m <= n
  BY <1>1, <1>2 DEF Bounded
<1>3. CASE ~(m <= n)
  <2>1. \A k \in ns \union {m} : k <= m
    BY <1>1, <1>3 DEF Bounded
  <2> QED
    BY <2>1 DEF Bounded
<1> QED
  BY <1>2, <1>3

LEMMA BoundedSubset ==
  ASSUME NEW ns, Bounded(ns), NEW ms, ms \subseteq ns
  PROVE  Bounded(ms)
BY DEF Bounded

-----------------------------------------------------------------------------
(* The handler's queue. *)

Entry == [event : Event, served : Seq(Event)]

QueueOk(q, ts) ==
  /\ q \in Seq(Entry)
  /\ \A i \in DOMAIN q : q[i].served # <<>> /\ q[i].event = Last(q[i].served)
  /\ \A i, j \in DOMAIN q : i # j => Ids(q[i].served) \cap Ids(q[j].served) = {}
  /\ ts = UNION {Ids(q[i].served) : i \in DOMAIN q}
  /\ Bounded(ts)

\* The events that may control the run and whose hooks have not answered.
Reins(q) == {q[i].event.id : i \in {j \in DOMAIN q : q[j].event.control}}

\* An entry serves the event whose hooks run.
LEMMA EntryFacts ==
  ASSUME NEW s \in Seq(Event), s # <<>>
  PROVE  Last(s) \in Event /\ Last(s).id \in Ids(s) /\ Ids(s) \subseteq Nat \ {0}
<1>1. Len(s) \in Nat \ {0} /\ DOMAIN s = 1 .. Len(s) /\ \A i \in DOMAIN s : s[i] \in Event
  BY EmptySeq, LenProperties
<1>2. Len(s) \in DOMAIN s /\ Last(s) = s[Len(s)]
  BY <1>1 DEF Last
<1> QED
  BY <1>1, <1>2 DEF Ids, Event

LEMMA QueueFacts ==
  ASSUME NEW q, NEW ts, QueueOk(q, ts)
  PROVE  /\ q \in Seq(Entry) /\ Len(q) \in Nat /\ DOMAIN q = 1 .. Len(q)
         /\ q # <<>> => Len(q) \in Nat \ {0}
         /\ \A i \in DOMAIN q : /\ q[i] \in Entry /\ q[i].served \in Seq(Event) /\ q[i].event \in Event
                               /\ q[i].served # <<>> /\ q[i].event = Last(q[i].served)
                               /\ Ids(q[i].served) \subseteq ts
         /\ \A i, j \in DOMAIN q : i # j => Ids(q[i].served) \cap Ids(q[j].served) = {}
         /\ \A t \in ts : \E i \in DOMAIN q : t \in Ids(q[i].served)
         /\ Bounded(ts)
<1>1. /\ q \in Seq(Entry)
      /\ \A i \in DOMAIN q : q[i].served # <<>> /\ q[i].event = Last(q[i].served)
      /\ \A i, j \in DOMAIN q : i # j => Ids(q[i].served) \cap Ids(q[j].served) = {}
      /\ ts = UNION {Ids(q[i].served) : i \in DOMAIN q}
      /\ Bounded(ts)
  BY DEF QueueOk
<1>2. Len(q) \in Nat /\ DOMAIN q = 1 .. Len(q) /\ (q # <<>> => Len(q) \in Nat \ {0})
  BY <1>1, EmptySeq, LenProperties
<1>3. ASSUME NEW i \in DOMAIN q PROVE q[i] \in Entry /\ Ids(q[i].served) \subseteq ts
  BY <1>1
<1>4. \A i \in DOMAIN q : q[i].served \in Seq(Event) /\ q[i].event \in Event
  BY <1>3 DEF Entry
<1>5. \A t \in ts : \E i \in DOMAIN q : t \in Ids(q[i].served)
  BY <1>1
<1> QED
  BY <1>1, <1>2, <1>3, <1>4, <1>5

LEMMA ReinsInTasks ==
  ASSUME NEW q, NEW ts, QueueOk(q, ts)
  PROVE  Reins(q) \subseteq ts
<1>1. ASSUME NEW i \in DOMAIN q PROVE q[i].event.id \in ts
  <2>1. q[i] \in Entry
    BY DEF QueueOk
  <2>2. q[i].served \in Seq(Event) /\ q[i].served # <<>> /\ q[i].event = Last(q[i].served)
    BY <2>1 DEF QueueOk, Entry
  <2>3. q[i].event.id \in Ids(q[i].served)
    BY <2>2, EntryFacts
  <2> QED
    BY <2>3 DEF QueueOk
<1> QED
  BY <1>1 DEF Reins

LEMMA ServedFacts ==
  ASSUME NEW s \in Seq(Event), NEW e \in Event
  PROVE  /\ Append(s, e) \in Seq(Event) /\ Append(s, e) # <<>>
         /\ Last(Append(s, e)) = e
         /\ Ids(Append(s, e)) = Ids(s) \union {e.id}
<1> DEFINE t == Append(s, e)
<1>1. /\ t \in Seq(Event) /\ Len(t) = Len(s) + 1 /\ Len(s) \in Nat
      /\ DOMAIN s = 1 .. Len(s) /\ DOMAIN t = 1 .. Len(s) + 1
      /\ t[Len(s) + 1] = e /\ \A i \in 1 .. Len(s) : t[i] = s[i]
  OBVIOUS
<1> HIDE DEF t
<1>2. t # <<>> /\ Last(t) = e
  BY <1>1 DEF Last
<1>3. ASSUME NEW i \in DOMAIN t PROVE t[i].id \in Ids(s) \union {e.id}
  <2>1. CASE i \in DOMAIN s
    BY <1>1, <2>1 DEF Ids
  <2>2. CASE i = Len(s) + 1
    BY <1>1, <2>2
  <2> QED
    BY <1>1, <2>1, <2>2
<1>4. ASSUME NEW i \in DOMAIN s PROVE s[i].id \in Ids(t)
  <2>1. i \in DOMAIN t /\ t[i] = s[i]
    BY <1>1
  <2> QED
    BY <2>1 DEF Ids
<1>5. e.id \in Ids(t)
  <2>1. Len(s) + 1 \in DOMAIN t /\ t[Len(s) + 1] = e
    BY <1>1
  <2> QED
    BY <2>1 DEF Ids
<1>6. Ids(t) = Ids(s) \union {e.id}
  BY <1>3, <1>4, <1>5 DEF Ids
<1> QED
  BY <1>1, <1>2, <1>6 DEF t

LEMMA OneServed ==
  ASSUME NEW e \in Event
  PROVE  /\ <<e>> \in Seq(Event) /\ <<e>> # <<>>
         /\ Last(<<e>>) = e
         /\ Ids(<<e>>) = {e.id}
<1>1. <<e>> = Append(<<>>, e) /\ <<>> \in Seq(Event) /\ Ids(<<>>) = {}
  BY DEF Ids
<1> QED
  BY <1>1, ServedFacts

\* An event takes its place in the queue: it replaces the progress that waits last, or it is
\* appended.
LEMMA EnqueueShape ==
  ASSUME NEW q \in Seq(Entry), NEW e \in Event
  PROVE  LET n == Len(q)
             qq == Enqueue(q, e)
             s == IF Coalesces(q, e) THEN Append(q[n].served, e) ELSE <<e>>
             k == IF Coalesces(q, e) THEN n ELSE n + 1
         IN  /\ qq \in Seq(Entry) /\ Len(qq) = k /\ DOMAIN qq = 1 .. k
             /\ s \in Seq(Event) /\ Last(s) = e /\ Len(s) \in Nat \ {0}
             /\ qq[k].event = e /\ qq[k].served = s
             /\ \A i \in 1 .. k - 1 : qq[i] = q[i]
<1> DEFINE n == Len(q)
           qq == Enqueue(q, e)
<1>1. n \in Nat /\ DOMAIN q = 1 .. n /\ \A i \in 1 .. n : q[i].served \in Seq(Event)
  <2>1. n \in Nat /\ DOMAIN q = 1 .. n /\ \A i \in 1 .. n : q[i] \in Entry
    BY ElementOfSeq, LenProperties
  <2> QED
    BY <2>1 DEF Entry
<1>2. CASE Coalesces(q, e)
  <2> DEFINE s == Append(q[n].served, e)
             new == [event |-> e, served |-> s]
  <2>1. n \in 1 .. n /\ qq = [q EXCEPT ![n] = new]
    BY <1>1, <1>2 DEF Enqueue, Coalesces
  <2>2. s \in Seq(Event) /\ s # <<>> /\ Last(s) = e
    BY <1>1, <2>1, ServedFacts
  <2> HIDE DEF s
  <2>3. new \in Entry /\ Len(s) \in Nat \ {0}
    BY <2>2, EmptySeq, LenProperties DEF Entry
  <2>4. /\ qq \in Seq(Entry) /\ Len(qq) = n /\ DOMAIN qq = 1 .. n
        /\ \A i \in 1 .. n : qq[i] = IF i = n THEN new ELSE q[i]
    <3> HIDE DEF new, n
    <3>1. /\ [q EXCEPT ![n] = new] \in Seq(Entry) /\ Len([q EXCEPT ![n] = new]) = Len(q)
          /\ \A j \in 1 .. Len(q) : [q EXCEPT ![n] = new][j] = IF j = n THEN new ELSE q[j]
      BY <1>1, <2>1, <2>3, ExceptSeq DEF n
    <3>2. DOMAIN [q EXCEPT ![n] = new] = DOMAIN q
      OBVIOUS
    <3> QED
      BY <3>1, <3>2, <1>1, <2>1 DEF n
  <2>5. qq[n].event = e /\ qq[n].served = s /\ \A i \in 1 .. n - 1 : qq[i] = q[i]
    BY <1>1, <2>1, <2>4
  <2> HIDE DEF qq, n, new
  <2> QED
    BY <1>2, <2>2, <2>3, <2>4, <2>5 DEF s, qq, n
<1>3. CASE ~Coalesces(q, e)
  <2> DEFINE new == [event |-> e, served |-> <<e>>]
  <2>1. qq = Append(q, new)
    BY <1>3 DEF Enqueue
  <2>2. <<e>> \in Seq(Event) /\ Last(<<e>>) = e /\ Len(<<e>>) \in Nat \ {0}
    BY OneServed
  <2>3. new \in Entry
    BY <2>2 DEF Entry
  <2>4. /\ qq \in Seq(Entry) /\ Len(qq) = n + 1 /\ DOMAIN qq = 1 .. n + 1 /\ qq[n + 1] = new
        /\ \A i \in 1 .. n : qq[i] = q[i]
    <3> HIDE DEF new
    <3> QED
      BY <1>1, <2>1, <2>3
  <2> HIDE DEF qq
  <2>5. qq[n + 1].event = e /\ qq[n + 1].served = <<e>> /\ \A i \in 1 .. (n + 1) - 1 : qq[i] = q[i]
    BY <1>1, <2>4
  <2> HIDE DEF n, new
  <2> QED
    BY <1>3, <2>2, <2>4, <2>5 DEF qq, n
<1> QED
  BY <1>2, <1>3

\* A fresh event takes its place in the queue; it is a rein only if it may control the run.
LEMMA EnqueueOk ==
  ASSUME NEW q, NEW ts, QueueOk(q, ts), NEW e \in Event, e.id \notin ts
  PROVE  /\ QueueOk(Enqueue(q, e), ts \union {e.id})
         /\ Reins(Enqueue(q, e)) \subseteq Reins(q) \union {e.id}
         /\ ~e.control => Reins(Enqueue(q, e)) \subseteq Reins(q)
<1> DEFINE n == Len(q)
           qq == Enqueue(q, e)
<1>1. /\ q \in Seq(Entry) /\ n \in Nat /\ DOMAIN q = 1 .. n
      /\ \A i \in DOMAIN q : /\ q[i] \in Entry /\ q[i].served \in Seq(Event) /\ q[i].event \in Event
                            /\ q[i].served # <<>> /\ q[i].event = Last(q[i].served)
                            /\ Ids(q[i].served) \subseteq ts
      /\ \A i, j \in DOMAIN q : i # j => Ids(q[i].served) \cap Ids(q[j].served) = {}
      /\ \A t \in ts : \E i \in DOMAIN q : t \in Ids(q[i].served)
      /\ Bounded(ts)
  BY QueueFacts
<1>2. Bounded(ts \union {e.id})
  BY <1>1, BoundedUnion DEF Event
\* What either way of adding the event makes of the queue.
<1>3. ASSUME NEW k \in Nat,
             qq \in Seq(Entry), DOMAIN qq = 1 .. n \union {k},
             \A i \in 1 .. n : i # k => qq[i] = q[i],
             qq[k].event = e, qq[k].served # <<>>, Last(qq[k].served) = e,
             Ids(qq[k].served) = (IF k \in 1 .. n THEN Ids(q[k].served) ELSE {}) \union {e.id}
      PROVE  /\ QueueOk(qq, ts \union {e.id})
             /\ Reins(qq) \subseteq Reins(q) \union {e.id}
             /\ ~e.control => Reins(qq) \subseteq Reins(q)
  <2> HIDE DEF qq
  <2> DEFINE old == IF k \in 1 .. n THEN Ids(q[k].served) ELSE {}
  <2>0. Ids(qq[k].served) = old \union {e.id} /\ old \subseteq ts
    BY <1>1, <1>3
  <2>1. \A i \in DOMAIN qq : qq[i].served # <<>> /\ qq[i].event = Last(qq[i].served)
    BY <1>1, <1>3
  <2>2. ASSUME NEW i \in DOMAIN qq, NEW j \in DOMAIN qq, i # j
        PROVE  Ids(qq[i].served) \cap Ids(qq[j].served) = {}
    <3>1. CASE i # k /\ j # k
      BY <1>1, <1>3, <2>2, <3>1
    <3>2. ASSUME NEW m \in DOMAIN qq, m # k PROVE Ids(qq[m].served) \cap Ids(qq[k].served) = {}
      <4>1. m \in DOMAIN q /\ qq[m] = q[m] /\ e.id \notin Ids(q[m].served)
        BY <1>1, <1>3, <3>2
      <4>2. Ids(q[m].served) \cap old = {}
        BY <1>1, <1>3, <3>2, <4>1
      <4> QED
        BY <4>1, <4>2, <2>0
    <3> QED
      BY <3>1, <3>2, <2>2
  <2>3. UNION {Ids(qq[i].served) : i \in DOMAIN qq} = ts \union {e.id}
    <3>1. ASSUME NEW i \in DOMAIN qq PROVE Ids(qq[i].served) \subseteq ts \union {e.id}
      <4>1. CASE i = k
        BY <2>0, <4>1
      <4>2. CASE i # k
        BY <1>1, <1>3, <4>2
      <4> QED
        BY <4>1, <4>2
    <3>2. ASSUME NEW t \in ts PROVE \E i \in DOMAIN qq : t \in Ids(qq[i].served)
      <4>1. PICK i \in DOMAIN q : t \in Ids(q[i].served)
        BY <1>1
      <4>2. CASE i = k
        BY <1>1, <1>3, <4>1, <4>2
      <4>3. CASE i # k
        BY <1>1, <1>3, <4>1, <4>3
      <4> QED
        BY <4>2, <4>3
    <3>3. k \in DOMAIN qq /\ e.id \in Ids(qq[k].served)
      BY <1>3
    <3> QED
      BY <3>1, <3>2, <3>3
  <2>4. ASSUME NEW i \in DOMAIN qq, qq[i].event.control
        PROVE  qq[i].event.id \in Reins(q) \/ (e.control /\ qq[i].event.id = e.id)
    <3>1. CASE i = k
      BY <1>3, <2>4, <3>1
    <3>2. CASE i # k
      <4>1. i \in DOMAIN q /\ qq[i] = q[i]
        BY <1>1, <1>3, <3>2
      <4> QED
        BY <4>1, <2>4 DEF Reins
    <3> QED
      BY <3>1, <3>2
  <2>5. QueueOk(qq, ts \union {e.id})
    BY <1>2, <1>3, <2>1, <2>2, <2>3 DEF QueueOk
  <2>6. \A t \in Reins(qq) : t \in Reins(q) \/ (e.control /\ t = e.id)
    <3> SUFFICES ASSUME NEW t \in Reins(qq) PROVE t \in Reins(q) \/ (e.control /\ t = e.id)
      OBVIOUS
    <3>1. PICK i \in DOMAIN qq : qq[i].event.control /\ t = qq[i].event.id
      BY DEF Reins
    <3> QED
      BY <3>1, <2>4
  <2> QED
    BY <2>5, <2>6
<1>4. CASE Coalesces(q, e)
  <2> DEFINE s == Append(q[n].served, e)
  <2>1. n \in 1 .. n /\ q[n].served \in Seq(Event)
    BY <1>1, <1>4 DEF Coalesces
  <2>2. s # <<>> /\ Last(s) = e /\ Ids(s) = Ids(q[n].served) \union {e.id}
    BY <2>1, ServedFacts
  <2>3. /\ qq \in Seq(Entry) /\ DOMAIN qq = 1 .. n /\ qq[n].event = e /\ qq[n].served = s
        /\ \A i \in 1 .. n - 1 : qq[i] = q[i]
    BY <1>1, <1>4, EnqueueShape
  <2> HIDE DEF s, qq, n
  <2>4. \A i \in 1 .. n : i # n => qq[i] = q[i]
    BY <1>1, <2>3
  <2>5. DOMAIN qq = 1 .. n \union {n} /\ Ids(qq[n].served) = (IF n \in 1 .. n THEN Ids(q[n].served) ELSE {}) \union {e.id}
    BY <2>1, <2>2, <2>3
  <2> QED
    BY <1>1, <1>3, <2>2, <2>3, <2>4, <2>5 DEF qq
<1>5. CASE ~Coalesces(q, e)
  <2>1. /\ qq \in Seq(Entry) /\ DOMAIN qq = 1 .. n + 1 /\ qq[n + 1].event = e /\ qq[n + 1].served = <<e>>
        /\ \A i \in 1 .. (n + 1) - 1 : qq[i] = q[i]
    <3> DEFINE s == IF Coalesces(q, e) THEN Append(q[n].served, e) ELSE <<e>>
               k == IF Coalesces(q, e) THEN n ELSE n + 1
    <3>1. /\ qq \in Seq(Entry) /\ DOMAIN qq = 1 .. k /\ qq[k].event = e /\ qq[k].served = s
          /\ \A i \in 1 .. k - 1 : qq[i] = q[i]
      BY <1>1, EnqueueShape
    <3>2. s = <<e>> /\ k = n + 1
      BY <1>5
    <3> HIDE DEF s, k, n, qq
    <3> QED
      BY <3>1, <3>2
  <2>2. PICK k \in Nat : k = n + 1
    BY <1>1
  <2>3. <<e>> # <<>> /\ Last(<<e>>) = e /\ Ids(<<e>>) = {e.id}
    BY OneServed
  <2> HIDE DEF n, qq
  <2>4. DOMAIN qq = 1 .. n \union {k} /\ k \notin 1 .. n /\ \A i \in 1 .. n : i # k => qq[i] = q[i]
    BY <1>1, <2>1, <2>2
  <2>5. Ids(qq[k].served) = (IF k \in 1 .. n THEN Ids(q[k].served) ELSE {}) \union {e.id}
    BY <2>1, <2>2, <2>3, <2>4
  <2> QED
    BY <1>3, <2>1, <2>2, <2>3, <2>4, <2>5 DEF qq
<1> QED
  BY <1>4, <1>5

\* The head leaves the queue with all it served.
LEMMA ShiftOk ==
  ASSUME NEW q, NEW ts, QueueOk(q, ts), q # <<>>
  PROVE  /\ QueueOk(Tail(q), ts \ Ids(Head(q).served))
         /\ Reins(Tail(q)) \subseteq Reins(q) \ Ids(Head(q).served)
         /\ Head(q).event \in Event
         /\ Head(q).event.control => Reins(q) # {}
<1> DEFINE n == Len(q)
           qq == Tail(q)
           gone == Ids(Head(q).served)
<1>1. /\ q \in Seq(Entry) /\ n \in Nat \ {0} /\ DOMAIN q = 1 .. n
      /\ \A i \in DOMAIN q : /\ q[i] \in Entry /\ q[i].served \in Seq(Event) /\ q[i].event \in Event
                            /\ q[i].served # <<>> /\ q[i].event = Last(q[i].served)
                            /\ Ids(q[i].served) \subseteq ts
      /\ \A i, j \in DOMAIN q : i # j => Ids(q[i].served) \cap Ids(q[j].served) = {}
      /\ \A t \in ts : \E i \in DOMAIN q : t \in Ids(q[i].served)
      /\ Bounded(ts)
  BY QueueFacts
<1>2. /\ qq \in Seq(Entry) /\ DOMAIN qq = 1 .. n - 1 /\ \A i \in 1 .. n - 1 : qq[i] = q[i + 1]
      /\ Head(q) = q[1] /\ gone = Ids(q[1].served)
  BY <1>1, HeadTailProperties
<1>3. \A i \in DOMAIN qq : i + 1 \in DOMAIN q /\ i + 1 # 1 /\ qq[i] = q[i + 1]
  BY <1>1, <1>2
<1>4. 1 \in DOMAIN q
  BY <1>1
<1> HIDE DEF qq, gone, n
<1>5. \A i, j \in DOMAIN qq : i # j => i + 1 # j + 1
  BY <1>1, <1>2
<1>6. UNION {Ids(qq[i].served) : i \in DOMAIN qq} = ts \ gone
  <2>1. \A i \in DOMAIN qq : Ids(qq[i].served) \subseteq ts \ gone
    BY <1>1, <1>2, <1>3, <1>4
  <2>2. ASSUME NEW t \in ts \ gone PROVE \E i \in DOMAIN qq : t \in Ids(qq[i].served)
    <3>1. PICK i \in DOMAIN q : t \in Ids(q[i].served)
      BY <1>1
    <3>2. i # 1
      BY <3>1, <1>2
    <3>3. i - 1 \in DOMAIN qq /\ qq[i - 1] = q[i]
      BY <3>1, <3>2, <1>1, <1>2
    <3> QED
      BY <3>1, <3>3
  <2> QED
    BY <2>1, <2>2
<1>7. Bounded(ts \ gone)
  BY <1>1, BoundedSubset
<1>8. QueueOk(qq, ts \ gone)
  <2>1. \A i \in DOMAIN qq : qq[i].served # <<>> /\ qq[i].event = Last(qq[i].served)
    BY <1>1, <1>3
  <2>2. \A i, j \in DOMAIN qq : i # j => Ids(qq[i].served) \cap Ids(qq[j].served) = {}
    BY <1>1, <1>3, <1>5
  <2> QED
    BY <1>2, <1>6, <1>7, <2>1, <2>2 DEF QueueOk
<1>9. \A t \in Reins(qq) : t \in Reins(q) /\ t \notin gone
  <2> SUFFICES ASSUME NEW t \in Reins(qq) PROVE t \in Reins(q) /\ t \notin gone
    OBVIOUS
  <2>1. PICK i \in DOMAIN qq : qq[i].event.control /\ t = qq[i].event.id
    BY DEF Reins
  <2>2. i + 1 \in DOMAIN q /\ i + 1 # 1 /\ qq[i] = q[i + 1]
    BY <1>3
  <2>3. t \in Ids(q[i + 1].served)
    BY <2>1, <2>2, <1>1, EntryFacts
  <2>4. t \in Reins(q)
    BY <2>1, <2>2 DEF Reins
  <2> QED
    BY <2>2, <2>3, <2>4, <1>1, <1>2, <1>4
<1>10. Head(q).event \in Event /\ (Head(q).event.control => Reins(q) # {})
  <2>1. q[1].event \in Event /\ Head(q) = q[1]
    BY <1>1, <1>2, <1>4
  <2> QED
    BY <2>1, <1>4 DEF Reins
<1> QED
  BY <1>8, <1>9, <1>10 DEF qq, gone

AddsOne(e) == tasks' = tasks \union {e.id} /\ queue' = Enqueue(queue, e)
AddsTwo(e, d) == tasks' = (tasks \union {e.id}) \union {d.id} /\ queue' = Enqueue(Enqueue(queue, e), d)

\* What is emitted is one event or two, numbered after all that are pending.
LEMMA AddEventsShape ==
  ASSUME QueueOk(queue, tasks), NEW a \in Types, NEW b \in Types, NEW mayControl \in BOOLEAN,
         AddEvents(<<a>>, mayControl) \/ AddEvents(<<a, b>>, mayControl)
  PROVE  \E e, d \in Event :
           /\ \A t \in tasks : t < e.id
           /\ \A t \in tasks \union {e.id} : t < d.id
           /\ e.control \/ d.control => mayControl
           /\ AddsOne(e) \/ AddsTwo(e, d)
<1> DEFINE first == Max(tasks \union {0}) + 1
           Ev(id, t) == [id |-> id, type |-> t, control |-> mayControl /\ t \in {"start", "progress"}]
           e == Ev(first, a)
           d == Ev(first + 1, b)
<1>1. first \in Nat \ {0} /\ \A m \in tasks : m \in Nat /\ m < first
  BY FreshFacts DEF QueueOk
<1> HIDE DEF first
<1>2. ASSUME NEW id \in Nat \ {0}, NEW t \in Types
      PROVE  Ev(id, t) \in Event /\ Ev(id, t).id = id /\ (Ev(id, t).control => mayControl)
  <2>1. (mayControl /\ t \in {"start", "progress"}) \in BOOLEAN
    OBVIOUS
  <2> QED
    BY <2>1 DEF Event
<1>3. /\ e \in Event /\ e.id = first /\ (e.control => mayControl)
      /\ d \in Event /\ d.id = first + 1 /\ (d.control => mayControl)
  <2>1. first + 1 \in Nat \ {0}
    BY <1>1
  <2> HIDE DEF Ev
  <2> QED
    BY <1>1, <1>2, <2>1
<1>4. /\ \A t \in tasks : t < e.id
      /\ \A t \in tasks \union {e.id} : t < d.id
  <2> HIDE DEF e, d
  <2> QED
    BY <1>1, <1>3
<1>5. CASE AddEvents(<<a>>, mayControl)
  <2> DEFINE new == [i \in DOMAIN <<a>> |-> Ev(first + i - 1, <<a>>[i])]
  <2>1. /\ tasks' = tasks \union Ids(new)
        /\ queue' = IF Len(<<a>>) = 1 THEN Enqueue(queue, new[1]) ELSE Enqueue(Enqueue(queue, new[1]), new[2])
    BY <1>5 DEF AddEvents, first
  <2>2. DOMAIN new = {1} /\ new[1] = Ev(first + 1 - 1, a) /\ first + 1 - 1 = first
    BY <1>1
  <2>3. new[1] = e
    BY <2>2
  <2> HIDE DEF new, e
  <2>4. Ids(new) = {e.id}
    BY <2>2, <2>3 DEF Ids
  <2>5. Len(<<a>>) = 1
    OBVIOUS
  <2>6. AddsOne(e)
    BY <2>1, <2>3, <2>4, <2>5 DEF AddsOne
  <2> HIDE DEF d
  <2> QED
    BY <1>3, <1>4, <2>6
<1>6. CASE AddEvents(<<a, b>>, mayControl)
  <2> DEFINE new == [i \in DOMAIN <<a, b>> |-> Ev(first + i - 1, <<a, b>>[i])]
  <2>1. /\ tasks' = tasks \union Ids(new)
        /\ queue' = IF Len(<<a, b>>) = 1 THEN Enqueue(queue, new[1]) ELSE Enqueue(Enqueue(queue, new[1]), new[2])
    BY <1>6 DEF AddEvents, first
  <2>2. /\ DOMAIN new = {1, 2} /\ new[1] = Ev(first + 1 - 1, a) /\ first + 1 - 1 = first
        /\ new[2] = Ev(first + 2 - 1, b) /\ first + 2 - 1 = first + 1
    BY <1>1
  <2>3. new[1] = e /\ new[2] = d
    BY <2>2
  <2> HIDE DEF new, e, d
  <2>4. Ids(new) = {e.id} \union {d.id}
    BY <2>2, <2>3 DEF Ids
  <2>5. Len(<<a, b>>) = 2
    OBVIOUS
  <2>6. AddsTwo(e, d)
    BY <2>1, <2>3, <2>4, <2>5 DEF AddsTwo
  <2> QED
    BY <1>3, <1>4, <2>6
<1> QED
  BY <1>5, <1>6

\* What emitting events does to the queue: none of them is a rein unless it may be.
Added(mayControl) ==
  /\ QueueOk(queue', tasks') /\ tasks \subseteq tasks'
  /\ ~mayControl => Reins(queue') \subseteq Reins(queue)

LEMMA AddEventsOk ==
  ASSUME QueueOk(queue, tasks), NEW a \in Types, NEW b \in Types, NEW mayControl \in BOOLEAN,
         AddEvents(<<a>>, mayControl) \/ AddEvents(<<a, b>>, mayControl)
  PROVE  Added(mayControl)
<1>1. PICK e \in Event, d \in Event :
        /\ \A t \in tasks : t < e.id
        /\ \A t \in tasks \union {e.id} : t < d.id
        /\ e.control \/ d.control => mayControl
        /\ AddsOne(e) \/ AddsTwo(e, d)
  BY AddEventsShape
<1>2. e.id \notin tasks /\ d.id \notin tasks \union {e.id}
  <2>1. e.id \in Nat /\ d.id \in Nat
    BY DEF Event
  <2>2. ~(e.id < e.id) /\ ~(d.id < d.id)
    BY <2>1
  <2> QED
    BY <1>1, <2>2
<1> DEFINE one == Enqueue(queue, e)
           two == Enqueue(one, d)
           ts == tasks \union {e.id}
<1>3. QueueOk(one, ts) /\ (~e.control => Reins(one) \subseteq Reins(queue))
  BY <1>2, EnqueueOk
<1> HIDE DEF one
<1>4. QueueOk(two, ts \union {d.id}) /\ (~d.control => Reins(two) \subseteq Reins(one))
  <2> HIDE DEF ts
  <2>1. d.id \notin ts
    BY <1>2 DEF ts
  <2> QED
    BY <1>3, <2>1, EnqueueOk
<1>5. CASE AddsOne(e)
  BY <1>1, <1>3, <1>5 DEF AddsOne, Added, one
<1>6. CASE AddsTwo(e, d)
  <2>1. tasks' = ts \union {d.id} /\ queue' = two
    BY <1>6 DEF AddsTwo, one
  <2> HIDE DEF two
  <2> QED
    BY <1>1, <1>3, <1>4, <2>1 DEF Added
<1> QED
  BY <1>1, <1>5, <1>6

-----------------------------------------------------------------------------
(* The inductive invariant. *)

Outcomes == {"completed", "failed", "cancelled"}
Places == Gates \ {"stopping"}

LeadLine ==
  [kind : {"progress", "ready"}]
    \union [kind : {"accepted"}, from : Senders, id : Nat, ok : BOOLEAN]
    \union [kind : {"end"}, own : Outcomes]
MateLine == [kind : {"cancel", "allowed", "denied"}] \union [kind : {"message"}, from : Senders, id : Nat]

\* The requests of which lines are on their way.
RequestIds(lines) == {l.id : l \in {k \in ToSet(lines) : k.kind \in {"message", "accepted"}}}

RecordOk ==
  /\ status \in {"none", "active", "done"}
  /\ cancel \in BOOLEAN /\ (cancel => status = "active")
  /\ outcome \in Outcomes \union {None} /\ (outcome # None <=> status = "done")

FeedOk == QueueOk(queue, tasks) /\ waits \subseteq tasks /\ stage \in {"hook", "sending", "acted"}

SendersOk == pending \in [Senders -> Nat] /\ accepted \subseteq Senders /\ sends \in 0 .. MaxSends

WorkerOk ==
  /\ pc \in Gates \union {"idle", "model", "tools", "ended"}
  /\ aborted \in BOOLEAN /\ asked \in BOOLEAN /\ vetoed \in BOOLEAN
  /\ inbox \in Seq(Senders) /\ Len(inbox) <= MaxInbox
  /\ loops \in 0 .. MaxLoops

LinesOk ==
  /\ toLead \in Seq(LeadLine) /\ toMate \in Seq(MateLine)
  /\ Bounded(RequestIds(toLead) \union RequestIds(toMate))

RunTypes == kind \in {"delegate", "team"} /\ RecordOk /\ FeedOk /\ SendersOk /\ WorkerOk /\ LinesOk

\* A delegate: its process is the lead's, and its gates wait for every event that may control
\* the run.
DelegateInv ==
  /\ toLead = <<>> /\ toMate = <<>> /\ ~asked
  /\ status = "none" <=> pc = "idle"
  /\ status = "done" <=> pc \in {"stopping", "ended"}
  /\ status = "active" /\ cancel => aborted
  /\ Reins(queue) \subseteq waits
  /\ Reins(queue) # {} => pc \in Places
  /\ vetoed => \/ status = "active" /\ cancel /\ pc \in Places
               \/ status = "done" /\ outcome = "cancelled"
  /\ "hook" \in ToSet(inbox) => pc # "model" /\ outcome # "completed"

Ready == [kind |-> "ready"]
Progress == [kind |-> "progress"]
Allowed == [kind |-> "allowed"]
Denied == [kind |-> "denied"]
Completed == [kind |-> "end", own |-> "completed"]

\* A team worker: its one question is on its way, held by the lead or answered.
Asking == Ready \in ToSet(toLead)
Answered == ToSet(toMate) \cap {Allowed, Denied} # {}

OneQuestion ==
  /\ Asking => ~asked /\ ~Answered
  /\ asked => ~Answered
  /\ ~Before(toLead, Ready, Ready)
  /\ \A x, y \in {Allowed, Denied} : ~Before(toMate, x, y)
  /\ Asking \/ asked \/ Answered => pc \in Places \union {"ended"}
  /\ Progress \in ToSet(toLead) => Asking /\ ~Before(toLead, Ready, Progress)

\* While an event may control the run, the answer is not yes.
HeldBack ==
  /\ Reins(queue) # {} => pc \in Places \union {"ended"}
  /\ Reins(queue) # {} /\ pc # "ended" =>
       Asking \/ Denied \in ToSet(toMate) \/ (asked /\ Reins(queue) \subseteq waits)

\* What a hook said arrives before the answer.
HookLine(l) == l.kind = "message" /\ l.from = "hook"
HooksFirst ==
  pc # "ended" => \A l \in ToSet(toMate) : HookLine(l) => pc \in Places /\ ~Before(toMate, Allowed, l)

Obeyed ==
  vetoed => \/ status = "active" /\ cancel /\ pc \in Places /\ Allowed \notin ToSet(toMate)
            \/ status = "active" /\ cancel /\ pc = "ended"
            \/ status = "done" /\ outcome = "cancelled"

TeamInv ==
  /\ pc # "stopping"
  /\ status = "none" <=> pc = "idle"
  /\ status = "done" \/ (\E l \in ToSet(toLead) : l.kind = "end") => pc = "ended"
  /\ OneQuestion /\ HeldBack /\ HooksFirst /\ Obeyed
  /\ "hook" \in ToSet(inbox) => pc # "model" /\ outcome # "completed" /\ Completed \notin ToSet(toLead)

RunInv == RunTypes /\ (kind = "delegate" => DelegateInv) /\ (kind = "team" => TeamInv)

-----------------------------------------------------------------------------
(* Types *)

LEMMA LinesApart ==
  /\ \A l \in LeadLine : l.kind \in {"progress", "ready", "accepted", "end"}
  /\ \A l \in MateLine : l.kind \in {"cancel", "allowed", "denied", "message"}
  /\ \A l \in LeadLine : l.kind = "accepted" => l.from \in Senders /\ l.id \in Nat /\ l.ok \in BOOLEAN
  /\ \A l \in LeadLine : l.kind = "end" => l.own \in Outcomes
  /\ \A l \in MateLine : l.kind = "message" => l.from \in Senders /\ l.id \in Nat
  /\ {Ready, Progress} \subseteq LeadLine /\ {Allowed, Denied, [kind |-> "cancel"]} \subseteq MateLine
  /\ \A own \in Outcomes : [kind |-> "end", own |-> own] \in LeadLine
BY DEF LeadLine, MateLine, Ready, Progress, Allowed, Denied

\* Sending and reading lines: the requests of which lines are on their way.
LEMMA SentIds ==
  ASSUME NEW S, NEW lines \in Seq(S), NEW l \in S
  PROVE  /\ l.kind \notin {"message", "accepted"} => RequestIds(Append(lines, l)) = RequestIds(lines)
         /\ RequestIds(Append(lines, l)) \subseteq RequestIds(lines) \union {l.id}
BY AppendFacts DEF RequestIds

LEMMA TakenIds ==
  ASSUME NEW S, NEW lines \in Seq(S), lines # <<>>
  PROVE  /\ RequestIds(Tail(lines)) \subseteq RequestIds(lines)
         /\ Head(lines).kind \in {"message", "accepted"} => Head(lines).id \in RequestIds(lines)
BY TailFacts DEF RequestIds

\* What the worker tells the lead carries no request.
Told == toLead' \in Seq(LeadLine) /\ RequestIds(toLead') \subseteq RequestIds(toLead)

LEMMA ToldOne ==
  ASSUME toLead \in Seq(LeadLine), NEW l \in LeadLine, l.kind # "accepted", toLead' = Append(toLead, l)
  PROVE  Told
<1>1. l.kind \notin {"message", "accepted"}
  BY LinesApart
<1> QED
  BY <1>1, SentIds, AppendFacts DEF Told

LEMMA TwoLines ==
  ASSUME NEW S, NEW s \in Seq(S), NEW x \in S, NEW y \in S
  PROVE  s \o <<x, y>> = Append(Append(s, x), y)
OBVIOUS

LEMMA ToldTwo ==
  ASSUME toLead \in Seq(LeadLine), toLead' = toLead \o <<[kind |-> "progress"], [kind |-> "ready"]>>
  PROVE  Told
<1> DEFINE one == Append(toLead, Progress)
<1>1. Progress \in LeadLine /\ Ready \in LeadLine
  BY LinesApart
<1>2. toLead' = Append(one, Ready)
  BY <1>1, TwoLines DEF Progress, Ready
<1>3. one \in Seq(LeadLine) /\ RequestIds(one) = RequestIds(toLead)
  <2>1. Progress.kind \notin {"message", "accepted"}
    BY DEF Progress
  <2> QED
    BY <1>1, <2>1, SentIds, AppendFacts
<1> HIDE DEF one
<1>4. Append(one, Ready) \in Seq(LeadLine) /\ RequestIds(Append(one, Ready)) = RequestIds(one)
  <2>1. Ready.kind \notin {"message", "accepted"}
    BY DEF Ready
  <2> QED
    BY <1>1, <1>3, <2>1, SentIds, AppendFacts
<1> QED
  BY <1>2, <1>3, <1>4 DEF Told

\* A move of the worker, of which the record, the events and the lead know.
Moved ==
  /\ RecordOk' /\ QueueOk(queue', tasks') /\ waits' \subseteq tasks' /\ stage' = stage
  /\ Told
  /\ pc' \in Gates \union {"idle", "model", "tools", "ended"}

Worked == (inbox' = inbox \/ inbox' = <<>>) /\ loops' \in 0 .. MaxLoops

LEMMA FinishRunTyped ==
  ASSUME RecordOk, QueueOk(queue, tasks), NEW own \in Outcomes, FinishRun(own)
  PROVE  RecordOk' /\ QueueOk(queue', tasks') /\ tasks \subseteq tasks' /\ stage' = stage
<1>1. CASE status = "active"
  <2>1. /\ status' = "done" /\ cancel' = FALSE /\ outcome' = own
        /\ AddEvents(<<"stop">>, FALSE) /\ stage' = stage
    BY <1>1 DEF FinishRun, Emit
  <2>2. Added(FALSE)
    BY <2>1, AddEventsOk DEF Types
  <2>3. own # None
    BY RunAssumption DEF Outcomes
  <2> QED
    BY <2>1, <2>2, <2>3 DEF RecordOk, Added
<1>2. CASE status # "active"
  BY <1>2 DEF FinishRun, record, feed, RecordOk
<1> QED
  BY <1>1, <1>2

LEMMA ReportTyped ==
  ASSUME RunTypes, NEW place \in Places, Report(place)
  PROVE  Moved
<1> USE DEF RunTypes, FeedOk
<1>1. pc' = place /\ RecordOk'
  BY DEF Report, RecordOk, record
<1>2. CASE kind = "delegate"
  <2>1. AddEvents(<<"progress">>, ~cancel) /\ stage' = stage /\ waits' = tasks' /\ toLead' = toLead
    BY <1>2 DEF Report, Emit
  <2>2. Added(~cancel)
    BY <2>1, AddEventsOk DEF Types, RecordOk
  <2> QED
    BY <1>1, <2>1, <2>2 DEF Moved, Added, Told, LinesOk, Places
<1>3. CASE kind # "delegate"
  <2>1. UNCHANGED <<tasks, queue, stage, waits>> /\ Told
    BY <1>3, ToldTwo DEF Report, feed, LinesOk
  <2> QED
    BY <1>1, <2>1 DEF Moved, Places
<1> QED
  BY <1>2, <1>3

LEMMA EndTyped ==
  ASSUME RunTypes, NEW own \in Outcomes, End(own)
  PROVE  Moved /\ Worked
<1> USE DEF RunTypes, FeedOk
<1>1. Worked
  BY DEF End, Worked, WorkerOk
<1>2. CASE kind = "delegate"
  <2>1. FinishRun(own) /\ pc' = "stopping" /\ waits' = tasks' /\ toLead' = toLead
    BY <1>2 DEF End
  <2>2. RecordOk' /\ QueueOk(queue', tasks') /\ stage' = stage
    BY <2>1, FinishRunTyped
  <2> QED
    BY <1>1, <2>1, <2>2 DEF Moved, Told, LinesOk, Gates
<1>3. CASE kind # "delegate"
  <2>1. /\ toLead' = Append(toLead, [kind |-> "end", own |-> own]) /\ pc' = "ended"
        /\ UNCHANGED <<status, cancel, outcome, tasks, queue, stage, waits>>
    BY <1>3 DEF End, record, feed
  <2>2. Told
    BY <2>1, ToldOne, LinesApart DEF LinesOk
  <2> QED
    BY <1>1, <2>1, <2>2 DEF Moved, RecordOk
<1> QED
  BY <1>2, <1>3

LEMMA IterateTyped ==
  ASSUME RunTypes, Iterate
  PROVE  Moved /\ Worked
<1>1. CASE loops = MaxLoops
  BY <1>1, EndTyped DEF Iterate, Outcomes
<1>2. CASE loops # MaxLoops
  <2>1. loops' = loops + 1 /\ inbox' = <<>> /\ Report("before")
    BY <1>2 DEF Iterate
  <2>2. loops + 1 \in 0 .. MaxLoops
    BY <1>2, RunAssumption DEF RunTypes, WorkerOk
  <2> QED
    BY <2>1, <2>2, ReportTyped DEF Worked, Places, Gates
<1> QED
  BY <1>1, <1>2

LEMMA ProceedTyped ==
  ASSUME RunTypes, Proceed
  PROVE  Moved /\ Worked
<1>1. CASE Iterate
  BY <1>1, IterateTyped
<1>2. CASE End("completed") \/ End("failed")
  BY <1>2, EndTyped DEF Outcomes
<1>3. CASE Report("call") /\ UNCHANGED <<inbox, loops>>
  BY <1>3, ReportTyped DEF Worked, Places, Gates, RunTypes, WorkerOk
<1>4. CASE pc' \in {"model", "tools"} /\ inbox' \in {inbox, <<>>} /\ UNCHANGED <<record, feed, waits, toLead, loops>>
  BY <1>4 DEF Moved, Worked, Told, RunTypes, WorkerOk, RecordOk, FeedOk, LinesOk, record, feed
<1> QED
  BY <1>1, <1>2, <1>3, <1>4 DEF Proceed

\* The parts of the state a move of the worker leaves alone, and those it changes.
LEMMA MovedTyped ==
  ASSUME RunTypes, Moved, Worked, kind' = kind, SendersOk', toMate' \in Seq(MateLine),
         RequestIds(toMate') \subseteq RequestIds(toMate),
         aborted' \in BOOLEAN, asked' \in BOOLEAN, vetoed' \in BOOLEAN
  PROVE  RunTypes'
<1>1. Bounded(RequestIds(toLead') \union RequestIds(toMate'))
  BY BoundedSubset DEF RunTypes, LinesOk, Moved, Told
<1>2. LinesOk'
  BY <1>1 DEF LinesOk, Moved, Told
<1>3. inbox' \in Seq(Senders) /\ Len(inbox') <= MaxInbox
  <2>1. MaxInbox \in Nat /\ <<>> \in Seq(Senders) /\ Len(<<>>) = 0
    BY RunAssumption, EmptySeq
  <2>2. inbox \in Seq(Senders) /\ Len(inbox) <= MaxInbox
    BY DEF RunTypes, WorkerOk
  <2>3. CASE inbox' = inbox
    BY <2>2, <2>3
  <2>4. CASE inbox' = <<>>
    BY <2>1, <2>4
  <2> QED
    BY <2>3, <2>4 DEF Worked
<1>4. WorkerOk'
  BY <1>3 DEF WorkerOk, Moved, Worked
<1>5. FeedOk'
  BY DEF RunTypes, FeedOk, Moved
<1> QED
  BY <1>2, <1>4, <1>5 DEF RunTypes, Moved

LEMMA StillTyped ==
  ASSUME RunTypes, UNCHANGED <<status, cancel, outcome, tasks, queue, stage, waits, pc, inbox, loops, toLead>>
  PROVE  Moved /\ Worked
BY DEF Moved, Worked, Told, RunTypes, WorkerOk, RecordOk, FeedOk, LinesOk

\* The gates and steps of the worker.
LEMMA WorkerTyped ==
  ASSUME RunInv,
         Start \/ PassGate \/ StepEnds \/ StopHandled \/ ParentAborts \/ GateTimesOut
  PROVE  RunTypes'
<1> USE DEF RunInv
<1>1. kind' = kind /\ asked' = asked /\ vetoed' = vetoed /\ toMate' = toMate /\ aborted' \in BOOLEAN /\ SendersOk'
  BY DEF Start, PassGate, StepEnds, StopHandled, ParentAborts, GateTimesOut, messages, worker, gate, RunTypes, WorkerOk,
         SendersOk
<1>2. Moved /\ Worked
  <2>1. CASE Start
    <3>1. /\ status' = "active" /\ cancel' = cancel /\ outcome' = outcome /\ pc = "idle"
          /\ AddEvents(<<"start">>, TRUE) /\ stage' = stage /\ pc' = "start" /\ inbox' = inbox /\ loops' = loops
          /\ \/ waits' = tasks' /\ toLead' = toLead
             \/ waits' = waits /\ toLead' = <<Ready>>
      BY <2>1 DEF Start, Emit, Ready
    <3>2. status = "none"
      BY <3>1 DEF DelegateInv, TeamInv, RunTypes
    <3>3. Added(TRUE)
      BY <3>1, AddEventsOk DEF Types, RunTypes, FeedOk
    <3>4. ASSUME toLead' = <<Ready>> PROVE Told
      <4>1. <<Ready>> \in Seq(LeadLine) /\ ToSet(<<Ready>>) = {Ready}
        BY ShortFacts, LinesApart
      <4>2. RequestIds(<<Ready>>) = {}
        BY <4>1 DEF RequestIds, Ready
      <4> QED
        BY <3>4, <4>1, <4>2 DEF Told
    <3>5. Told
      BY <3>1, <3>4 DEF Told, RunTypes, LinesOk
    <3>6. RecordOk'
      BY <3>1, <3>2 DEF RunTypes, RecordOk
    <3> QED
      BY <3>1, <3>3, <3>5, <3>6 DEF Moved, Worked, Added, RunTypes, WorkerOk, FeedOk, Gates
  <2>2. CASE PassGate \/ StepEnds \/ GateTimesOut
    <3>1. Proceed \/ End("cancelled") \/ End("failed")
            \/ ((Report("after") \/ Report("result")) /\ UNCHANGED <<inbox, loops>>)
      BY <2>2 DEF PassGate, StepEnds, GateTimesOut
    <3>2. CASE (Report("after") \/ Report("result")) /\ UNCHANGED <<inbox, loops>>
      BY <3>2, ReportTyped DEF Worked, Places, Gates, RunTypes, WorkerOk
    <3> QED
      BY <3>1, <3>2, ProceedTyped, EndTyped DEF Outcomes
  <2>3. CASE StopHandled
    BY <2>3 DEF StopHandled, Moved, Worked, Told, RunTypes, WorkerOk, RecordOk, FeedOk, LinesOk, record, feed, gate
  <2>4. CASE ParentAborts
    BY <2>4, StillTyped DEF ParentAborts, record, feed, gate
  <2> QED
    BY <2>1, <2>2, <2>3, <2>4
<1> QED
  BY <1>1, <1>2, MovedTyped DEF RunTypes, WorkerOk, LinesOk

\* Cancelling makes no reins, and keeps the types of what it touches.
LEMMA CancelTyped ==
  ASSUME RunTypes, Cancellable, NEW types, types \in {<<"cancel-requested">>, <<"cancel-requested", "progress">>},
         Cancel(types), UNCHANGED <<kind, sends, accepted>>, toLead' = toLead
  PROVE  /\ RecordOk' /\ SendersOk' /\ LinesOk' /\ aborted' \in BOOLEAN
         /\ Added(FALSE)
<1>1. cancel' = TRUE /\ UNCHANGED <<status, outcome>> /\ pending' = [s \in Senders |-> 0]
  BY DEF Cancel
<1>2. RecordOk' /\ SendersOk'
  BY <1>1 DEF RunTypes, RecordOk, SendersOk, Cancellable
<1>3. Added(FALSE)
  <2>1. AddEvents(<<"cancel-requested">>, FALSE) \/ AddEvents(<<"cancel-requested", "progress">>, FALSE)
    BY DEF Cancel
  <2> QED
    BY <2>1, AddEventsOk DEF Types, RunTypes, FeedOk
<1>4. CASE kind = "delegate"
  BY <1>2, <1>3, <1>4 DEF Cancel, RunTypes, LinesOk
<1>5. CASE kind # "delegate"
  <2> DEFINE l == [kind |-> "cancel"]
  <2>1. toMate' = Append(toMate, l) /\ aborted' = aborted
    BY <1>5 DEF Cancel
  <2>2. l \in MateLine /\ l.kind \notin {"message", "accepted"} /\ toMate \in Seq(MateLine)
    BY LinesApart DEF RunTypes, LinesOk
  <2> HIDE DEF l
  <2>3. toMate' \in Seq(MateLine) /\ RequestIds(toMate') = RequestIds(toMate)
    BY <2>1, <2>2, SentIds, AppendFacts
  <2>4. LinesOk'
    BY <2>3 DEF RunTypes, LinesOk
  <2> QED
    BY <1>2, <1>3, <2>1, <2>4 DEF RunTypes, WorkerOk
<1> QED
  BY <1>4, <1>5

LEMMA FreshRequestFacts ==
  ASSUME RunTypes, NEW s \in Senders
  PROVE  FreshRequest(s) \in Nat
<1> DEFINE lines == {l \in ToSet(toLead \o toMate) : l.kind \in {"message", "accepted"} /\ l.from = s}
           ids == {l.id : l \in lines}
<1>1. toLead \in Seq(LeadLine \union MateLine) /\ toMate \in Seq(LeadLine \union MateLine)
  BY SeqMonotonic DEF RunTypes, LinesOk
<1>2. ToSet(toLead \o toMate) = ToSet(toLead) \union ToSet(toMate)
  BY <1>1, ConcatFacts
<1>3. ids \subseteq RequestIds(toLead) \union RequestIds(toMate)
  BY <1>2 DEF RequestIds
<1>4. Bounded(ids)
  <2> HIDE DEF ids
  <2> QED
    BY <1>3, BoundedSubset DEF RunTypes, LinesOk
<1>5. FreshRequest(s) = Max(ids \union {0}) + 1
  BY DEF FreshRequest
<1> HIDE DEF ids
<1> QED
  BY <1>4, <1>5, FreshFacts

LEMMA SendTyped ==
  ASSUME RunTypes, NEW s \in Senders, Send(s), sends' \in 0 .. MaxSends, toLead' = toLead
  PROVE  /\ SendersOk' /\ LinesOk'
         /\ inbox' \in Seq(Senders) /\ Len(inbox') <= MaxInbox
<1>1. inbox \in Seq(Senders) /\ Len(inbox) <= MaxInbox /\ MaxInbox \in Nat /\ Len(inbox) \in Nat
  BY RunAssumption, LenProperties DEF RunTypes, WorkerOk
<1>2. CASE kind = "delegate"
  <2>1. /\ \/ UNCHANGED <<inbox, accepted>>
           \/ Len(inbox) # MaxInbox /\ inbox' = Append(inbox, s) /\ accepted' = accepted \union {s}
        /\ UNCHANGED <<pending, toMate>>
    BY <1>2 DEF Send
  <2>2. ASSUME Len(inbox) # MaxInbox, inbox' = Append(inbox, s)
        PROVE  inbox' \in Seq(Senders) /\ Len(inbox') <= MaxInbox
    <3>1. Append(inbox, s) \in Seq(Senders) /\ Len(Append(inbox, s)) = Len(inbox) + 1
      BY <1>1
    <3> QED
      BY <1>1, <2>2, <3>1
  <2> QED
    BY <1>1, <2>1, <2>2 DEF RunTypes, SendersOk, LinesOk
<1>3. CASE kind # "delegate"
  <2> DEFINE l == [kind |-> "message", from |-> s, id |-> FreshRequest(s)]
  <2>1. /\ pending' = [pending EXCEPT ![s] = FreshRequest(s)] /\ toMate' = Append(toMate, l)
        /\ UNCHANGED <<inbox, accepted>>
    BY <1>3 DEF Send
  <2>2. FreshRequest(s) \in Nat
    BY FreshRequestFacts
  <2>3. l \in MateLine /\ l.id = FreshRequest(s)
    BY <2>2 DEF MateLine
  <2>4. pending' \in [Senders -> Nat]
    BY <2>1, <2>2 DEF RunTypes, SendersOk
  <2> HIDE DEF l
  <2>5. toMate' \in Seq(MateLine) /\ RequestIds(toMate') \subseteq RequestIds(toMate) \union {FreshRequest(s)}
    BY <2>1, <2>3, SentIds, AppendFacts DEF RunTypes, LinesOk
  <2>6. Bounded(RequestIds(toLead') \union RequestIds(toMate'))
    <3>1. Bounded((RequestIds(toLead) \union RequestIds(toMate)) \union {FreshRequest(s)})
      BY <2>2, BoundedUnion DEF RunTypes, LinesOk
    <3> QED
      BY <3>1, <2>5, BoundedSubset
  <2> QED
    BY <1>1, <2>1, <2>4, <2>5, <2>6 DEF RunTypes, SendersOk, LinesOk
<1> QED
  BY <1>2, <1>3

\* The store's calls.
LEMMA CallsTyped ==
  ASSUME RunTypes,
         \/ RequestCancel \/ StopTask \/ UserSends
         \/ \E s \in Senders : Delivered(s) \/ SendTimesOut(s)
  PROVE  RunTypes'
<1>1. CASE RequestCancel \/ StopTask
  <2>1. PICK types \in {<<"cancel-requested">>, <<"cancel-requested", "progress">>} : Cancellable /\ Cancel(types)
    BY <1>1 DEF RequestCancel, StopTask
  <2>2. UNCHANGED <<kind, stage, accepted, sends, pc, inbox, loops, waits, asked, toLead, vetoed>>
    BY <1>1 DEF RequestCancel, StopTask, gate
  <2>3. RecordOk' /\ SendersOk' /\ LinesOk' /\ aborted' \in BOOLEAN /\ Added(FALSE)
    BY <2>1, <2>2, CancelTyped
  <2> QED
    BY <2>2, <2>3 DEF RunTypes, FeedOk, Added, WorkerOk
<1>2. CASE UserSends
  <2>1. /\ Send("user") /\ sends' = sends + 1 /\ sends < MaxSends
        /\ UNCHANGED <<kind, status, cancel, outcome, tasks, queue, stage, pc, aborted, loops, waits, asked, toLead, vetoed>>
    BY <1>2 DEF UserSends, record, feed, gate
  <2>2. sends' \in 0 .. MaxSends
    BY <2>1, RunAssumption DEF RunTypes, SendersOk
  <2>3. SendersOk' /\ LinesOk' /\ inbox' \in Seq(Senders) /\ Len(inbox') <= MaxInbox
    BY <2>1, <2>2, SendTyped DEF Senders
  <2> QED
    BY <2>1, <2>3 DEF RunTypes, RecordOk, FeedOk, WorkerOk
<1>3. ASSUME NEW s \in Senders, Delivered(s)
      PROVE  RunTypes'
  <2>1. /\ AddEvents(<<"message">>, FALSE) /\ accepted' = accepted \ {s}
        /\ UNCHANGED <<kind, status, cancel, outcome, stage, pending, sends, pc, aborted, inbox, loops, waits, asked, toLead, toMate, vetoed>>
    BY <1>3 DEF Delivered, Emit, record, worker, gate
  <2>2. Added(FALSE)
    BY <2>1, AddEventsOk DEF Types, RunTypes, FeedOk
  <2> QED
    BY <2>1, <2>2 DEF RunTypes, RecordOk, FeedOk, SendersOk, WorkerOk, LinesOk, Added
<1>4. ASSUME NEW s \in Senders, SendTimesOut(s)
      PROVE  RunTypes'
  <2>1. /\ pending' = [pending EXCEPT ![s] = 0]
        /\ UNCHANGED <<kind, status, cancel, outcome, tasks, queue, stage, accepted, sends, pc, aborted, inbox, loops, waits, asked, toLead, toMate, vetoed>>
    BY <1>4 DEF SendTimesOut, record, feed, worker, gate
  <2>2. pending' \in [Senders -> Nat]
    BY <2>1 DEF RunTypes, SendersOk
  <2> QED
    BY <2>1, <2>2 DEF RunTypes, RecordOk, FeedOk, SendersOk, WorkerOk, LinesOk
<1> QED
  BY <1>1, <1>2, <1>3, <1>4

\* The handler of the hooks.
LEMMA HandleTyped ==
  ASSUME RunTypes, Handle
  PROVE  RunTypes'
<1>1. CASE HooksStop
  <2>1. /\ stage' = "acted" /\ vetoed' = (vetoed \/ status = "active")
        /\ UNCHANGED <<kind, accepted, sends, pc, inbox, loops, waits, asked, toLead>>
    BY <1>1 DEF HooksStop, gate
  <2>2. CASE Cancellable
    <3>1. Cancel(<<"cancel-requested", "progress">>)
      BY <1>1, <2>2 DEF HooksStop
    <3>2. RecordOk' /\ SendersOk' /\ LinesOk' /\ aborted' \in BOOLEAN /\ Added(FALSE)
      BY <3>1, <2>1, <2>2, CancelTyped
    <3> QED
      BY <2>1, <3>2 DEF RunTypes, FeedOk, Added, WorkerOk
  <2>3. CASE ~Cancellable
    <3>1. UNCHANGED <<status, cancel, outcome, tasks, queue, pending, aborted, toMate>>
      BY <1>1, <2>3 DEF HooksStop, record
    <3> QED
      BY <2>1, <3>1 DEF RunTypes, RecordOk, FeedOk, SendersOk, WorkerOk, LinesOk
  <2> QED
    BY <2>2, <2>3
<1>2. CASE HooksInform
  <2>1. /\ Send("hook") /\ stage' = "sending"
        /\ UNCHANGED <<kind, status, cancel, outcome, tasks, queue, sends, pc, aborted, loops, waits, asked, toLead, vetoed>>
    BY <1>2 DEF HooksInform, record, gate
  <2>2. SendersOk' /\ LinesOk' /\ inbox' \in Seq(Senders) /\ Len(inbox') <= MaxInbox
    BY <2>1, SendTyped DEF RunTypes, SendersOk, Senders
  <2> QED
    BY <2>1, <2>2 DEF RunTypes, RecordOk, FeedOk, WorkerOk
<1>3. CASE Shift
  <2> DEFINE gone == Ids(Head(queue).served)
  <2>1. /\ queue # <<>> /\ queue' = Tail(queue) /\ stage' = "hook" /\ tasks' = tasks \ gone /\ waits' = waits \ gone
        /\ UNCHANGED <<kind, status, cancel, outcome, pending, accepted, sends, pc, aborted, inbox, loops, asked, toLead, toMate, vetoed>>
    BY <1>3 DEF Shift, record, messages, worker
  <2>2. QueueOk(queue', tasks') /\ waits' \subseteq tasks'
    BY <2>1, ShiftOk DEF RunTypes, FeedOk
  <2> QED
    BY <2>1, <2>2 DEF RunTypes, RecordOk, FeedOk, SendersOk, WorkerOk, LinesOk
<1> QED
  BY <1>1, <1>2, <1>3 DEF Handle

\* A line is taken from its sequence, and what is left is of the same kind.
LEMMA TakenTyped ==
  /\ RunTypes /\ toLead # <<>> =>
       /\ Head(toLead) \in LeadLine /\ Tail(toLead) \in Seq(LeadLine)
       /\ RequestIds(Tail(toLead)) \subseteq RequestIds(toLead)
  /\ RunTypes /\ toMate # <<>> =>
       /\ Head(toMate) \in MateLine /\ Tail(toMate) \in Seq(MateLine)
       /\ RequestIds(Tail(toMate)) \subseteq RequestIds(toMate)
BY TailFacts, TakenIds DEF RunTypes, LinesOk

\* What the lead answers carries no request.
LEMMA AnswerTyped ==
  ASSUME RunTypes, NEW allowed \in BOOLEAN, Answer(allowed)
  PROVE  toMate' \in Seq(MateLine) /\ RequestIds(toMate') = RequestIds(toMate)
<1> DEFINE l == [kind |-> IF allowed THEN "allowed" ELSE "denied"]
<1>1. l \in MateLine /\ l.kind \notin {"message", "accepted"}
  BY DEF MateLine
<1>2. toMate' = Append(toMate, l)
  BY DEF Answer
<1> HIDE DEF l
<1> QED
  BY <1>1, <1>2, SentIds, AppendFacts DEF RunTypes, LinesOk

LEMMA LeadTyped ==
  ASSUME RunTypes, LeadReads \/ AuthorizeRunStart
  PROVE  RunTypes'
<1>1. CASE AuthorizeRunStart
  <2>1. /\ asked' = FALSE /\ Answer(Cancellable)
        /\ UNCHANGED <<kind, status, cancel, outcome, tasks, queue, stage, pending, accepted, sends, pc, aborted, inbox,
                       loops, waits, toLead, vetoed>>
    BY <1>1 DEF AuthorizeRunStart, record, feed, messages, worker
  <2>2. Cancellable \in BOOLEAN
    BY DEF Cancellable
  <2>3. toMate' \in Seq(MateLine) /\ RequestIds(toMate') = RequestIds(toMate)
    BY <2>1, <2>2, AnswerTyped
  <2> QED
    BY <2>1, <2>3 DEF RunTypes, RecordOk, FeedOk, SendersOk, WorkerOk, LinesOk
<1>2. ASSUME LeadReads
      PROVE  /\ toLead # <<>> /\ toLead' = Tail(toLead)
             /\ UNCHANGED <<kind, sends, pc, aborted, inbox, loops, vetoed>>
  BY <1>2 DEF LeadReads, OnProgress, OnRunReady, OnRunMessageResult, OnEnd, Line, LeadTakes, worker
\* The lines that are left.
<1>3. ASSUME LeadReads, toMate' \in Seq(MateLine), RequestIds(toMate') = RequestIds(toMate)
      PROVE  LinesOk'
  <2>1. toLead' \in Seq(LeadLine) /\ RequestIds(toLead') \subseteq RequestIds(toLead)
    BY <1>2, <1>3, TakenTyped
  <2>2. Bounded(RequestIds(toLead') \union RequestIds(toMate'))
    BY <2>1, <1>3, BoundedSubset DEF RunTypes, LinesOk
  <2> QED
    BY <2>1, <2>2, <1>3 DEF LinesOk
<1>4. CASE OnProgress
  <2>1. UNCHANGED <<status, cancel, outcome, pending, accepted, waits, asked, toMate>>
    BY <1>4 DEF OnProgress, record, gate
  <2>2. QueueOk(queue', tasks') /\ tasks \subseteq tasks' /\ stage' = stage
    <3>1. CASE status = "active"
      <4>1. AddEvents(<<"progress">>, ~cancel) /\ stage' = stage
        BY <1>4, <3>1 DEF OnProgress, Emit
      <4> QED
        BY <4>1, AddEventsOk DEF Added, Types, RunTypes, RecordOk, FeedOk
    <3>2. CASE status # "active"
      BY <1>4, <3>2 DEF OnProgress, feed, RunTypes, FeedOk
    <3> QED
      BY <3>1, <3>2
  <2>3. LinesOk'
    BY <1>3, <1>4, <2>1 DEF LeadReads, RunTypes, LinesOk
  <2> QED
    BY <1>2, <1>4, <2>1, <2>2, <2>3 DEF LeadReads, RunTypes, RecordOk, FeedOk, SendersOk, WorkerOk
<1>5. CASE OnRunReady
  <2>1. UNCHANGED <<status, cancel, outcome, tasks, queue, stage, pending, accepted>>
    BY <1>5 DEF OnRunReady, record, feed
  <2>2. \/ asked' = TRUE /\ waits' = tasks /\ toMate' = toMate
        \/ Answer(FALSE) /\ UNCHANGED <<waits, asked>>
    BY <1>5 DEF OnRunReady, gate
  <2>3. toMate' \in Seq(MateLine) /\ RequestIds(toMate') = RequestIds(toMate)
    BY <2>2, AnswerTyped DEF RunTypes, LinesOk
  <2>4. LinesOk'
    BY <1>3, <1>5, <2>3 DEF LeadReads
  <2> QED
    BY <1>2, <1>5, <2>1, <2>2, <2>4 DEF LeadReads, RunTypes, RecordOk, FeedOk, SendersOk, WorkerOk
<1>6. CASE OnRunMessageResult
  <2>1. /\ UNCHANGED <<status, cancel, outcome, tasks, queue, stage, waits, asked, toMate>>
        /\ Head(toLead).kind = "accepted" /\ toLead # <<>>
    BY <1>6 DEF OnRunMessageResult, record, feed, gate, Line
  <2>2. Head(toLead).from \in Senders
    BY <2>1, TakenTyped, LinesApart
  <2>3. \/ UNCHANGED <<pending, accepted>>
        \/ /\ pending' = [pending EXCEPT ![Head(toLead).from] = 0]
           /\ accepted' = accepted \/ accepted' = accepted \union {Head(toLead).from}
    BY <1>6 DEF OnRunMessageResult
  <2>4. pending' \in [Senders -> Nat] /\ accepted' \subseteq Senders
    BY <2>2, <2>3 DEF RunTypes, SendersOk
  <2>5. LinesOk'
    BY <1>3, <1>6, <2>1 DEF LeadReads, RunTypes, LinesOk
  <2> QED
    BY <1>2, <1>6, <2>1, <2>4, <2>5 DEF LeadReads, RunTypes, RecordOk, FeedOk, SendersOk, WorkerOk
<1>7. CASE OnEnd
  <2>1. /\ UNCHANGED <<accepted, waits, asked, toMate>> /\ pending' = [s \in Senders |-> 0]
        /\ Head(toLead).kind = "end" /\ toLead # <<>>
        /\ FinishRun(IF cancel THEN "cancelled" ELSE Head(toLead).own)
    BY <1>7 DEF OnEnd, gate, Line
  <2>2. (IF cancel THEN "cancelled" ELSE Head(toLead).own) \in Outcomes
    BY <2>1, TakenTyped, LinesApart DEF Outcomes
  <2>3. RecordOk' /\ QueueOk(queue', tasks') /\ tasks \subseteq tasks' /\ stage' = stage
    BY <2>1, <2>2, FinishRunTyped DEF RunTypes, FeedOk
  <2>4. LinesOk'
    BY <1>3, <1>7, <2>1 DEF LeadReads, RunTypes, LinesOk
  <2> QED
    BY <1>2, <1>7, <2>1, <2>3, <2>4 DEF LeadReads, RunTypes, FeedOk, SendersOk, WorkerOk
<1> QED
  BY <1>1, <1>4, <1>5, <1>6, <1>7 DEF LeadReads

LEMMA MateTyped ==
  ASSUME RunTypes, MateReads
  PROVE  RunTypes'
<1>1. /\ toMate # <<>> /\ toMate' = Tail(toMate)
      /\ UNCHANGED <<kind, pending, accepted, sends, asked, vetoed>>
  BY DEF MateReads, OnAllowed, OnDenied, OnCancel, OnRunMessage, Line, MateTakes, messages
<1>2. /\ Head(toMate) \in MateLine /\ toMate' \in Seq(MateLine) /\ RequestIds(toMate') \subseteq RequestIds(toMate)
      /\ SendersOk'
  BY <1>1, TakenTyped DEF RunTypes, SendersOk
<1>3. CASE OnAllowed \/ OnDenied \/ OnCancel
  <2>1. aborted' \in BOOLEAN
    BY <1>3 DEF OnAllowed, OnDenied, OnCancel, RunTypes, WorkerOk
  <2>2. \/ Proceed \/ End("failed") \/ End("cancelled")
        \/ UNCHANGED <<status, cancel, outcome, tasks, queue, stage, waits, pc, inbox, loops, toLead>>
    BY <1>3 DEF OnAllowed, OnDenied, OnCancel, record, feed
  <2>3. Moved /\ Worked
    BY <2>2, ProceedTyped, EndTyped, StillTyped DEF Outcomes
  <2> QED
    BY <1>1, <1>2, <2>1, <2>3, MovedTyped DEF RunTypes, WorkerOk
<1>4. CASE OnRunMessage
  <2> DEFINE m == Head(toMate)
             ok == pc # "ended" /\ ~aborted /\ Len(inbox) < MaxInbox
             l == [kind |-> "accepted", from |-> m.from, id |-> m.id, ok |-> ok]
  <2>1. /\ m.kind = "message" /\ toLead' = Append(toLead, l)
        /\ inbox' = IF ok THEN Append(inbox, m.from) ELSE inbox
        /\ UNCHANGED <<status, cancel, outcome, tasks, queue, stage, waits, pc, aborted, loops>>
    BY <1>4 DEF OnRunMessage, Line, record, feed
  <2>2. m.from \in Senders /\ m.id \in Nat /\ m.id \in RequestIds(toMate)
    BY <1>1, <1>2, <2>1, LinesApart, TakenIds DEF RunTypes, LinesOk
  <2>3. ok \in BOOLEAN /\ l \in LeadLine /\ l.id = m.id
    <3>1. ok \in BOOLEAN
      OBVIOUS
    <3> HIDE DEF ok, m
    <3> QED
      BY <3>1, <2>2 DEF LeadLine
  <2>4. inbox' \in Seq(Senders) /\ Len(inbox') <= MaxInbox
    <3>1. inbox \in Seq(Senders) /\ Len(inbox) <= MaxInbox /\ MaxInbox \in Nat /\ Len(inbox) \in Nat
      BY RunAssumption, LenProperties DEF RunTypes, WorkerOk
    <3>2. CASE ok
      <4>1. Append(inbox, m.from) \in Seq(Senders) /\ Len(Append(inbox, m.from)) = Len(inbox) + 1
        BY <3>1, <2>2
      <4> QED
        BY <2>1, <3>1, <3>2, <4>1
    <3>3. CASE ~ok
      BY <2>1, <3>1, <3>3
    <3> QED
      BY <3>2, <3>3
  <2> HIDE DEF l
  <2>5. toLead' \in Seq(LeadLine) /\ RequestIds(toLead') \subseteq RequestIds(toLead) \union {m.id}
    BY <2>1, <2>3, SentIds, AppendFacts DEF RunTypes, LinesOk
  <2>6. Bounded(RequestIds(toLead') \union RequestIds(toMate'))
    BY <2>2, <2>5, <1>2, BoundedSubset DEF RunTypes, LinesOk
  <2> QED
    BY <1>1, <1>2, <2>1, <2>4, <2>5, <2>6 DEF RunTypes, RecordOk, FeedOk, WorkerOk, LinesOk
<1> QED
  BY <1>3, <1>4 DEF MateReads

LEMMA InitTyped ==
  ASSUME Init
  PROVE  RunTypes
<1>1. QueueOk(<<>>, {})
  BY DEF QueueOk, Bounded
<1>2. RequestIds(<<>>) = {}
  BY DEF RequestIds, ToSet
<1>3. Bounded({} \union {})
  BY DEF Bounded
<1>4. SendersOk /\ WorkerOk
  <2>1. MaxLoops \in Nat /\ MaxInbox \in Nat /\ MaxSends \in Nat
    BY RunAssumption
  <2>2. <<>> \in Seq(Senders) /\ Len(<<>>) = 0
    BY EmptySeq
  <2>3. SendersOk
    BY <2>1 DEF Init, SendersOk
  <2>4. pc = "idle" /\ aborted = FALSE /\ inbox = <<>> /\ loops = 0 /\ asked = FALSE /\ vetoed = FALSE
    BY DEF Init
  <2>5. inbox \in Seq(Senders) /\ Len(inbox) <= MaxInbox
    <3>1. Len(inbox) = 0
      BY <2>2, <2>4
    <3> QED
      BY <2>1, <2>2, <2>4, <3>1
  <2>6. loops \in 0 .. MaxLoops
    BY <2>1, <2>4
  <2> QED
    BY <2>3, <2>4, <2>5, <2>6 DEF WorkerOk
<1>5. LinesOk
  <2>1. <<>> \in Seq(LeadLine) /\ <<>> \in Seq(MateLine)
    BY EmptySeq
  <2>2. toLead = <<>> /\ toMate = <<>>
    BY DEF Init
  <2> QED
    BY <1>2, <1>3, <2>1, <2>2 DEF LinesOk
<1>6. RecordOk
  BY DEF Init, RecordOk
<1>7. FeedOk
  BY <1>1 DEF Init, FeedOk
<1> QED
  BY <1>4, <1>5, <1>6, <1>7, RunAssumption DEF Init, RunTypes

-----------------------------------------------------------------------------
(* A delegate *)

\* Where the worker is while the run is active.
LEMMA DelegatePlaces ==
  ASSUME RunInv, kind = "delegate"
  PROVE  /\ DelegateInv /\ RunTypes
         /\ pc \in Places \union {"model", "tools"} => status = "active" /\ outcome = None
         /\ pc \in Places => pc # "stopping"
         /\ None \notin Outcomes /\ \A place \in Places : place \notin {"idle", "model", "stopping", "ended"}
<1>1. DelegateInv /\ RunTypes
  BY DEF RunInv
<1>2. None \notin Outcomes
  BY RunAssumption DEF Outcomes
<1>3. \A place \in Places : place \notin {"idle", "model", "tools", "stopping", "ended"}
  BY DEF Places, Gates
<1>4. pc \in Places \union {"model", "tools"} => status = "active" /\ outcome = None
  BY <1>1, <1>2, <1>3 DEF DelegateInv, RunTypes, RecordOk
<1> QED
  BY <1>1, <1>2, <1>3, <1>4

LEMMA DelegateReports ==
  ASSUME RunInv, kind = "delegate", pc \in Places \union {"model", "tools"}, ~vetoed,
         NEW place \in Places, Report(place), inbox' \in {inbox, <<>>},
         UNCHANGED <<aborted, asked, toMate, vetoed>>
  PROVE  DelegateInv'
<1>1. /\ DelegateInv /\ RunTypes /\ status = "active" /\ outcome = None /\ None \notin Outcomes
      /\ place \notin {"idle", "model", "stopping", "ended"}
  BY DelegatePlaces
<1>2. /\ pc' = place /\ AddEvents(<<"progress">>, ~cancel) /\ waits' = tasks'
      /\ UNCHANGED <<status, cancel, outcome, toLead>>
  BY DEF Report, Emit, record
<1>3. QueueOk(queue', tasks')
  BY <1>1, <1>2, AddEventsOk DEF Added, Types, RunTypes, RecordOk, FeedOk
<1>4. Reins(queue') \subseteq waits'
  BY <1>2, <1>3, ReinsInTasks
<1>5. outcome' # "completed"
  BY <1>1, <1>2 DEF Outcomes
<1> QED
  BY <1>1, <1>2, <1>4, <1>5 DEF DelegateInv

LEMMA DelegateEnds ==
  ASSUME RunInv, kind = "delegate", pc \in Places \union {"model", "tools"}, Reins(queue) = {},
         NEW own \in Outcomes, End(own), vetoed => own = "cancelled", own = "completed" => inbox = <<>>,
         UNCHANGED <<aborted, asked, toMate, vetoed>>
  PROVE  DelegateInv'
<1>1. DelegateInv /\ RunTypes /\ status = "active"
  BY DelegatePlaces
<1>2. /\ pc' = "stopping" /\ AddEvents(<<"stop">>, FALSE) /\ waits' = tasks'
      /\ status' = "done" /\ cancel' = FALSE /\ outcome' = own /\ UNCHANGED <<toLead, inbox>>
  BY <1>1 DEF End, FinishRun, Emit
<1>3. Added(FALSE)
  BY <1>2, AddEventsOk, <1>1 DEF Types, RunTypes, FeedOk
<1>4. Reins(queue') = {}
  BY <1>3 DEF Added
<1>5. ToSet(<<>>) = {}
  BY DEF ToSet
<1> QED
  BY <1>1, <1>2, <1>4, <1>5 DEF DelegateInv

LEMMA DelegateIterates ==
  ASSUME RunInv, kind = "delegate", pc \in Places, Reins(queue) = {}, ~vetoed, Iterate,
         UNCHANGED <<aborted, asked, toMate, vetoed>>
  PROVE  DelegateInv'
<1>1. CASE loops = MaxLoops
  BY <1>1, DelegateEnds DEF Iterate, Outcomes
<1>2. CASE loops # MaxLoops
  BY <1>2, DelegateReports DEF Iterate, Places, Gates
<1> QED
  BY <1>1, <1>2

LEMMA DelegateProceeds ==
  ASSUME RunInv, kind = "delegate", pc \in Places, Reins(queue) = {}, ~vetoed, Proceed,
         UNCHANGED <<aborted, asked, toMate, vetoed>>
  PROVE  DelegateInv'
<1>1. CASE Iterate
  BY <1>1, DelegateIterates
<1>2. CASE inbox = <<>> /\ End("completed")
  BY <1>2, DelegateEnds DEF Outcomes
<1>3. CASE End("failed")
  BY <1>3, DelegateEnds DEF Outcomes
<1>4. CASE Report("call") /\ UNCHANGED <<inbox, loops>>
  BY <1>4, DelegateReports DEF Places, Gates
<1>5. CASE /\ pc' \in {"model", "tools"} /\ UNCHANGED <<status, cancel, outcome, tasks, queue, stage, waits, toLead>>
           /\ (pc' = "model" /\ inbox' = <<>>) \/ (pc' = "tools" /\ inbox' = inbox)
  <2>1. /\ DelegateInv /\ status = "active" /\ outcome = None /\ None \notin Outcomes
    BY DelegatePlaces
  <2>2. ToSet(<<>>) = {}
    BY DEF ToSet
  <2> QED
    BY <1>5, <2>1, <2>2 DEF DelegateInv, Outcomes
<1> QED
  BY <1>1, <1>2, <1>3, <1>4, <1>5 DEF Proceed, record, feed

\* The gates and steps.
LEMMA DelegateWorks ==
  ASSUME RunInv, kind = "delegate",
         Start \/ PassGate \/ StepEnds \/ StopHandled \/ ParentAborts \/ GateTimesOut
  PROVE  DelegateInv'
<1>1. /\ DelegateInv /\ RunTypes
      /\ pc \in Places \union {"model", "tools"} => status = "active" /\ outcome = None
  BY DelegatePlaces
<1>2. CASE Start
  <2>1. /\ pc = "idle" /\ status' = "active" /\ pc' = "start" /\ AddEvents(<<"start">>, TRUE) /\ waits' = tasks'
        /\ UNCHANGED <<cancel, outcome, aborted, inbox, asked, toLead, toMate, vetoed>>
    BY <1>2 DEF Start, Emit
  <2>2. status = "none" /\ ~cancel /\ ~vetoed /\ outcome = None
    BY <1>1, <2>1 DEF DelegateInv, RunTypes, RecordOk, Places, Gates
  <2>3. QueueOk(queue', tasks')
    BY <1>1, <2>1, AddEventsOk DEF Added, Types, RunTypes, FeedOk
  <2>4. Reins(queue') \subseteq waits'
    BY <2>1, <2>3, ReinsInTasks
  <2>5. None # "completed" /\ "start" \in Places
    BY RunAssumption DEF Places, Gates
  <2> QED
    BY <1>1, <2>1, <2>2, <2>4, <2>5 DEF DelegateInv
<1>3. CASE PassGate
  <2>1. /\ pc \in Places /\ waits = {} /\ (IF aborted THEN End("cancelled") ELSE Proceed)
        /\ UNCHANGED <<aborted, asked, toMate, vetoed>>
    BY <1>3 DEF PassGate, Settled, Places
  <2>2. Reins(queue) = {}
    BY <1>1, <2>1 DEF DelegateInv
  <2>3. CASE aborted
    BY <2>1, <2>2, <2>3, DelegateEnds DEF Outcomes
  <2>4. CASE ~aborted
    <3>1. ~vetoed
      BY <1>1, <2>1, <2>4 DEF DelegateInv
    <3> QED
      BY <2>1, <2>2, <2>4, <3>1, DelegateProceeds
  <2> QED
    BY <2>3, <2>4
<1>4. CASE StepEnds
  <2>1. pc \in {"model", "tools"} /\ UNCHANGED <<aborted, asked, toMate, vetoed>>
    BY <1>4 DEF StepEnds
  <2>2. Reins(queue) = {} /\ ~vetoed
    BY <1>1, <2>1 DEF DelegateInv, Places, Gates
  <2>3. \/ (Report("after") \/ Report("result")) /\ UNCHANGED inbox
        \/ End("cancelled") \/ End("failed")
    BY <1>4 DEF StepEnds
  <2>4. CASE (Report("after") \/ Report("result")) /\ UNCHANGED inbox
    BY <2>1, <2>2, <2>4, DelegateReports DEF Places, Gates
  <2>5. CASE End("cancelled") \/ End("failed")
    BY <2>1, <2>2, <2>5, DelegateEnds DEF Outcomes
  <2> QED
    BY <2>3, <2>4, <2>5
<1>5. CASE StopHandled
  <2>1. /\ pc = "stopping" /\ pc' = "ended"
        /\ UNCHANGED <<status, cancel, outcome, queue, aborted, inbox, waits, asked, toLead, toMate, vetoed>>
    BY <1>5 DEF StopHandled, record, feed, gate
  <2>2. "stopping" \notin Places
    BY DEF Places
  <2> QED
    BY <1>1, <2>1, <2>2 DEF DelegateInv
<1>6. CASE ParentAborts
  <2>1. /\ aborted' = TRUE
        /\ UNCHANGED <<status, cancel, outcome, queue, pc, inbox, waits, asked, toLead, toMate, vetoed>>
    BY <1>6 DEF ParentAborts, record, feed, gate
  <2> QED
    BY <1>1, <2>1 DEF DelegateInv
<1>7. CASE GateTimesOut
  BY <1>7 DEF GateTimesOut, Waiting
<1> QED
  BY <1>2, <1>3, <1>4, <1>5, <1>6, <1>7

\* A call cancels the run, and with it the signal.
LEMMA DelegateCancelled ==
  ASSUME RunInv, kind = "delegate", Cancellable, NEW types, Cancel(types),
         UNCHANGED <<pc, inbox, waits, asked, toLead>>, vetoed' \in {vetoed, Reins(queue) # {}}
  PROVE  DelegateInv'
<1>1. DelegateInv /\ RunTypes /\ (pc \in Places => status = "active")
  BY DelegatePlaces
<1>2. /\ cancel' = TRUE /\ aborted' = TRUE /\ AddEvents(<<"cancel-requested">>, FALSE)
      /\ UNCHANGED <<status, outcome, toMate>>
  BY DEF Cancel
<1>3. Reins(queue') \subseteq Reins(queue)
  BY <1>1, <1>2, AddEventsOk DEF Added, Types, RunTypes, FeedOk
<1> QED
  BY <1>1, <1>2, <1>3 DEF DelegateInv

\* What the store, its senders and the handler of the hooks do.
LEMMA DelegateHears ==
  ASSUME RunInv, kind = "delegate",
         \/ RequestCancel \/ StopTask \/ UserSends
         \/ \E s \in Senders : Delivered(s) \/ SendTimesOut(s)
         \/ Handle \/ LeadReads \/ AuthorizeRunStart \/ MateReads
  PROVE  DelegateInv'
<1>1. /\ DelegateInv /\ RunTypes
      /\ pc \in Places \union {"model", "tools"} => status = "active" /\ outcome = None
      /\ None \notin Outcomes /\ \A place \in Places : place \notin {"idle", "model", "stopping", "ended"}
  BY DelegatePlaces
<1>2. CASE RequestCancel
  BY <1>2, DelegateCancelled DEF RequestCancel, gate
<1>3. CASE StopTask \/ LeadReads \/ AuthorizeRunStart \/ MateReads
  BY <1>1, <1>3 DEF StopTask, LeadReads, AuthorizeRunStart, MateReads, OnProgress, OnRunReady, OnRunMessageResult, OnEnd,
     OnAllowed, OnDenied, OnCancel, OnRunMessage, Line, DelegateInv
<1>4. ASSUME NEW s \in Senders, Send(s),
             UNCHANGED <<status, cancel, outcome, queue, pc, aborted, waits, asked, toLead, vetoed>>,
             s = "hook" => Reins(queue) # {}
      PROVE  DelegateInv'
  <2>1. (inbox' = inbox \/ inbox' = Append(inbox, s)) /\ toMate' = toMate
    BY <1>4 DEF Send
  <2>2. inbox' = Append(inbox, s) => ToSet(inbox') = ToSet(inbox) \union {s}
    BY AppendFacts, <1>1 DEF RunTypes, WorkerOk
  <2>3. s = "hook" => pc \in Places /\ outcome # "completed"
    BY <1>1, <1>4 DEF DelegateInv, Outcomes
  <2>4. "hook" \in ToSet(inbox') => pc' # "model" /\ outcome' # "completed"
    BY <1>1, <1>4, <2>1, <2>2, <2>3 DEF DelegateInv
  <2> QED
    BY <1>1, <1>4, <2>1, <2>4 DEF DelegateInv
<1>5. CASE UserSends
  BY <1>4, <1>5 DEF UserSends, record, feed, gate, Senders
<1>6. ASSUME NEW s \in Senders, Delivered(s)
      PROVE  DelegateInv'
  <2>1. /\ AddEvents(<<"message">>, FALSE)
        /\ UNCHANGED <<status, cancel, outcome, pc, aborted, inbox, waits, asked, toLead, toMate, vetoed>>
    BY <1>6 DEF Delivered, Emit, record, worker, gate
  <2>2. Reins(queue') \subseteq Reins(queue)
    BY <1>1, <2>1, AddEventsOk DEF Added, Types, RunTypes, FeedOk
  <2> QED
    BY <1>1, <2>1, <2>2 DEF DelegateInv
<1>7. ASSUME NEW s \in Senders, SendTimesOut(s)
      PROVE  DelegateInv'
  BY <1>1, <1>7 DEF SendTimesOut, record, feed, worker, gate, DelegateInv
<1>8. queue # <<>> /\ Head(queue).event.control => Reins(queue) # {}
  BY <1>1, ShiftOk DEF RunTypes, FeedOk
<1>9. CASE HooksStop
  <2>1. /\ Reins(queue) # {} /\ pc \in Places /\ status = "active"
        /\ vetoed' = (vetoed \/ status = "active") /\ UNCHANGED <<pc, inbox, waits, asked, toLead>>
    BY <1>1, <1>8, <1>9 DEF HooksStop, gate, DelegateInv
  <2>2. vetoed' = (Reins(queue) # {})
    BY <2>1
  <2>3. CASE Cancellable
    <3>1. Cancel(<<"cancel-requested", "progress">>)
      BY <1>9, <2>3 DEF HooksStop
    <3> QED
      BY <2>1, <2>2, <2>3, <3>1, DelegateCancelled
  <2>4. CASE ~Cancellable
    <3>1. UNCHANGED <<status, cancel, outcome, queue, aborted, toMate>>
      BY <1>9, <2>4 DEF HooksStop, record
    <3> QED
      BY <1>1, <2>1, <2>4, <3>1 DEF DelegateInv, Cancellable
  <2> QED
    BY <2>3, <2>4
<1>10. CASE HooksInform
  BY <1>4, <1>8, <1>10 DEF HooksInform, record, gate, Senders
<1>11. CASE Shift
  <2> DEFINE gone == Ids(Head(queue).served)
  <2>1. /\ queue # <<>> /\ queue' = Tail(queue) /\ waits' = waits \ gone
        /\ UNCHANGED <<status, cancel, outcome, pc, aborted, inbox, asked, toLead, toMate, vetoed>>
    BY <1>11 DEF Shift, record, worker
  <2>2. Reins(queue') \subseteq Reins(queue) \ gone
    BY <1>1, <2>1, ShiftOk DEF RunTypes, FeedOk
  <2> HIDE DEF gone
  <2> QED
    BY <1>1, <2>1, <2>2 DEF DelegateInv
<1> QED
  BY <1>2, <1>3, <1>5, <1>6, <1>7, <1>9, <1>10, <1>11 DEF Handle

-----------------------------------------------------------------------------
(* A team worker *)

LEMMA TeamPlaces ==
  ASSUME RunInv, kind = "team"
  PROVE  /\ TeamInv /\ RunTypes /\ toLead \in Seq(LeadLine) /\ toMate \in Seq(MateLine)
         /\ pc \notin {"idle", "ended"} => status = "active" /\ outcome = None
         /\ None \notin Outcomes
         /\ \A place \in Places : place \notin {"idle", "model", "tools", "stopping", "ended"}
<1>1. TeamInv /\ RunTypes
  BY DEF RunInv
<1>2. None \notin Outcomes
  BY RunAssumption DEF Outcomes
<1>3. \A place \in Places : place \notin {"idle", "model", "tools", "stopping", "ended"}
  BY DEF Places, Gates
<1>4. pc \notin {"idle", "ended"} => status = "active" /\ outcome = None
  BY <1>1, <1>2 DEF TeamInv, RunTypes, RecordOk
<1> QED
  BY <1>1, <1>2, <1>3, <1>4 DEF RunTypes, LinesOk

\* No question is open and nothing that waits can stop the worker.
AtRest ==
  /\ ~Asking /\ ~asked /\ Reins(queue) = {} /\ ~vetoed
  /\ pc \in Places \union {"model", "tools"}
  /\ ToSet(toMate') \cap {Allowed, Denied} = {}
  /\ \A l \in ToSet(toMate') : ~HookLine(l)
  /\ UNCHANGED <<asked, vetoed>>

LEMMA BeforeInside ==
  ASSUME NEW s, NEW x, NEW y, Before(s, x, y)
  PROVE  x \in ToSet(s) /\ y \in ToSet(s)
BY DEF Before, ToSet

\* The worker reports and asks.
LEMMA TeamReports ==
  ASSUME RunInv, kind = "team", AtRest, NEW place \in Places, Report(place), inbox' \in {inbox, <<>>}
  PROVE  TeamInv'
<1>1. /\ TeamInv /\ RunTypes /\ toLead \in Seq(LeadLine) /\ status = "active" /\ outcome = None /\ None \notin Outcomes
      /\ place \notin {"idle", "model", "tools", "stopping", "ended"} /\ pc \notin {"idle", "ended"}
  BY TeamPlaces DEF AtRest
<1>2. /\ pc' = place /\ toLead' = toLead \o <<Progress, Ready>>
      /\ UNCHANGED <<status, cancel, outcome, tasks, queue, waits>>
  BY DEF Report, record, feed, Progress, Ready
<1>3. /\ ToSet(toLead') = ToSet(toLead) \union {Progress, Ready}
      /\ \A x, y : Before(toLead', x, y) =>
           Before(toLead, x, y) \/ (x = Progress /\ y = Ready) \/ (x \in ToSet(toLead) /\ y \in {Progress, Ready})
  <2>1. Progress \in LeadLine /\ Ready \in LeadLine
    BY LinesApart
  <2>2. /\ <<Progress, Ready>> \in Seq(LeadLine) /\ ToSet(<<Progress, Ready>>) = {Progress, Ready}
        /\ \A x, y : Before(<<Progress, Ready>>, x, y) => x = Progress /\ y = Ready
    BY <2>1, ShortFacts
  <2> DEFINE two == <<Progress, Ready>>
  <2> HIDE DEF two
  <2>3. /\ ToSet(toLead \o two) = ToSet(toLead) \union ToSet(two)
        /\ \A x, y : Before(toLead \o two, x, y) =>
             Before(toLead, x, y) \/ Before(two, x, y) \/ (x \in ToSet(toLead) /\ y \in ToSet(two))
    BY <1>1, <2>2, ConcatFacts DEF two
  <2>4. toLead' = toLead \o two
    BY <1>2 DEF two
  <2> QED
    BY <2>2, <2>3, <2>4 DEF two
<1>4. Ready # Progress /\ Ready.kind # "end" /\ Progress.kind # "end" /\ Completed.kind = "end"
  BY DEF Ready, Progress, Completed
<1>5. Ready \notin ToSet(toLead)
  BY DEF AtRest, Asking
<1>6. OneQuestion'
  <2>1. Asking' /\ ~asked' /\ ~Answered'
    BY <1>3 DEF AtRest, Asking, Answered
  <2>2. ~Before(toLead', Ready, Ready) /\ ~Before(toLead', Ready, Progress)
    BY <1>3, <1>4, <1>5, BeforeInside
  <2>3. \A x, y \in {Allowed, Denied} : ~Before(toMate', x, y)
    BY BeforeInside DEF AtRest
  <2> QED
    BY <1>2, <2>1, <2>2, <2>3 DEF OneQuestion
<1>7. HeldBack' /\ HooksFirst' /\ Obeyed'
  BY <1>2 DEF AtRest, HeldBack, HooksFirst, Obeyed
<1>8. ~(status' = "done" \/ \E l \in ToSet(toLead') : l.kind = "end")
  BY <1>1, <1>2, <1>3, <1>4 DEF TeamInv
<1>9. outcome' # "completed" /\ Completed \notin ToSet(toLead')
  BY <1>1, <1>2, <1>3, <1>4 DEF TeamInv, Outcomes
<1> QED
  BY <1>1, <1>2, <1>6, <1>7, <1>8, <1>9 DEF TeamInv

\* The worker ends, whatever is on its way.
LEMMA TeamEnds ==
  ASSUME RunInv, kind = "team", pc \notin {"idle", "ended"}, NEW own \in Outcomes, End(own),
         own = "completed" => inbox = <<>>,
         \/ toMate' = toMate
         \/ toMate # <<>> /\ toMate' = Tail(toMate),
         UNCHANGED <<asked, vetoed>>
  PROVE  TeamInv'
<1> DEFINE l == [kind |-> "end", own |-> own]
<1>1. TeamInv /\ toLead \in Seq(LeadLine) /\ toMate \in Seq(MateLine) /\ status = "active" /\ outcome = None
  BY TeamPlaces
<1>2. /\ pc' = "ended" /\ toLead' = Append(toLead, l) /\ UNCHANGED <<status, cancel, outcome, queue, waits, inbox>>
  BY DEF End, record, feed
<1>3. l \in LeadLine /\ l # Ready /\ l # Progress /\ (l = Completed => own = "completed")
  BY LinesApart DEF Ready, Progress, Completed
<1> HIDE DEF l
<1>4. /\ ToSet(toLead') = ToSet(toLead) \union {l}
      /\ \A x, y : Before(toLead', x, y) <=> Before(toLead, x, y) \/ (x \in ToSet(toLead) /\ y = l)
  BY <1>1, <1>2, <1>3, AppendFacts
<1>5. /\ ToSet(toMate') \subseteq ToSet(toMate)
      /\ \A x, y : Before(toMate', x, y) => Before(toMate, x, y)
  BY <1>1, TailFacts
<1>6. OneQuestion'
  BY <1>1, <1>2, <1>3, <1>4, <1>5 DEF TeamInv, OneQuestion, Asking, Answered
<1>7. HeldBack' /\ HooksFirst' /\ Obeyed'
  BY <1>1, <1>2 DEF TeamInv, HeldBack, HooksFirst, Obeyed
<1>8. "hook" \in ToSet(inbox') => outcome' # "completed" /\ Completed \notin ToSet(toLead')
  <2>1. ToSet(<<>>) = {}
    BY DEF ToSet
  <2> QED
    BY <1>1, <1>2, <1>3, <1>4, <2>1 DEF TeamInv
<1> QED
  BY <1>1, <1>2, <1>6, <1>7, <1>8 DEF TeamInv

LEMMA TeamProceeds ==
  ASSUME RunInv, kind = "team", AtRest, pc \in Places, Proceed,
         toMate # <<>> /\ toMate' = Tail(toMate)
  PROVE  TeamInv'
<1>1. /\ TeamInv /\ RunTypes /\ toLead \in Seq(LeadLine) /\ status = "active" /\ outcome = None /\ None \notin Outcomes
      /\ pc \notin {"idle", "ended"}
  BY TeamPlaces
<1>2. UNCHANGED <<asked, vetoed>>
  BY DEF AtRest
<1>3. CASE Iterate
  <2>1. CASE loops = MaxLoops
    BY <1>1, <1>2, <1>3, <2>1, TeamEnds DEF Iterate, Outcomes
  <2>2. CASE loops # MaxLoops
    BY <1>3, <2>2, TeamReports DEF Iterate, Places, Gates
  <2> QED
    BY <2>1, <2>2
<1>4. CASE (inbox = <<>> /\ End("completed")) \/ End("failed")
  BY <1>1, <1>2, <1>4, TeamEnds DEF Outcomes
<1>5. CASE Report("call") /\ UNCHANGED <<inbox, loops>>
  BY <1>5, TeamReports DEF Places, Gates
<1>6. CASE /\ pc' \in {"model", "tools"} /\ UNCHANGED <<status, cancel, outcome, tasks, queue, stage, waits, toLead>>
           /\ (pc' = "model" /\ inbox' = <<>>) \/ (pc' = "tools" /\ inbox' = inbox)
  <2>1. ToSet(<<>>) = {}
    BY DEF ToSet
  <2>2. OneQuestion'
    <3>1. ~Asking' /\ ~asked' /\ ~Answered' /\ Progress \notin ToSet(toLead')
      BY <1>1, <1>6 DEF AtRest, Asking, Answered, TeamInv, OneQuestion
    <3>2. ~Before(toLead', Ready, Ready)
      BY <1>1, <1>6 DEF TeamInv, OneQuestion
    <3>3. \A x, y \in {Allowed, Denied} : ~Before(toMate', x, y)
      BY BeforeInside DEF AtRest
    <3> QED
      BY <3>1, <3>2, <3>3 DEF OneQuestion
  <2>3. HeldBack' /\ HooksFirst' /\ Obeyed'
    BY <1>6 DEF AtRest, HeldBack, HooksFirst, Obeyed
  <2>4. \A l \in ToSet(toLead) : l.kind # "end"
    BY <1>1 DEF TeamInv
  <2>5. Completed \notin ToSet(toLead)
    BY <2>4 DEF Completed
  <2> QED
    BY <1>1, <1>6, <2>1, <2>2, <2>3, <2>4, <2>5 DEF TeamInv, Outcomes
<1> QED
  BY <1>3, <1>4, <1>5, <1>6 DEF Proceed, record, feed

\* The gates and steps.
LEMMA TeamWorks ==
  ASSUME RunInv, kind = "team",
         Start \/ PassGate \/ StepEnds \/ StopHandled \/ ParentAborts \/ GateTimesOut
  PROVE  TeamInv'
<1>1. /\ TeamInv /\ RunTypes /\ toLead \in Seq(LeadLine) /\ toMate \in Seq(MateLine)
      /\ None \notin Outcomes
      /\ \A place \in Places : place \notin {"idle", "model", "tools", "stopping", "ended"}
  BY TeamPlaces
<1>2. CASE Start
  <2>1. /\ pc = "idle" /\ status' = "active" /\ pc' = "start" /\ toLead' = <<Ready>>
        /\ UNCHANGED <<cancel, outcome, aborted, inbox, waits, asked, toMate, vetoed>>
    BY <1>2 DEF Start, Ready
  <2>2. status = "none" /\ outcome = None /\ "start" \in Places /\ "idle" \notin Places
    BY <1>1, <2>1 DEF TeamInv, RunTypes, RecordOk, Places, Gates
  <2>3. ~vetoed /\ ~asked /\ ~Answered /\ \A l \in ToSet(toMate) : ~HookLine(l)
    BY <1>1, <2>1, <2>2 DEF TeamInv, OneQuestion, HooksFirst, Obeyed
  <2>4. ToSet(<<Ready>>) = {Ready} /\ \A x, y : ~Before(<<Ready>>, x, y)
    BY ShortFacts
  <2>5. Asking' /\ ~asked' /\ ~Answered'
    BY <2>1, <2>3, <2>4 DEF Asking, Answered
  <2>6. OneQuestion'
    BY <1>1, <2>1, <2>2, <2>4, <2>5 DEF TeamInv, OneQuestion
  <2>7. HeldBack' /\ HooksFirst' /\ Obeyed'
    BY <2>1, <2>2, <2>3, <2>5 DEF HeldBack, HooksFirst, Obeyed
  <2>8. \A l \in ToSet(toLead') : l.kind # "end" /\ l # Completed
    BY <2>1, <2>4 DEF Ready, Completed
  <2> QED
    BY <1>1, <2>1, <2>2, <2>6, <2>7, <2>8 DEF TeamInv, Outcomes
<1>3. CASE PassGate
  BY <1>3 DEF PassGate
<1>4. CASE StepEnds
  <2>1. pc \in {"model", "tools"} /\ UNCHANGED <<asked, toMate, vetoed>>
    BY <1>4 DEF StepEnds
  <2>2. AtRest
    BY <1>1, <2>1 DEF TeamInv, OneQuestion, HeldBack, HooksFirst, Obeyed, AtRest, Answered
  <2>3. \/ (Report("after") \/ Report("result")) /\ UNCHANGED inbox
        \/ End("cancelled") \/ End("failed")
    BY <1>4 DEF StepEnds
  <2>4. CASE (Report("after") \/ Report("result")) /\ UNCHANGED inbox
    BY <2>2, <2>4, TeamReports DEF Places, Gates
  <2>5. CASE End("cancelled") \/ End("failed")
    BY <2>1, <2>5, TeamEnds DEF Outcomes
  <2> QED
    BY <2>3, <2>4, <2>5
<1>5. CASE StopHandled
  BY <1>1, <1>5 DEF StopHandled, TeamInv
<1>6. CASE ParentAborts
  BY <1>6 DEF ParentAborts
<1>7. CASE GateTimesOut
  <2>1. pc \notin {"idle", "ended"} /\ End("failed") /\ UNCHANGED <<asked, toMate, vetoed>>
    BY <1>7 DEF GateTimesOut, Waiting, Gates
  <2> QED
    BY <2>1, TeamEnds DEF Outcomes
<1> QED
  BY <1>2, <1>3, <1>4, <1>5, <1>6, <1>7

\* The answer cannot be yes while an event may control the run, nor can there be two.
LEMMA NoConsent ==
  ASSUME RunInv, kind = "team", pc # "ended", Reins(queue) # {}
  PROVE  pc \in Places /\ Allowed \notin ToSet(toMate)
<1>1. TeamInv /\ pc \in Places /\ (Asking \/ Denied \in ToSet(toMate) \/ asked)
  BY TeamPlaces DEF TeamInv, HeldBack
<1>2. ASSUME Denied \in ToSet(toMate), Allowed \in ToSet(toMate)
      PROVE  FALSE
  <2>1. PICK i, j \in DOMAIN toMate : toMate[i] = Denied /\ toMate[j] = Allowed
    BY <1>2 DEF ToSet
  <2>2. i \in Nat /\ j \in Nat /\ i # j
    BY <2>1, TeamPlaces, LenProperties DEF Denied, Allowed
  <2>3. Before(toMate, Denied, Allowed) \/ Before(toMate, Allowed, Denied)
    BY <2>1, <2>2 DEF Before
  <2> QED
    BY <1>1, <2>3 DEF TeamInv, OneQuestion
<1> QED
  BY <1>1, <1>2 DEF TeamInv, OneQuestion, Answered

\* Lines that are neither answers nor from hooks.
LEMMA LineSent ==
  ASSUME RunInv, kind = "team", NEW l \in MateLine, l \notin {Allowed, Denied},
         HookLine(l) => Reins(queue) # {},
         toMate' = Append(toMate, l),
         UNCHANGED <<status, outcome, pc, inbox, waits, asked, toLead>>,
         cancel' \in {cancel, TRUE}, Reins(queue') \subseteq Reins(queue),
         \/ vetoed' = vetoed
         \/ cancel' = TRUE /\ (status = "active" => Reins(queue) # {}) /\ vetoed' = (vetoed \/ status = "active")
  PROVE  TeamInv'
<1>1. TeamInv /\ toMate \in Seq(MateLine)
  BY TeamPlaces
<1>2. /\ ToSet(toMate') = ToSet(toMate) \union {l}
      /\ \A x, y : Before(toMate', x, y) <=> Before(toMate, x, y) \/ (x \in ToSet(toMate) /\ y = l)
  BY <1>1, AppendFacts
<1>3. pc # "ended" /\ Reins(queue) # {} => pc \in Places /\ Allowed \notin ToSet(toMate)
  BY NoConsent
<1>4. OneQuestion'
  <2>1. Asking' = Asking /\ Answered' = Answered
    BY <1>2 DEF Asking, Answered
  <2>2. \A x, y \in {Allowed, Denied} : ~Before(toMate', x, y)
    BY <1>1, <1>2 DEF TeamInv, OneQuestion
  <2> QED
    BY <1>1, <2>1, <2>2 DEF TeamInv, OneQuestion
<1>5. HeldBack'
  BY <1>1, <1>2 DEF TeamInv, HeldBack, Asking
<1>6. HooksFirst'
  <2> SUFFICES ASSUME pc # "ended", NEW h \in ToSet(toMate'), HookLine(h)
               PROVE  pc \in Places /\ ~Before(toMate', Allowed, h)
    BY DEF HooksFirst
  <2>1. Before(toMate', Allowed, h) => Before(toMate, Allowed, h) \/ (Allowed \in ToSet(toMate) /\ h = l)
    BY <1>2
  <2>2. CASE h \in ToSet(toMate) /\ h # l
    BY <1>1, <2>1, <2>2 DEF TeamInv, HooksFirst
  <2>3. CASE h = l
    <3>1. pc \in Places /\ Allowed \notin ToSet(toMate)
      BY <1>3, <2>3
    <3>2. ~Before(toMate, Allowed, h)
      BY <3>1, BeforeInside
    <3> QED
      BY <2>1, <3>1, <3>2
  <2> QED
    BY <1>2, <2>2, <2>3
<1>7. Obeyed'
  <2>1. Allowed \in ToSet(toMate') <=> Allowed \in ToSet(toMate)
    BY <1>2
  <2>2. CASE vetoed' = vetoed
    <3>1. cancel => cancel'
      OBVIOUS
    <3> QED
      BY <1>1, <2>1, <2>2, <3>1 DEF TeamInv, Obeyed
  <2>3. CASE vetoed' # vetoed
    <3>1. cancel' = TRUE /\ status = "active" /\ Reins(queue) # {}
      <4>1. vetoed \in BOOLEAN
        BY DEF RunInv, RunTypes, WorkerOk
      <4>2. CASE vetoed = TRUE
        BY <2>3, <4>2
      <4>3. CASE vetoed = FALSE
        BY <2>3, <4>3
      <4> QED
        BY <4>1, <4>2, <4>3
    <3>2. pc \in Places \union {"ended"}
      BY <1>1, <3>1 DEF TeamInv, HeldBack
    <3> QED
      BY <1>3, <2>1, <3>1, <3>2 DEF Obeyed
  <2> QED
    BY <2>2, <2>3
<1> QED
  BY <1>1, <1>4, <1>5, <1>6, <1>7 DEF TeamInv

\* Only events are added, that may not control the run, or none change.
LEMMA OthersFed ==
  ASSUME RunInv, kind = "team", Reins(queue') \subseteq Reins(queue),
         UNCHANGED <<status, cancel, outcome, pc, inbox, waits, asked, toLead, toMate, vetoed>>
  PROVE  TeamInv'
<1>1. TeamInv
  BY TeamPlaces
<1>2. OneQuestion' /\ HooksFirst' /\ Obeyed'
  BY <1>1 DEF TeamInv, OneQuestion, HooksFirst, Obeyed, Asking, Answered
<1>3. HeldBack'
  BY <1>1 DEF TeamInv, HeldBack, Asking
<1> QED
  BY <1>1, <1>2, <1>3 DEF TeamInv

\* The store's calls and the handler of the hooks.
LEMMA TeamHears ==
  ASSUME RunInv, kind = "team",
         \/ RequestCancel \/ StopTask \/ UserSends
         \/ \E s \in Senders : Delivered(s) \/ SendTimesOut(s)
         \/ Handle
  PROVE  TeamInv'
<1>1. /\ TeamInv /\ RunTypes /\ toMate \in Seq(MateLine)
  BY TeamPlaces
<1>2. queue # <<>> /\ Head(queue).event.control => Reins(queue) # {}
  BY <1>1, ShiftOk DEF RunTypes, FeedOk
<1>3. ASSUME NEW types \in {<<"cancel-requested">>, <<"cancel-requested", "progress">>}, Cancel(types), Cancellable,
             UNCHANGED <<pc, inbox, waits, asked, toLead>>,
             vetoed' = vetoed \/ (Reins(queue) # {} /\ vetoed' = (vetoed \/ status = "active"))
      PROVE  TeamInv'
  <2> DEFINE l == [kind |-> "cancel"]
  <2>1. /\ cancel' = TRUE /\ toMate' = Append(toMate, l) /\ AddEvents(types, FALSE) /\ UNCHANGED <<status, outcome>>
    BY <1>3 DEF Cancel
  <2>2. Reins(queue') \subseteq Reins(queue)
    BY <1>1, <1>3, <2>1, AddEventsOk DEF Added, Types, RunTypes, FeedOk
  <2>3. l \in MateLine /\ l \notin {Allowed, Denied} /\ ~HookLine(l)
    BY LinesApart DEF Allowed, Denied, HookLine
  <2> HIDE DEF l
  <2> QED
    BY <1>3, <2>1, <2>2, <2>3, LineSent
<1>4. CASE RequestCancel \/ StopTask
  BY <1>3, <1>4 DEF RequestCancel, StopTask, gate
<1>5. ASSUME NEW s \in Senders, Send(s),
             UNCHANGED <<status, cancel, outcome, queue, pc, waits, asked, toLead, vetoed>>,
             s = "hook" => Reins(queue) # {}
      PROVE  TeamInv'
  <2> DEFINE l == [kind |-> "message", from |-> s, id |-> FreshRequest(s)]
  <2>1. toMate' = Append(toMate, l) /\ inbox' = inbox
    BY <1>5 DEF Send
  <2>2. l \in MateLine /\ l \notin {Allowed, Denied} /\ (HookLine(l) => s = "hook")
    BY FreshRequestFacts, <1>1 DEF MateLine, Allowed, Denied, HookLine
  <2> HIDE DEF l
  <2> QED
    BY <1>5, <2>1, <2>2, LineSent
<1>6. CASE UserSends
  BY <1>5, <1>6 DEF UserSends, record, feed, gate, Senders
<1>7. ASSUME NEW s \in Senders, Delivered(s)
      PROVE  TeamInv'
  <2>1. /\ AddEvents(<<"message">>, FALSE)
        /\ UNCHANGED <<status, cancel, outcome, pc, inbox, waits, asked, toLead, toMate, vetoed>>
    BY <1>7 DEF Delivered, Emit, record, worker, gate
  <2>2. Reins(queue') \subseteq Reins(queue)
    BY <1>1, <2>1, AddEventsOk DEF Added, Types, RunTypes, FeedOk
  <2> QED
    BY <2>1, <2>2, OthersFed
<1>8. ASSUME NEW s \in Senders, SendTimesOut(s)
      PROVE  TeamInv'
  BY <1>8, OthersFed DEF SendTimesOut, record, feed, worker, gate
<1>9. CASE HooksStop
  <2>1. /\ Reins(queue) # {} /\ vetoed' = (vetoed \/ status = "active") /\ UNCHANGED <<pc, inbox, waits, asked, toLead>>
    BY <1>2, <1>9 DEF HooksStop, gate
  <2>2. CASE Cancellable
    BY <1>3, <1>9, <2>1, <2>2 DEF HooksStop
  <2>3. CASE ~Cancellable
    <3>1. UNCHANGED <<status, cancel, outcome, queue, toMate>>
      BY <1>9, <2>3 DEF HooksStop, record
    <3>2. OneQuestion' /\ HeldBack' /\ HooksFirst'
      BY <1>1, <2>1, <3>1 DEF TeamInv, OneQuestion, HeldBack, HooksFirst, Asking, Answered
    <3>3. status = "active" => cancel /\ pc \in Places \union {"ended"} /\ (pc # "ended" => Allowed \notin ToSet(toMate))
      BY <1>1, <2>1, <2>3, NoConsent DEF Cancellable, TeamInv, HeldBack
    <3>4. Obeyed'
      BY <1>1, <2>1, <3>1, <3>3 DEF TeamInv, Obeyed
    <3> QED
      BY <1>1, <2>1, <3>1, <3>2, <3>4 DEF TeamInv
  <2> QED
    BY <2>2, <2>3
<1>10. CASE HooksInform
  BY <1>2, <1>5, <1>10 DEF HooksInform, record, gate, Senders
<1>11. CASE Shift
  <2> DEFINE gone == Ids(Head(queue).served)
  <2>1. /\ queue # <<>> /\ queue' = Tail(queue) /\ waits' = waits \ gone
        /\ UNCHANGED <<status, cancel, outcome, pc, inbox, asked, toLead, toMate, vetoed>>
    BY <1>11 DEF Shift, record, worker
  <2>2. Reins(queue') \subseteq Reins(queue) \ gone
    BY <1>1, <2>1, ShiftOk DEF RunTypes, FeedOk
  <2> HIDE DEF gone
  <2>3. HeldBack'
    BY <1>1, <2>1, <2>2 DEF TeamInv, HeldBack, Asking
  <2>4. OneQuestion' /\ HooksFirst' /\ Obeyed'
    BY <1>1, <2>1 DEF TeamInv, OneQuestion, HooksFirst, Obeyed, Asking, Answered
  <2> QED
    BY <1>1, <2>1, <2>3, <2>4 DEF TeamInv
<1> QED
  BY <1>4, <1>6, <1>7, <1>8, <1>9, <1>10, <1>11 DEF Handle

\* The lead reads a line that is no question, and does not answer.
LEMMA LeadTakesOther ==
  ASSUME RunInv, kind = "team", toLead # <<>>, Head(toLead) # Ready, toLead' = Tail(toLead),
         UNCHANGED <<pc, inbox, waits, asked, toMate, vetoed>>
  PROVE  /\ OneQuestion' /\ HooksFirst' /\ Asking' = Asking
         /\ ToSet(toLead') \subseteq ToSet(toLead)
<1>1. TeamInv /\ toLead \in Seq(LeadLine)
  BY TeamPlaces
<1>2. /\ ToSet(toLead) = {Head(toLead)} \union ToSet(toLead')
      /\ \A x, y : Before(toLead', x, y) => Before(toLead, x, y)
  BY <1>1, TailFacts
<1>3. Asking' = Asking
  BY <1>2 DEF Asking
<1>4. OneQuestion' /\ HooksFirst'
  BY <1>1, <1>2, <1>3 DEF TeamInv, OneQuestion, HooksFirst, Answered
<1> QED
  BY <1>2, <1>3, <1>4

\* The answer is given: no question was on its way.
LEMMA TeamAnswers ==
  ASSUME RunInv, kind = "team", NEW allowed \in BOOLEAN, Answer(allowed),
         ~Answered, ~Asking', ~asked', pc \in Places \union {"ended"},
         allowed => Reins(queue) = {} /\ ~cancel,
         UNCHANGED <<status, cancel, outcome, queue, pc, inbox, vetoed>>,
         \A x, y : Before(toLead', x, y) => Before(toLead, x, y), ToSet(toLead') \subseteq ToSet(toLead),
         Progress \notin ToSet(toLead')
  PROVE  TeamInv'
<1> DEFINE l == [kind |-> IF allowed THEN "allowed" ELSE "denied"]
<1>1. TeamInv /\ toMate \in Seq(MateLine) /\ \A place \in Places : place # "ended"
  BY TeamPlaces
<1>2. toMate' = Append(toMate, l)
  BY DEF Answer
<1>3. /\ l \in MateLine /\ l = (IF allowed THEN Allowed ELSE Denied) /\ ~HookLine(l) /\ Allowed # Denied
  BY DEF MateLine, Allowed, Denied, HookLine
<1> HIDE DEF l
<1>4. /\ ToSet(toMate') = ToSet(toMate) \union {l}
      /\ \A x, y : Before(toMate', x, y) <=> Before(toMate, x, y) \/ (x \in ToSet(toMate) /\ y = l)
  BY <1>1, <1>2, <1>3, AppendFacts
<1>5. OneQuestion'
  <2>1. \A x, y \in {Allowed, Denied} : ~Before(toMate', x, y)
    BY <1>1, <1>4 DEF Answered, TeamInv, OneQuestion
  <2>2. ~Before(toLead', Ready, Ready)
    BY <1>1 DEF TeamInv, OneQuestion
  <2> QED
    BY <2>1, <2>2 DEF OneQuestion
<1>6. HeldBack'
  <2>1. Reins(queue) # {} => Denied \in ToSet(toMate')
    BY <1>3, <1>4
  <2> QED
    BY <1>1, <2>1 DEF TeamInv, HeldBack
<1>7. HooksFirst'
  <2>1. \A h \in ToSet(toMate') : HookLine(h) => h \in ToSet(toMate) /\ h # l
    BY <1>3, <1>4
  <2> QED
    BY <1>1, <1>4, <2>1 DEF TeamInv, HooksFirst
<1>8. Obeyed'
  <2>1. cancel => (Allowed \in ToSet(toMate') <=> Allowed \in ToSet(toMate))
    BY <1>3, <1>4
  <2> QED
    BY <1>1, <2>1 DEF TeamInv, Obeyed
<1> QED
  BY <1>1, <1>5, <1>6, <1>7, <1>8 DEF TeamInv

LEMMA TeamLead ==
  ASSUME RunInv, kind = "team", LeadReads \/ AuthorizeRunStart
  PROVE  TeamInv'
<1>1. /\ TeamInv /\ RunTypes /\ toLead \in Seq(LeadLine) /\ toMate \in Seq(MateLine)
      /\ pc \notin {"idle", "ended"} => status = "active" /\ outcome = None
      /\ None \notin Outcomes
      /\ \A place \in Places : place \notin {"idle", "model", "tools", "stopping", "ended"}
  BY TeamPlaces
<1>2. CASE AuthorizeRunStart
  <2>1. /\ asked /\ waits = {} /\ asked' = FALSE /\ Answer(Cancellable)
        /\ UNCHANGED <<status, cancel, outcome, queue, pc, inbox, waits, toLead, vetoed>>
    BY <1>2 DEF AuthorizeRunStart, Settled, record, feed, worker
  <2>2. ~Answered /\ ~Asking /\ pc \in Places \union {"ended"} /\ Progress \notin ToSet(toLead)
    BY <1>1, <2>1 DEF TeamInv, OneQuestion
  <2>3. pc # "ended" => Reins(queue) = {}
    <3>1. Denied \notin ToSet(toMate)
      BY <2>2 DEF Answered
    <3> QED
      BY <1>1, <2>1, <2>2, <3>1 DEF TeamInv, HeldBack
  <2>4. Cancellable \in BOOLEAN /\ (Cancellable => ~cancel)
    BY DEF Cancellable
  <2>5. ~Asking'
    BY <2>1, <2>2 DEF Asking
  <2>6. CASE pc # "ended"
    BY <2>1, <2>2, <2>3, <2>4, <2>5, <2>6, TeamAnswers
  \* The worker has ended: no answer matters to it.
  <2>7. CASE pc = "ended"
    <3> DEFINE l == [kind |-> IF Cancellable THEN "allowed" ELSE "denied"]
    <3>1. toMate' = Append(toMate, l) /\ l \in MateLine
      BY <2>1 DEF Answer, MateLine
    <3> HIDE DEF l
    <3>2. \A x, y : Before(toMate', x, y) <=> Before(toMate, x, y) \/ (x \in ToSet(toMate) /\ y = l)
      BY <1>1, <3>1, AppendFacts
    <3>3. \A x, y \in {Allowed, Denied} : ~Before(toMate', x, y)
      BY <1>1, <2>2, <3>2 DEF TeamInv, OneQuestion, Answered
    <3>4. OneQuestion'
      BY <1>1, <2>1, <2>2, <2>5, <2>7, <3>3 DEF TeamInv, OneQuestion
    <3>5. HeldBack' /\ HooksFirst' /\ Obeyed'
      BY <1>1, <2>1, <2>7 DEF TeamInv, HeldBack, HooksFirst, Obeyed
    <3> QED
      BY <1>1, <2>1, <2>7, <3>4, <3>5 DEF TeamInv
  <2> QED
    BY <2>6, <2>7
<1>3. ASSUME LeadReads
      PROVE  toLead # <<>> /\ toLead' = Tail(toLead) /\ UNCHANGED <<pc, inbox, vetoed>>
  BY <1>3 DEF LeadReads, OnProgress, OnRunReady, OnRunMessageResult, OnEnd, Line, LeadTakes, worker
<1>4. CASE OnProgress
  <2>1. /\ Head(toLead).kind = "progress" /\ UNCHANGED <<status, cancel, outcome, waits, asked, toMate>>
    BY <1>4 DEF OnProgress, Line, record, gate
  <2>2. Head(toLead) = Progress
    BY <1>1, <1>3, <1>4, <2>1, TailFacts DEF LeadReads, LeadLine, Progress
  <2>3. Progress \in ToSet(toLead) /\ Progress # Ready
    BY <1>1, <1>3, <1>4, <2>2, TailFacts DEF LeadReads, Progress, Ready
  <2>4. OneQuestion' /\ HooksFirst' /\ Asking' = Asking /\ ToSet(toLead') \subseteq ToSet(toLead)
    BY <1>3, <1>4, <2>1, <2>2, <2>3, LeadTakesOther DEF LeadReads
  <2>5. Asking /\ pc \in Places \union {"ended"}
    BY <1>1, <2>3 DEF TeamInv, OneQuestion
  <2>6. HeldBack'
    BY <1>3, <1>4, <2>4, <2>5 DEF LeadReads, HeldBack
  <2>7. Obeyed'
    BY <1>1, <1>3, <1>4, <2>1 DEF LeadReads, TeamInv, Obeyed
  <2> QED
    BY <1>1, <1>3, <1>4, <2>1, <2>4, <2>6, <2>7 DEF LeadReads, TeamInv
<1>5. CASE OnRunReady
  <2>1. /\ Head(toLead).kind = "ready" /\ UNCHANGED <<status, cancel, outcome, tasks, queue>>
    BY <1>5 DEF OnRunReady, Line, record, feed
  <2>2. /\ Head(toLead) = Ready /\ ToSet(toLead) = {Ready} \union ToSet(toLead')
        /\ \A x, y : Before(toLead, x, y) <=> Before(toLead', x, y) \/ (x = Ready /\ y \in ToSet(toLead'))
    <3>1. Head(toLead) = Ready
      BY <1>1, <1>3, <1>5, <2>1, TailFacts DEF LeadReads, LeadLine, Ready
    <3>2. toLead # <<>> /\ toLead' = Tail(toLead)
      BY <1>3, <1>5 DEF LeadReads
    <3>3. /\ ToSet(toLead) = {Head(toLead)} \union ToSet(Tail(toLead))
          /\ \A x, y : Before(toLead, x, y) <=>
               Before(Tail(toLead), x, y) \/ (x = Head(toLead) /\ y \in ToSet(Tail(toLead)))
      BY <1>1, <3>2, TailFacts
    <3> QED
      BY <3>1, <3>2, <3>3
  <2>3. Asking /\ ~asked /\ ~Answered /\ pc \in Places \union {"ended"}
    BY <1>1, <2>2 DEF TeamInv, OneQuestion, Asking
  <2>4. ~Asking' /\ Progress \notin ToSet(toLead')
    BY <1>1, <2>2 DEF TeamInv, OneQuestion, Asking
  <2>5. CASE Cancellable
    <3>1. asked' = TRUE /\ waits' = tasks /\ toMate' = toMate
      BY <1>5, <2>5 DEF OnRunReady
    <3>2. Reins(queue') \subseteq waits'
      BY <1>1, <2>1, <3>1, ReinsInTasks DEF RunTypes, FeedOk
    <3>3. OneQuestion'
      BY <1>1, <1>3, <1>5, <2>2, <2>3, <2>4, <3>1 DEF LeadReads, TeamInv, OneQuestion, Answered
    <3>4. HeldBack'
      BY <1>3, <1>5, <2>3, <3>1, <3>2 DEF LeadReads, HeldBack
    <3>5. HooksFirst' /\ Obeyed'
      BY <1>1, <1>3, <1>5, <2>1, <3>1 DEF LeadReads, TeamInv, HooksFirst, Obeyed
    <3> QED
      BY <1>1, <1>3, <1>5, <2>1, <2>2, <3>3, <3>4, <3>5 DEF LeadReads, TeamInv
  <2>6. CASE ~Cancellable
    <3>1. Answer(FALSE) /\ asked' = asked
      BY <1>5, <2>6 DEF OnRunReady, gate
    <3> QED
      BY <1>3, <1>5, <2>1, <2>2, <2>3, <2>4, <3>1, TeamAnswers DEF LeadReads
  <2> QED
    BY <2>5, <2>6
<1>6. CASE OnRunMessageResult
  <2>1. /\ Head(toLead).kind = "accepted" /\ UNCHANGED <<status, cancel, outcome, queue, waits, asked, toMate>>
    BY <1>6 DEF OnRunMessageResult, Line, record, feed, gate
  <2>2. Head(toLead) # Ready
    BY <2>1 DEF Ready
  <2>3. OneQuestion' /\ HooksFirst' /\ Asking' = Asking /\ ToSet(toLead') \subseteq ToSet(toLead)
    BY <1>3, <1>6, <2>1, <2>2, LeadTakesOther DEF LeadReads
  <2>4. HeldBack' /\ Obeyed'
    BY <1>1, <1>3, <1>6, <2>1, <2>3 DEF LeadReads, TeamInv, HeldBack, Obeyed
  <2> QED
    BY <1>1, <1>3, <1>6, <2>1, <2>3, <2>4 DEF LeadReads, TeamInv
<1>7. CASE OnEnd
  <2> DEFINE own == IF cancel THEN "cancelled" ELSE Head(toLead).own
  <2>1. /\ Head(toLead).kind = "end" /\ UNCHANGED <<waits, asked, toMate>> /\ FinishRun(own)
    BY <1>7 DEF OnEnd, Line, gate
  <2>2. Head(toLead) # Ready /\ Head(toLead) \in LeadLine /\ Head(toLead) \in ToSet(toLead)
    BY <1>1, <1>3, <1>7, <2>1, TailFacts DEF LeadReads, Ready
  <2>3. pc = "ended" /\ pc' = "ended"
    BY <1>1, <1>3, <1>7, <2>1, <2>2 DEF LeadReads, TeamInv
  <2>4. OneQuestion' /\ HooksFirst' /\ Asking' = Asking /\ ToSet(toLead') \subseteq ToSet(toLead)
    BY <1>3, <1>7, <2>1, <2>2, LeadTakesOther DEF LeadReads
  <2>5. HeldBack'
    BY <2>3, <1>1 DEF HeldBack
  <2>6. own = "completed" => Completed \in ToSet(toLead)
    BY <2>1, <2>2 DEF LeadLine, Completed
  <2>7. CASE status = "active"
    <3>1. status' = "done" /\ outcome' = own
      BY <2>1, <2>7 DEF FinishRun
    <3>2. vetoed => own = "cancelled"
      BY <1>1, <2>7 DEF TeamInv, Obeyed
    <3>3. Obeyed'
      BY <1>3, <1>7, <3>1, <3>2 DEF LeadReads, Obeyed
    <3>4. "idle" # "ended"
      OBVIOUS
    <3>5. "hook" \in ToSet(inbox') => outcome' # "completed" /\ Completed \notin ToSet(toLead')
      <4> HIDE DEF own
      <4> QED
        BY <1>1, <1>3, <1>7, <2>4, <2>6, <3>1 DEF LeadReads, TeamInv
    <3> QED
      BY <1>1, <2>3, <2>4, <2>5, <3>1, <3>3, <3>4, <3>5 DEF TeamInv
  <2>8. CASE status # "active"
    <3>1. UNCHANGED <<status, cancel, outcome>>
      BY <2>1, <2>8 DEF FinishRun, record
    <3>2. Obeyed'
      BY <1>1, <1>3, <1>7, <2>8, <3>1 DEF LeadReads, TeamInv, Obeyed
    <3> QED
      BY <1>1, <1>3, <1>7, <2>3, <2>4, <2>5, <3>1, <3>2 DEF LeadReads, TeamInv
  <2> QED
    BY <2>7, <2>8
<1> QED
  BY <1>2, <1>4, <1>5, <1>6, <1>7 DEF LeadReads

LEMMA TeamMate ==
  ASSUME RunInv, kind = "team", MateReads
  PROVE  TeamInv'
<1>1. /\ TeamInv /\ RunTypes /\ toLead \in Seq(LeadLine) /\ toMate \in Seq(MateLine)
      /\ pc \notin {"idle", "ended"} => status = "active" /\ outcome = None
      /\ None \notin Outcomes
      /\ \A place \in Places : place \notin {"idle", "model", "tools", "stopping", "ended"}
  BY TeamPlaces
<1>2. toMate # <<>> /\ toMate' = Tail(toMate) /\ UNCHANGED <<kind, asked, vetoed>>
  BY DEF MateReads, OnAllowed, OnDenied, OnCancel, OnRunMessage, Line, MateTakes
<1>3. /\ Head(toMate) \in MateLine /\ ToSet(toMate) = {Head(toMate)} \union ToSet(toMate')
      /\ \A x, y : Before(toMate, x, y) <=> Before(toMate', x, y) \/ (x = Head(toMate) /\ y \in ToSet(toMate'))
  BY <1>1, <1>2, TailFacts
\* A line that the worker does not act on.
<1>4. ASSUME Head(toMate) # Denied \/ pc = "ended",
             UNCHANGED <<status, cancel, outcome, queue, waits, pc, inbox, toLead>>
      PROVE  TeamInv'
  <2>1. OneQuestion' /\ HooksFirst' /\ Obeyed'
    BY <1>1, <1>2, <1>3, <1>4 DEF TeamInv, OneQuestion, HooksFirst, Obeyed, Asking, Answered
  <2>2. HeldBack'
    BY <1>1, <1>2, <1>3, <1>4 DEF TeamInv, HeldBack, Asking
  <2> QED
    BY <1>1, <1>2, <1>4, <2>1, <2>2 DEF TeamInv
<1>5. Waiting => pc \notin {"idle", "ended"} /\ pc \in Places
  BY <1>1 DEF Waiting, TeamInv, Places, Gates
<1>6. CASE OnAllowed
  <2>1. Head(toMate).kind = "allowed"
    BY <1>6 DEF OnAllowed, Line
  <2>2. Head(toMate) = Allowed /\ Allowed # Denied
    BY <1>3, <2>1 DEF MateLine, Allowed, Denied
  <2>3. CASE Waiting
    <3>1. Answered /\ Allowed \in ToSet(toMate) /\ ToSet(toMate') \cap {Allowed, Denied} = {}
      BY <1>1, <1>3, <2>2 DEF TeamInv, OneQuestion, Answered
    <3>2. Denied \notin ToSet(toMate)
      BY <1>3, <2>2, <3>1
    <3>3. ~Asking /\ ~asked /\ Reins(queue) = {} /\ ~vetoed
      BY <1>1, <1>5, <2>3, <3>1, <3>2 DEF TeamInv, OneQuestion, HeldBack, Obeyed
    <3>4. \A l \in ToSet(toMate') : ~HookLine(l)
      BY <1>1, <1>3, <1>5, <2>2, <2>3 DEF TeamInv, HooksFirst
    <3>5. AtRest
      BY <1>2, <1>5, <2>3, <3>1, <3>3, <3>4 DEF AtRest
    <3> QED
      BY <1>2, <1>5, <1>6, <2>3, <3>5, TeamProceeds DEF OnAllowed
  <2>4. CASE ~Waiting
    BY <1>4, <1>6, <2>2, <2>4 DEF OnAllowed, record, feed
  <2> QED
    BY <2>3, <2>4
<1>7. CASE OnDenied
  <2>1. CASE Waiting
    BY <1>2, <1>5, <1>7, <2>1, TeamEnds DEF OnDenied, Outcomes
  <2>2. CASE ~Waiting
    <3>1. Head(toMate).kind = "denied"
      BY <1>7 DEF OnDenied, Line
    <3>2. Head(toMate) = Denied /\ Denied \in ToSet(toMate)
      BY <1>3, <3>1 DEF MateLine, Denied
    <3>3. pc \in Places \union {"ended"}
      BY <1>1, <3>2 DEF TeamInv, OneQuestion, Answered
    <3>4. pc = "ended"
      BY <2>2, <3>3 DEF Waiting, Places
    <3> QED
      BY <1>4, <1>7, <2>2, <3>4 DEF OnDenied, record, feed
  <2> QED
    BY <2>1, <2>2
<1>8. CASE OnCancel
  <2>1. CASE Waiting
    BY <1>2, <1>5, <1>8, <2>1, TeamEnds DEF OnCancel, Outcomes
  <2>2. CASE ~Waiting
    <3>1. Head(toMate) # Denied
      BY <1>8 DEF OnCancel, Line, Denied
    <3> QED
      BY <1>4, <1>8, <2>2, <3>1 DEF OnCancel, record, feed
  <2> QED
    BY <2>1, <2>2
<1>9. CASE OnRunMessage
  <2> DEFINE m == Head(toMate)
             ok == pc # "ended" /\ ~aborted /\ Len(inbox) < MaxInbox
             l == [kind |-> "accepted", from |-> m.from, id |-> m.id, ok |-> ok]
  <2>1. /\ m.kind = "message" /\ toLead' = Append(toLead, l)
        /\ inbox' = IF ok THEN Append(inbox, m.from) ELSE inbox
        /\ UNCHANGED <<status, cancel, outcome, queue, waits, pc>>
    BY <1>9 DEF OnRunMessage, Line, record, feed
  <2>2. m.from \in Senders /\ m.id \in Nat /\ m \in ToSet(toMate) /\ m \notin {Allowed, Denied}
    BY <1>3, <2>1, LinesApart DEF Allowed, Denied
  <2>3. l \in LeadLine /\ l \notin {Ready, Progress, Completed} /\ l.kind = "accepted"
    <3>1. ok \in BOOLEAN
      OBVIOUS
    <3> HIDE DEF ok, m
    <3> QED
      BY <3>1, <2>2 DEF LeadLine, Ready, Progress, Completed
  <2> HIDE DEF l
  <2>4. /\ ToSet(toLead') = ToSet(toLead) \union {l}
        /\ \A x, y : Before(toLead', x, y) <=> Before(toLead, x, y) \/ (x \in ToSet(toLead) /\ y = l)
    BY <1>1, <2>1, <2>3, AppendFacts
  <2>5. "hook" \in ToSet(inbox') => "hook" \in ToSet(inbox) \/ (m.from = "hook" /\ pc # "ended")
    <3>1. inbox \in Seq(Senders)
      BY <1>1 DEF RunTypes, WorkerOk
    <3>2. ToSet(Append(inbox, m.from)) = ToSet(inbox) \union {m.from}
      BY <2>2, <3>1, AppendFacts
    <3> QED
      BY <2>1, <3>2
  <2>6. m.from = "hook" /\ pc # "ended" => pc \in Places
    BY <1>1, <2>1, <2>2 DEF TeamInv, HooksFirst, HookLine
  <2>7. "hook" \in ToSet(inbox') => pc' # "model" /\ outcome' # "completed" /\ Completed \notin ToSet(toLead')
    <3>1. CASE "hook" \in ToSet(inbox)
      BY <1>1, <2>1, <2>3, <2>4, <3>1 DEF TeamInv
    <3>2. CASE m.from = "hook" /\ pc # "ended"
      <4>1. pc \in Places /\ outcome = None /\ Completed \notin ToSet(toLead)
        BY <1>1, <2>6, <3>2 DEF TeamInv, Completed
      <4> QED
        BY <1>1, <2>1, <2>3, <2>4, <4>1 DEF Outcomes
    <3> QED
      BY <2>5, <3>1, <3>2
  <2> HIDE DEF m, ok
  <2>8. Asking' = Asking /\ (Answered' <=> Answered) /\ (Denied \in ToSet(toMate') <=> Denied \in ToSet(toMate))
    BY <1>3, <2>2, <2>3, <2>4 DEF Asking, Answered, m
  <2>9. OneQuestion'
    BY <1>1, <1>2, <1>3, <2>1, <2>3, <2>4, <2>8 DEF TeamInv, OneQuestion
  <2>10. HeldBack'
    BY <1>1, <1>2, <2>1, <2>8 DEF TeamInv, HeldBack
  <2>11. HooksFirst' /\ Obeyed'
    BY <1>1, <1>2, <1>3, <2>1 DEF TeamInv, HooksFirst, Obeyed
  <2>12. (\E k \in ToSet(toLead') : k.kind = "end") => \E k \in ToSet(toLead) : k.kind = "end"
    BY <2>3, <2>4
  <2> QED
    BY <1>1, <2>1, <2>7, <2>9, <2>10, <2>11, <2>12 DEF TeamInv
<1> QED
  BY <1>6, <1>7, <1>8, <1>9 DEF MateReads

-----------------------------------------------------------------------------
(* The theorems *)

LEMMA RunInit ==
  ASSUME Init
  PROVE  RunInv
<1>1. RunTypes
  BY InitTyped
<1>2. ToSet(<<>>) = {} /\ Reins(<<>>) = {} /\ \A x, y : ~Before(<<>>, x, y)
  BY DEF ToSet, Reins, Before
<1>3. /\ status = "none" /\ cancel = FALSE /\ queue = <<>> /\ pc = "idle" /\ inbox = <<>> /\ asked = FALSE
      /\ toLead = <<>> /\ toMate = <<>> /\ vetoed = FALSE
  BY DEF Init
<1>4. DelegateInv
  BY <1>2, <1>3 DEF DelegateInv
<1>5. OneQuestion /\ HeldBack /\ HooksFirst /\ Obeyed
  BY <1>2, <1>3 DEF OneQuestion, HeldBack, HooksFirst, Obeyed, Asking, Answered
<1>6. TeamInv
  BY <1>2, <1>3, <1>5 DEF TeamInv
<1> QED
  BY <1>1, <1>4, <1>6 DEF RunInv

LEMMA RunNext ==
  ASSUME RunInv, [Next]_vars
  PROVE  RunInv'
<1>1. CASE UNCHANGED vars
  BY <1>1 DEF RunInv, RunTypes, RecordOk, FeedOk, SendersOk, WorkerOk, LinesOk, DelegateInv, TeamInv, OneQuestion,
     HeldBack, HooksFirst, Obeyed, Asking, Answered, vars, record, feed, messages, worker, gate
<1>2. CASE Next
  <2>1. RunTypes /\ kind \in {"delegate", "team"}
    BY DEF RunInv, RunTypes
  <2>2. RunTypes'
    BY <1>2, <2>1, WorkerTyped, CallsTyped, HandleTyped, LeadTyped, MateTyped DEF Next
  <2>3. kind' = kind
    BY <1>2 DEF Next, Start, PassGate, StepEnds, StopHandled, ParentAborts, GateTimesOut, RequestCancel, StopTask, UserSends,
       Delivered, SendTimesOut, Handle, HooksStop, HooksInform, Shift, LeadReads, OnProgress, OnRunReady,
       OnRunMessageResult, OnEnd, LeadTakes, AuthorizeRunStart, MateReads, OnAllowed, OnDenied, OnCancel, OnRunMessage,
       MateTakes
  <2>4. CASE kind = "delegate"
    <3>1. DelegateInv'
      BY <1>2, <2>4, DelegateWorks, DelegateHears DEF Next
    <3> QED
      BY <2>2, <2>3, <2>4, <3>1 DEF RunInv
  <2>5. CASE kind = "team"
    <3>1. TeamInv'
      BY <1>2, <2>5, TeamWorks, TeamHears, TeamLead, TeamMate DEF Next
    <3> QED
      BY <2>2, <2>3, <2>5, <3>1 DEF RunInv
  <2> QED
    BY <2>1, <2>4, <2>5
<1> QED
  BY <1>1, <1>2

\* What every state of a run looks like, for any numbers of iterations, instructions and
\* messages.
THEOREM AgentRunInvariant == Spec => []RunInv
<1>1. Init => RunInv
  BY RunInit
<1>2. RunInv /\ [Next]_vars => RunInv'
  BY RunNext
<1> QED
  BY <1>1, <1>2, PTL DEF Spec

\* The record, the handler's queue and the gates hold what they should: who waits for an event
\* waits for one that is still in the queue, as the event to be handled or as one it replaced.
THEOREM AgentRunTypes == Spec => []TypeOK
<1>1. RunInv => TypeOK
  <2> SUFFICES ASSUME RunInv PROVE TypeOK
    OBVIOUS
  <2>1. kind \in {"delegate", "team"} /\ RecordOk /\ FeedOk /\ SendersOk /\ WorkerOk
    BY DEF RunInv, RunTypes
  <2>2. \A i \in DOMAIN queue : queue[i].event \in Event /\ queue[i].event = Last(queue[i].served)
    BY <2>1, QueueFacts DEF FeedOk
  <2>3. tasks = UNION {Ids(queue[i].served) : i \in DOMAIN queue}
    BY <2>1 DEF FeedOk, QueueOk
  <2> QED
    BY <2>1, <2>2, <2>3 DEF TypeOK, RecordOk, FeedOk, SendersOk, WorkerOk, Outcomes
<1> QED
  BY <1>1, AgentRunInvariant, PTL

\* docs/hooks.md: a start or progress hook that answers "continue: false" stops that worker: no
\* step of a model or a tool follows, and the run ends as cancelled unless it had ended before.
THEOREM VetoesHonoured == Spec => []VetoHonoured
<1>1. RunInv => VetoHonoured
  <2> SUFFICES ASSUME RunInv, vetoed PROVE pc \notin {"model", "tools"} /\ outcome \in {None, "cancelled"}
    BY DEF VetoHonoured
  <2>1. kind \in {"delegate", "team"} /\ RecordOk
    BY DEF RunInv, RunTypes
  <2>2. CASE kind = "delegate"
    BY <2>1, <2>2 DEF RunInv, DelegateInv, RecordOk, Places, Gates
  <2>3. CASE kind = "team"
    BY <2>1, <2>3 DEF RunInv, TeamInv, Obeyed, RecordOk, Places, Gates
  <2> QED
    BY <2>1, <2>2, <2>3
<1> QED
  BY <1>1, AgentRunInvariant, PTL

\* Context that a hook gives is before the worker's eyes at its next model step, and a run does
\* not complete without having seen it.
THEOREM ContextSeen == Spec => []ContextIsSeen
<1>1. RunInv => ContextIsSeen
  <2> SUFFICES ASSUME RunInv, "hook" \in ToSet(inbox) PROVE pc # "model" /\ outcome # "completed"
    BY DEF ContextIsSeen
  <2>1. kind \in {"delegate", "team"}
    BY DEF RunInv, RunTypes
  <2>2. CASE kind = "delegate"
    BY <2>2 DEF RunInv, DelegateInv
  <2>3. CASE kind = "team"
    BY <2>3 DEF RunInv, TeamInv
  <2> QED
    BY <2>1, <2>2, <2>3
<1> QED
  BY <1>1, AgentRunInvariant, PTL

-----------------------------------------------------------------------------
(* The feed: what the handler's queue is to those who emit events and wait for them. Events    *)
(* are owed in the order of their numbers (Ranked), and the sum of what the entries behind the *)
(* head serve is what the hooks are owed.                                                      *)

\* Events are numbered in the order of the queue, and those an entry serves but its last are
\* progress that was replaced by progress.
Ranked(q) ==
  /\ \A i \in DOMAIN q : \A a \in Ids(q[i].served) : a <= q[i].event.id
  /\ \A i, j \in DOMAIN q : i < j => \A a \in Ids(q[j].served) : q[i].event.id < a
  /\ \A i \in DOMAIN q : Len(q[i].served) > 1
       => \A k \in DOMAIN q[i].served : q[i].served[k].type = "progress"

\* What waits behind the head, by entries.
Rest(q) == [i \in DOMAIN q |-> IF i = 1 THEN <<>> ELSE q[i].served]

LEMMA EnqueueRanked ==
  ASSUME NEW q, NEW ts, QueueOk(q, ts), Ranked(q), NEW e \in Event, \A t \in ts : t < e.id
  PROVE  Ranked(Enqueue(q, e))
<1> DEFINE n == Len(q)
           qq == Enqueue(q, e)
           s == IF Coalesces(q, e) THEN Append(q[n].served, e) ELSE <<e>>
           k == IF Coalesces(q, e) THEN n ELSE n + 1
<1>1. /\ q \in Seq(Entry) /\ n \in Nat /\ DOMAIN q = 1 .. n
      /\ \A i \in DOMAIN q : /\ q[i].served \in Seq(Event) /\ q[i].event \in Event
                            /\ q[i].served # <<>> /\ q[i].event = Last(q[i].served)
                            /\ Ids(q[i].served) \subseteq ts
                            /\ q[i].event.id \in ts
  <2>1. /\ q \in Seq(Entry) /\ n \in Nat /\ DOMAIN q = 1 .. n
        /\ \A i \in DOMAIN q : /\ q[i].served \in Seq(Event) /\ q[i].event \in Event
                              /\ q[i].served # <<>> /\ q[i].event = Last(q[i].served)
                              /\ Ids(q[i].served) \subseteq ts
    BY QueueFacts
  <2>2. \A i \in DOMAIN q : q[i].event.id \in Ids(q[i].served)
    BY <2>1, EntryFacts
  <2> QED
    BY <2>1, <2>2
<1>2. /\ qq \in Seq(Entry) /\ DOMAIN qq = 1 .. k
      /\ s \in Seq(Event) /\ Last(s) = e /\ Len(s) \in Nat \ {0}
      /\ qq[k].event = e /\ qq[k].served = s
      /\ \A i \in 1 .. k - 1 : qq[i] = q[i]
  BY <1>1, EnqueueShape
<1>3. /\ k \in Nat /\ k \in 1 .. n + 1
      /\ Coalesces(q, e) => s = Append(q[n].served, e) /\ k = n
      /\ ~Coalesces(q, e) => s = <<e>> /\ k = n + 1
  <2>1. CASE Coalesces(q, e)
    <3>1. n > 1
      BY <2>1 DEF Coalesces
    <3>2. s = Append(q[n].served, e) /\ k = n
      BY <2>1
    <3> HIDE DEF s, k, n
    <3> QED
      BY <1>1, <2>1, <3>1, <3>2
  <2>2. CASE ~Coalesces(q, e)
    <3>1. s = <<e>> /\ k = n + 1
      BY <2>2
    <3> HIDE DEF s, k, n
    <3> QED
      BY <1>1, <2>2, <3>1
  <2> QED
    BY <2>1, <2>2
<1> HIDE DEF qq, s, k, n
<1>4. e.id \in Nat /\ ts \subseteq Nat
  BY DEF Event, QueueOk, Bounded
\* All that the new entry serves is progress if it serves more than one event.
<1>5. /\ \A a \in Ids(s) : a \in (IF k \in 1 .. n THEN Ids(q[k].served) ELSE {}) \union {e.id}
      /\ Len(s) > 1 => \A i \in DOMAIN s : s[i].type = "progress"
  <2>1. CASE Coalesces(q, e)
    <3> DEFINE old == q[n].served
    <3>0. n > 1 /\ e.type = "progress" /\ q[n].event.type = "progress"
      BY <2>1 DEF Coalesces, Last, n
    <3>1. /\ n > 1 /\ e.type = "progress" /\ q[n].event.type = "progress" /\ s = Append(old, e) /\ k = n
          /\ n \in DOMAIN q
      BY <1>1, <1>3, <2>1, <3>0
    <3>2. old \in Seq(Event) /\ old # <<>> /\ q[n].event = Last(old)
      BY <1>1, <3>1
    <3>3. Len(old) \in Nat \ {0} /\ DOMAIN old = 1 .. Len(old) /\ Last(old) = old[Len(old)]
      BY <3>2, EmptySeq, LenProperties DEF Last
    <3> HIDE DEF old
    <3>4. Ids(s) = Ids(old) \union {e.id}
      BY <3>1, <3>2, ServedFacts
    <3>5. \A i \in DOMAIN old : old[i].type = "progress"
      <4>1. CASE Len(old) > 1
        BY <3>1, <4>1 DEF Ranked, old
      <4>2. CASE Len(old) = 1
        BY <3>1, <3>2, <3>3, <4>2
      <4> QED
        BY <3>3, <4>1, <4>2
    <3>6. DOMAIN s = 1 .. Len(old) + 1 /\ s[Len(old) + 1] = e /\ \A i \in 1 .. Len(old) : s[i] = old[i]
      BY <3>1, <3>2, <3>3
    <3>7. \A i \in DOMAIN s : s[i].type = "progress"
      BY <3>1, <3>3, <3>5, <3>6
    <3> QED
      BY <1>1, <3>1, <3>4, <3>7 DEF old
  <2>2. CASE ~Coalesces(q, e)
    <3>1. s = <<e>> /\ Ids(<<e>>) = {e.id} /\ Len(<<e>>) = 1
      BY <1>3, <2>2, OneServed
    <3> QED
      BY <3>1
  <2> QED
    BY <2>1, <2>2
<1>6. \A i \in 1 .. k - 1 : i \in DOMAIN q /\ qq[i] = q[i] /\ i # k
  BY <1>1, <1>2, <1>3
<1>7. \A i \in DOMAIN qq : i = k \/ i \in 1 .. k - 1
  BY <1>2, <1>3
<1>8. \A i \in DOMAIN qq : \A a \in Ids(qq[i].served) : a <= qq[i].event.id
  <2>1. \A i \in 1 .. k - 1 : \A a \in Ids(qq[i].served) : a <= qq[i].event.id
    BY <1>6 DEF Ranked
  <2>2. \A a \in Ids(qq[k].served) : a <= qq[k].event.id
    <3> SUFFICES ASSUME NEW a \in Ids(s) PROVE a <= e.id
      BY <1>2
    <3>1. CASE k \in 1 .. n /\ a \in Ids(q[k].served)
      <4>1. a \in ts
        BY <1>1, <3>1
      <4> QED
        BY <1>4, <4>1
    <3>2. CASE a = e.id
      BY <1>4, <3>2
    <3> QED
      BY <1>5, <3>1, <3>2
  <2> QED
    BY <2>1, <2>2, <1>7
<1>9. \A i, j \in DOMAIN qq : i < j => \A a \in Ids(qq[j].served) : qq[i].event.id < a
  <2> SUFFICES ASSUME NEW i \in DOMAIN qq, NEW j \in DOMAIN qq, i < j, NEW a \in Ids(qq[j].served)
               PROVE  qq[i].event.id < a
    OBVIOUS
  <2>1. i \in DOMAIN q /\ qq[i] = q[i]
    BY <1>2, <1>3, <1>6, <1>7
  <2>2. CASE j = k
    <3>1. a = e.id \/ (k \in DOMAIN q /\ a \in Ids(q[k].served))
      BY <1>1, <1>2, <1>5, <2>2
    <3>2. q[i].event.id < e.id
      BY <1>1, <2>1
    <3>3. k \in DOMAIN q /\ a \in Ids(q[k].served) => q[i].event.id < a
      BY <2>1, <2>2 DEF Ranked
    <3> QED
      BY <2>1, <3>1, <3>2, <3>3
  <2>3. CASE j # k
    BY <1>6, <1>7, <2>1, <2>3 DEF Ranked
  <2> QED
    BY <2>2, <2>3
<1>10. \A i \in DOMAIN qq : Len(qq[i].served) > 1
         => \A m \in DOMAIN qq[i].served : qq[i].served[m].type = "progress"
  <2>1. \A i \in 1 .. k - 1 : Len(qq[i].served) > 1
          => \A m \in DOMAIN qq[i].served : qq[i].served[m].type = "progress"
    BY <1>6 DEF Ranked
  <2>2. Len(qq[k].served) > 1 => \A m \in DOMAIN qq[k].served : qq[k].served[m].type = "progress"
    BY <1>2, <1>5
  <2> QED
    BY <1>7, <2>1, <2>2
<1> QED
  BY <1>8, <1>9, <1>10 DEF Ranked, qq

LEMMA ShiftRanked ==
  ASSUME NEW q, NEW ts, QueueOk(q, ts), Ranked(q), q # <<>>
  PROVE  /\ Ranked(Tail(q))
         /\ ts \ Ids(Head(q).served) = {t \in ts : t > Head(q).event.id}
<1> DEFINE n == Len(q)
           qq == Tail(q)
<1>1. /\ q \in Seq(Entry) /\ n \in Nat \ {0} /\ DOMAIN q = 1 .. n
      /\ \A t \in ts : \E i \in DOMAIN q : t \in Ids(q[i].served)
  BY QueueFacts
<1>2. DOMAIN qq = 1 .. n - 1 /\ (\A i \in 1 .. n - 1 : qq[i] = q[i + 1]) /\ Head(q) = q[1]
  BY <1>1, HeadTailProperties
<1>3. \A i \in DOMAIN qq : i + 1 \in DOMAIN q /\ qq[i] = q[i + 1]
  BY <1>1, <1>2
<1>4. \A i, j \in DOMAIN qq : i < j => i + 1 < j + 1
  BY <1>1, <1>2
<1> HIDE DEF qq
<1>5. Ranked(qq)
  BY <1>3, <1>4 DEF Ranked
<1>6. ASSUME NEW t \in ts PROVE t \in Ids(q[1].served) <=> ~(t > q[1].event.id)
  <2>1. 1 \in DOMAIN q /\ t \in Nat /\ q[1].event.id \in Nat
    <3>1. 1 \in DOMAIN q /\ q[1].event \in Event
      BY <1>1, QueueFacts
    <3> QED
      BY <3>1 DEF QueueOk, Bounded, Event
  <2>2. t \in Ids(q[1].served) => t <= q[1].event.id
    BY <2>1 DEF Ranked
  <2>3. PICK i \in DOMAIN q : t \in Ids(q[i].served)
    BY <1>1
  <2>4. i # 1 => q[1].event.id < t
    <3>1. i # 1 => 1 < i
      BY <1>1
    <3> QED
      BY <2>1, <2>3, <3>1 DEF Ranked
  <2> QED
    BY <2>1, <2>2, <2>3, <2>4
<1> QED
  BY <1>2, <1>5, <1>6 DEF qq

\* What is owed to the hooks is a sequence of the events that are pending.
LEMMA OwedTyped ==
  ASSUME NEW q, NEW ts, QueueOk(q, ts)
  PROVE  /\ Rest(q) \in Seq(Seq(Event)) /\ Len(Rest(q)) = Len(q)
         /\ FlattenSeq(Rest(q)) \in Seq(Event)
         /\ Ids(FlattenSeq(Rest(q))) \subseteq ts
         /\ Len(q) <= 1 => FlattenSeq(Rest(q)) = <<>>
<1> DEFINE n == Len(q)
           r == Rest(q)
           S == {e \in Event : e.id \in ts}
<1>1. /\ n \in Nat /\ DOMAIN q = 1 .. n
      /\ \A i \in DOMAIN q : q[i].served \in Seq(Event) /\ Ids(q[i].served) \subseteq ts
  BY QueueFacts
<1>2. ASSUME NEW i \in DOMAIN q PROVE q[i].served \in Seq(S)
  <2> DEFINE s == q[i].served
  <2>1. s \in Seq(Event) /\ \A k \in 1 .. Len(s) : s[k].id \in ts
    <3>1. s \in Seq(Event) /\ Ids(s) \subseteq ts
      BY <1>1
    <3>2. DOMAIN s = 1 .. Len(s)
      BY <3>1
    <3> QED
      BY <3>1, <3>2 DEF Ids
  <2> HIDE DEF s
  <2>2. \A k \in 1 .. Len(s) : s[k] \in S
    BY <2>1
  <2>3. s = [k \in 1 .. Len(s) |-> s[k]] /\ Len(s) \in Nat
    BY <2>1
  <2> HIDE DEF S
  <2> QED
    BY <2>2, <2>3 DEF s
<1>3. r \in Seq(Seq(S)) /\ r \in Seq(Seq(Event)) /\ Len(r) = n
  <2> DEFINE x(i) == IF i = 1 THEN <<>> ELSE q[i].served
  <2>1. r = [i \in 1 .. n |-> x(i)]
    BY <1>1 DEF Rest
  <2>2. \A i \in 1 .. n : x(i) \in Seq(S) /\ x(i) \in Seq(Event)
    <3> HIDE DEF S
    <3> QED
      BY <1>1, <1>2
  <2> HIDE DEF S, x, r
  <2>3. r \in [1 .. n -> Seq(S)] /\ r \in [1 .. n -> Seq(Event)]
    BY <2>1, <2>2
  <2> QED
    BY <1>1, <2>3, IsASeq
<1> HIDE DEF S, r
<1>4. PICK g \in [0 .. n -> Seq(S)] : Sums(r, g)
  <2>1. \E g \in [0 .. Len(r) -> Seq(S)] : Sums(r, g)
    BY <1>3, SumsExist
  <2> QED
    BY <1>3, <2>1
<1>5. FlattenSeq(r) = g[n]
  <2>1. g \in [0 .. Len(r) -> Seq(S)]
    BY <1>3, <1>4
  <2> QED
    BY <1>3, <1>4, <2>1, FlatFacts
<1>6. g[n] \in Seq(S)
  BY <1>1, <1>4
<1>7. g[n] \in Seq(Event) /\ Ids(g[n]) \subseteq ts
  <2>1. Len(g[n]) \in Nat /\ DOMAIN g[n] = 1 .. Len(g[n]) /\ \A k \in DOMAIN g[n] : g[n][k] \in S
    BY <1>6
  <2>2. \A k \in DOMAIN g[n] : g[n][k] \in Event /\ g[n][k].id \in ts
    BY <2>1 DEF S
  <2>3. Seq(S) \subseteq Seq(Event)
    <3>1. S \subseteq Event
      BY DEF S
    <3> QED
      BY <3>1
  <2> QED
    BY <1>6, <2>2, <2>3 DEF Ids
<1>8. n <= 1 => g[n] = <<>>
  <2>1. CASE n = 0
    BY <1>4, <2>1 DEF Sums
  <2>2. CASE n = 1
    <3>1. g[1] = g[1 - 1] \o r[1] /\ 1 - 1 = 0
      BY <1>3, <1>4, <2>2 DEF Sums
    <3>2. g[0] = <<>> /\ r[1] = <<>>
      BY <1>1, <1>4, <2>2 DEF Sums, r, Rest
    <3>3. <<>> \o <<>> = <<>>
      OBVIOUS
    <3> QED
      BY <2>2, <3>1, <3>2, <3>3
  <2> QED
    BY <1>1, <2>1, <2>2
<1> QED
  BY <1>3, <1>5, <1>7, <1>8 DEF r

LEMMA EventsConcat == \A x, y, z \in Seq(Event) : (x \o y) \o z = x \o (y \o z)
BY ConcatAssociative

\* To a queue that is not empty, an event is owed after all others.
LEMMA EnqueueOwed ==
  ASSUME NEW q, NEW ts, QueueOk(q, ts), q # <<>>, NEW e \in Event, e.id \notin ts
  PROVE  /\ FlattenSeq(Rest(Enqueue(q, e))) = Append(FlattenSeq(Rest(q)), e)
         /\ Enqueue(q, e) # <<>> /\ Head(Enqueue(q, e)).event = Head(q).event
<1> DEFINE n == Len(q)
           qq == Enqueue(q, e)
           s == IF Coalesces(q, e) THEN Append(q[n].served, e) ELSE <<e>>
           k == IF Coalesces(q, e) THEN n ELSE n + 1
           r == Rest(q)
           rr == Rest(qq)
<1>1. /\ q \in Seq(Entry) /\ n \in Nat \ {0} /\ DOMAIN q = 1 .. n
      /\ \A i \in DOMAIN q : q[i].served \in Seq(Event)
  BY QueueFacts
<1>2. /\ Len(qq) = k /\ DOMAIN qq = 1 .. k
      /\ s \in Seq(Event)
      /\ qq[k].served = s
      /\ \A i \in 1 .. k - 1 : qq[i] = q[i]
  BY <1>1, EnqueueShape
<1>3. /\ k \in 2 .. n + 1
      /\ Coalesces(q, e) => s = Append(q[n].served, e) /\ k = n
      /\ ~Coalesces(q, e) => s = <<e>> /\ k = n + 1
  <2>1. CASE Coalesces(q, e)
    <3>1. n > 1
      BY <2>1 DEF Coalesces
    <3>2. s = Append(q[n].served, e) /\ k = n
      BY <2>1
    <3> HIDE DEF s, k, n
    <3> QED
      BY <1>1, <2>1, <3>1, <3>2
  <2>2. CASE ~Coalesces(q, e)
    <3>1. s = <<e>> /\ k = n + 1
      BY <2>2
    <3> HIDE DEF s, k, n
    <3> QED
      BY <1>1, <2>2, <3>1
  <2> QED
    BY <2>1, <2>2
<1> HIDE DEF s, k
<1>4. QueueOk(qq, ts \union {e.id})
  BY EnqueueOk
<1>5. r \in Seq(Seq(Event)) /\ Len(r) = n
  BY OwedTyped
<1>6. rr \in Seq(Seq(Event)) /\ Len(rr) = k
  <2> HIDE DEF qq
  <2> QED
    BY <1>2, <1>4, OwedTyped
<1> HIDE DEF qq
<1>7. /\ \A i \in 1 .. n : r[i] = IF i = 1 THEN <<>> ELSE q[i].served
      /\ rr[k] = s
      /\ \A i \in 1 .. k - 1 : rr[i] = r[i]
  <2>1. k \in 1 .. k /\ k # 1 /\ \A i \in 1 .. k - 1 : i \in 1 .. k /\ i \in 1 .. n
    <3> HIDE DEF n, qq, r, rr
    <3> QED
      BY <1>1, <1>3
  <2> QED
    BY <1>1, <1>2, <2>1 DEF Rest
<1> HIDE DEF r, rr, n
<1>8. PICK g \in [0 .. n -> Seq(Event)] : Sums(r, g)
  <2>1. \E g \in [0 .. Len(r) -> Seq(Event)] : Sums(r, g)
    BY <1>5, SumsExist
  <2> QED
    BY <1>5, <2>1
<1>9. FlattenSeq(r) = g[n]
  <2>1. g \in [0 .. Len(r) -> Seq(Event)]
    BY <1>5, <1>8
  <2> QED
    BY <1>5, <1>8, <2>1, FlatFacts
<1> DEFINE last == Append(g[n], e)
           h == [i \in 0 .. k |-> IF i = k THEN last ELSE g[i]]
<1>10. \A i \in 0 .. n : g[i] \in Seq(Event)
  BY <1>8
<1>11. last = g[k - 1] \o s /\ last \in Seq(Event)
  <2>1. n \in 0 .. n /\ k - 1 \in 0 .. n
    BY <1>1, <1>3
  <2>2. g[n] \in Seq(Event) /\ last \in Seq(Event) /\ last = g[n] \o <<e>>
    BY <1>10, <2>1, AppendIsConcat
  <2>3. CASE ~Coalesces(q, e)
    <3>1. k - 1 = n /\ s = <<e>>
      BY <1>1, <1>3, <2>3
    <3> QED
      BY <2>2, <3>1
  <2>4. CASE Coalesces(q, e)
    <3> DEFINE old == q[n].served
    <3>1. k = n /\ n \in 1 .. n /\ n # 1 /\ s = Append(old, e)
      BY <1>1, <1>3, <2>4
    <3>2. old \in Seq(Event) /\ r[n] = old
      BY <1>1, <1>7, <3>1
    <3> HIDE DEF old
    <3>3. g[n] = g[n - 1] \o old
      BY <1>5, <1>8, <3>1, <3>2 DEF Sums
    <3>4. s = old \o <<e>> /\ <<e>> \in Seq(Event)
      BY <3>1, <3>2, AppendIsConcat
    <3>5. g[n - 1] \in Seq(Event)
      BY <1>10, <2>1, <3>1
    <3>6. (g[n - 1] \o old) \o <<e>> = g[n - 1] \o (old \o <<e>>)
      BY <3>2, <3>4, <3>5, EventsConcat
    <3> QED
      BY <2>2, <3>1, <3>3, <3>4, <3>6
  <2> QED
    BY <2>2, <2>3, <2>4
<1> HIDE DEF last
<1>12. \A i \in 0 .. k - 1 : i \in 0 .. n /\ i \in 0 .. k /\ i # k
  BY <1>1, <1>3
<1>13. h \in [0 .. k -> Seq(Event)] /\ h[k] = last /\ \A i \in 0 .. k - 1 : h[i] = g[i]
  <2>1. k \in 0 .. k /\ \A i \in 0 .. k : i = k \/ i \in 0 .. k - 1
    BY <1>3
  <2>2. \A i \in 0 .. k : (IF i = k THEN last ELSE g[i]) \in Seq(Event)
    BY <1>10, <1>11, <1>12, <2>1
  <2> QED
    BY <1>12, <2>1, <2>2
<1> HIDE DEF h
<1>14. Sums(rr, h)
  <2>1. h[0] = <<>>
    <3>1. 0 \in 0 .. k - 1
      BY <1>3
    <3> QED
      BY <1>8, <1>13, <3>1 DEF Sums
  <2>2. ASSUME NEW i \in 1 .. k PROVE h[i] = h[i - 1] \o rr[i]
    <3>1. i - 1 \in 0 .. k - 1
      BY <1>3
    <3>2. CASE i = k
      BY <1>7, <1>11, <1>13, <3>1, <3>2
    <3>3. CASE i # k
      <4>1. i \in 0 .. k - 1 /\ i \in 1 .. k - 1 /\ i \in 1 .. n
        BY <1>1, <1>3, <3>3
      <4>2. g[i] = g[i - 1] \o r[i]
        BY <1>5, <1>8, <4>1 DEF Sums
      <4> QED
        BY <1>7, <1>13, <3>1, <4>1, <4>2
    <3> QED
      BY <3>2, <3>3
  <2> QED
    BY <1>6, <2>1, <2>2 DEF Sums
<1>15. FlattenSeq(rr) = h[k]
  <2>1. h \in [0 .. Len(rr) -> Seq(Event)]
    BY <1>6, <1>13
  <2> QED
    BY <1>6, <1>14, <2>1, FlatFacts
<1>16. qq # <<>> /\ Head(qq).event = Head(q).event
  <2>1. 1 \in 1 .. k - 1 /\ k # 0 /\ n # 0
    BY <1>1, <1>3
  <2>2. qq[1] = q[1] /\ Len(qq) # 0 /\ qq # <<>> /\ q # <<>>
    BY <1>2, <2>1
  <2> QED
    BY <2>2
<1> QED
  BY <1>9, <1>13, <1>15, <1>16 DEF last, qq, r, rr

\* What the next entry serves is owed first, the rest after the next has ended.
LEMMA ShiftOwed ==
  ASSUME NEW q, NEW ts, QueueOk(q, ts), Len(q) > 1
  PROVE  FlattenSeq(Rest(q)) = q[2].served \o FlattenSeq(Rest(Tail(q)))
<1> DEFINE n == Len(q)
           qq == Tail(q)
           a == q[2].served
           r == Rest(q)
           rr == Rest(qq)
<1>1. /\ q \in Seq(Entry) /\ n \in Nat /\ n > 1 /\ DOMAIN q = 1 .. n /\ q # <<>>
      /\ \A i \in DOMAIN q : q[i].served \in Seq(Event)
  BY QueueFacts
<1>2. DOMAIN qq = 1 .. n - 1 /\ Len(qq) = n - 1 /\ \A i \in 1 .. n - 1 : qq[i] = q[i + 1]
  BY <1>1, HeadTailProperties
<1>3. QueueOk(qq, ts \ Ids(Head(q).served))
  BY <1>1, ShiftOk
<1>4. r \in Seq(Seq(Event)) /\ Len(r) = n
  BY OwedTyped
<1> HIDE DEF qq
<1>5. rr \in Seq(Seq(Event)) /\ Len(rr) = n - 1
  BY <1>2, <1>3, OwedTyped
<1>6. a \in Seq(Event)
  <2>1. 2 \in DOMAIN q
    BY <1>1
  <2> QED
    BY <1>1, <2>1
<1>7. /\ r[1] = <<>> /\ rr[1] = <<>> /\ r[2] = a
      /\ \A i \in 3 .. n : r[i] = rr[i - 1]
  <2>1. /\ 1 \in 1 .. n /\ 2 \in 1 .. n /\ 2 # 1 /\ 1 \in 1 .. n - 1
        /\ \A i \in 3 .. n : i \in 1 .. n /\ i # 1 /\ i - 1 # 1 /\ i - 1 \in 1 .. n - 1 /\ (i - 1) + 1 = i
    BY <1>1
  <2>2. r[1] = <<>> /\ rr[1] = <<>> /\ r[2] = a
    BY <1>1, <1>2, <2>1 DEF Rest
  <2>3. \A i \in 3 .. n : r[i] = q[i].served /\ rr[i - 1] = qq[i - 1].served /\ qq[i - 1] = q[i]
    <3> HIDE DEF n
    <3> QED
      BY <1>1, <1>2, <2>1 DEF Rest
  <2> QED
    BY <2>2, <2>3
<1> HIDE DEF a, r, rr, n
<1>8. PICK g \in [0 .. n - 1 -> Seq(Event)] : Sums(rr, g)
  <2>1. \E g \in [0 .. Len(rr) -> Seq(Event)] : Sums(rr, g)
    BY <1>5, SumsExist
  <2> QED
    BY <1>5, <2>1
<1>9. FlattenSeq(rr) = g[n - 1]
  <2>1. g \in [0 .. Len(rr) -> Seq(Event)]
    BY <1>5, <1>8
  <2> QED
    BY <1>5, <1>8, <2>1, FlatFacts
<1>10. /\ \A i \in 0 .. n - 1 : g[i] \in Seq(Event)
       /\ g[0] = <<>>
       /\ \A i \in 1 .. n - 1 : g[i] = g[i - 1] \o rr[i]
  BY <1>5, <1>8 DEF Sums
<1>11. g[1] = <<>>
  <2>1. 1 \in 1 .. n - 1 /\ 1 - 1 = 0
    BY <1>1
  <2>2. g[1] = <<>> \o <<>>
    BY <1>7, <1>10, <2>1
  <2> QED
    BY <2>2
<1> DEFINE h == [i \in 0 .. n |-> IF i <= 1 THEN <<>> ELSE a \o g[i - 1]]
<1>12. /\ h \in [0 .. n -> Seq(Event)]
       /\ h[0] = <<>> /\ h[1] = <<>>
       /\ \A i \in 2 .. n : h[i] = a \o g[i - 1]
  <2>1. \A i \in 0 .. n : ~(i <= 1) => a \o g[i - 1] \in Seq(Event)
    <3> SUFFICES ASSUME NEW i \in 0 .. n, ~(i <= 1) PROVE a \o g[i - 1] \in Seq(Event)
      OBVIOUS
    <3>1. i - 1 \in 0 .. n - 1
      BY <1>1
    <3>2. g[i - 1] \in Seq(Event)
      BY <1>10, <3>1
    <3> QED
      BY <1>6, <3>2, ConcatProperties
  <2>2. 0 \in 0 .. n /\ 1 \in 0 .. n /\ 0 <= 1 /\ 1 <= 1 /\ \A i \in 2 .. n : i \in 0 .. n /\ ~(i <= 1)
    BY <1>1
  <2>3. \A i \in 0 .. n : (IF i <= 1 THEN <<>> ELSE a \o g[i - 1]) \in Seq(Event)
    BY <2>1
  <2> QED
    BY <2>2, <2>3
<1> HIDE DEF h
<1>13. Sums(r, h)
  <2>1. ASSUME NEW i \in 1 .. n PROVE h[i] = h[i - 1] \o r[i]
    <3>1. CASE i = 1
      <4>1. <<>> = <<>> \o <<>> /\ i - 1 = 0
        BY <3>1
      <4> QED
        BY <1>7, <1>12, <3>1, <4>1
    <3>2. CASE i = 2
      <4>1. i \in 2 .. n /\ i - 1 = 1
        BY <1>1, <3>2
      <4>2. h[i] = a \o <<>> /\ h[i - 1] = <<>> /\ r[i] = a
        BY <1>7, <1>11, <1>12, <3>2, <4>1
      <4>3. a \o <<>> = a /\ <<>> \o a = a
        BY <1>6, ConcatEmptySeq
      <4> QED
        BY <4>2, <4>3
    <3>3. CASE i # 1 /\ i # 2
      <4>1. i \in 3 .. n /\ i \in 2 .. n /\ i - 1 \in 2 .. n /\ i - 1 \in 1 .. n - 1 /\ (i - 1) - 1 \in 0 .. n - 1
        BY <1>1, <3>3
      <4> DEFINE j == i - 1
      <4>2. h[i] = a \o g[j] /\ h[j] = a \o g[j - 1] /\ r[i] = rr[j] /\ g[j] = g[j - 1] \o rr[j]
        BY <1>7, <1>10, <1>12, <4>1
      <4>3. g[j - 1] \in Seq(Event) /\ rr[j] \in Seq(Event)
        <5>1. j \in 1 .. Len(rr)
          BY <1>5, <4>1
        <5> QED
          BY <1>5, <1>10, <4>1, <5>1, ElementOfSeq
      <4> HIDE DEF j
      <4>4. (a \o g[j - 1]) \o rr[j] = a \o (g[j - 1] \o rr[j])
        BY <1>6, <4>3, EventsConcat
      <4> QED
        BY <4>2, <4>4 DEF j
    <3> QED
      BY <3>1, <3>2, <3>3
  <2> QED
    BY <1>4, <1>12, <2>1 DEF Sums
<1>14. FlattenSeq(r) = h[n] /\ n \in 2 .. n
  <2>1. h \in [0 .. Len(r) -> Seq(Event)]
    BY <1>4, <1>12
  <2>2. FlattenSeq(r) = h[Len(r)]
    BY <1>4, <1>13, <2>1, FlatFacts
  <2> QED
    BY <1>1, <1>4, <2>2
<1> QED
  BY <1>9, <1>12, <1>14 DEF a, r, rr, qq

\* The event whose hooks run.
Current(q) == IF q = <<>> THEN None ELSE Head(q).event

\* The state of the feed in terms of the queue.
LEMMA FeedState ==
  /\ Owed = FlattenSeq(Rest(queue)) /\ Owed' = FlattenSeq(Rest(queue'))
  /\ \A s : Feed!Ids(s) = Ids(s)
  /\ \A s, t : Feed!IsPrefix(s, t) = IsPrefix(s, t)
BY DEF Owed, Rest, Feed!Ids, Ids, Feed!IsPrefix, IsPrefix

LEMMA SomeEvent ==
  ASSUME NEW q, NEW ts, QueueOk(q, ts), q # <<>>
  PROVE  Head(q) = q[1] /\ Head(q).event \in Event /\ Head(q).event # None
<1>1. q \in Seq(Entry) /\ 1 \in DOMAIN q /\ q[1].event \in Event
  BY QueueFacts
<1>2. Head(q) = q[1]
  BY <1>1
<1> QED
  BY <1>1, <1>2, RunAssumption

\* What the arrival of an event makes of the queue and of what is owed.
Enters(e, q, ts, qq) ==
  /\ QueueOk(qq, ts \union {e.id})
  /\ q = <<>> => ts = {} /\ Current(qq) = e /\ FlattenSeq(Rest(qq)) = <<>>
  /\ q # <<>> => Current(qq) = Current(q) /\ FlattenSeq(Rest(qq)) = Append(FlattenSeq(Rest(q)), e)
  /\ qq # <<>> /\ FlattenSeq(Rest(qq)) \in Seq(Event)

\* An event that enters the empty queue is begun; any other is owed.
LEMMA FeedEnqueue ==
  ASSUME NEW q, NEW ts, QueueOk(q, ts), NEW e \in Event, \A t \in ts : t < e.id
  PROVE  Enters(e, q, ts, Enqueue(q, e))
<1> DEFINE qq == Enqueue(q, e)
<1>1. e.id \notin ts
  <2>1. ~(e.id < e.id)
    BY DEF Event
  <2> QED
    BY <2>1
<1>2. QueueOk(qq, ts \union {e.id})
  BY <1>1, EnqueueOk
<1>3. qq # <<>>
  <2>1. qq = <<>> => ts \union {e.id} = {}
    <3> HIDE DEF qq
    <3> QED
      BY <1>2 DEF QueueOk
  <2> QED
    BY <2>1
<1>4. FlattenSeq(Rest(qq)) \in Seq(Event)
  <2> HIDE DEF qq
  <2> QED
    BY <1>2, OwedTyped
<1>5. CASE q = <<>>
  <2>1. ts = {}
    BY <1>5 DEF QueueOk
  <2>2. qq = <<[event |-> e, served |-> <<e>>]>>
    BY <1>5 DEF Enqueue, Coalesces
  <2>3. Len(qq) = 1 /\ Head(qq).event = e
    BY <2>2
  <2>4. FlattenSeq(Rest(qq)) = <<>>
    <3> DEFINE all == ts \union {e.id}
    <3>1. QueueOk(qq, all) /\ Len(qq) <= 1
      BY <1>2, <2>3
    <3> HIDE DEF qq, all
    <3> QED
      BY <3>1, OwedTyped
  <2>5. Current(qq) = e
    <3> HIDE DEF qq
    <3> QED
      BY <1>3, <2>3 DEF Current
  <2> QED
    BY <1>2, <1>3, <1>4, <1>5, <2>1, <2>4, <2>5 DEF Enters
<1>6. CASE q # <<>>
  <2>1. FlattenSeq(Rest(qq)) = Append(FlattenSeq(Rest(q)), e) /\ Head(qq).event = Head(q).event
    BY <1>1, <1>6, EnqueueOwed
  <2> QED
    BY <1>2, <1>3, <1>4, <1>6, <2>1 DEF Current, Enters
<1> QED
  BY <1>5, <1>6

\* Events that are emitted wake the hooks, or are owed to them.
LEMMA FeedAdds ==
  ASSUME QueueOk(queue, tasks), Ranked(queue), NEW a \in Types, NEW b \in Types, NEW mayControl \in BOOLEAN,
         AddEvents(<<a>>, mayControl) \/ AddEvents(<<a, b>>, mayControl)
  PROVE  Ranked(queue') /\ (Feed!Woken \/ Feed!Emitted)
<1>1. PICK e \in Event, d \in Event :
        /\ \A t \in tasks : t < e.id
        /\ \A t \in tasks \union {e.id} : t < d.id
        /\ AddsOne(e) \/ AddsTwo(e, d)
  BY AddEventsShape
<1> DEFINE one == Enqueue(queue, e)
           two == Enqueue(one, d)
           ts == tasks \union {e.id}
           owed == FlattenSeq(Rest(queue))
           owed1 == FlattenSeq(Rest(one))
           owed2 == FlattenSeq(Rest(two))
<1>2. /\ QueueOk(one, ts) /\ one # <<>> /\ owed1 \in Seq(Event)
      /\ queue = <<>> => tasks = {} /\ Current(one) = e /\ owed1 = <<>>
      /\ queue # <<>> => Current(one) = Current(queue) /\ owed1 = Append(owed, e)
  <2>1. Enters(e, queue, tasks, one)
    BY <1>1, FeedEnqueue
  <2> HIDE DEF one
  <2> QED
    BY <2>1 DEF Enters
<1>3. Ranked(one)
  BY <1>1, EnqueueRanked
<1> HIDE DEF one
<1>4. QueueOk(two, ts \union {d.id}) /\ two # <<>> /\ Current(two) = Current(one) /\ owed2 = Append(owed1, d) /\ owed2 \in Seq(Event)
  <2> HIDE DEF ts
  <2>1. \A t \in ts : t < d.id
    BY <1>1 DEF ts
  <2> HIDE DEF two, owed1, owed2
  <2>2. Enters(d, one, ts, Enqueue(one, d))
    BY <1>2, <2>1, FeedEnqueue
  <2>3. Enters(d, one, ts, two)
    BY <2>2 DEF two
  <2> QED
    BY <1>2, <2>3 DEF Enters, owed1, owed2
<1>5. Ranked(two)
  <2> HIDE DEF ts
  <2>1. \A t \in ts : t < d.id
    BY <1>1 DEF ts
  <2> QED
    BY <1>2, <1>3, <2>1, EnqueueRanked
<1>6. owed \in Seq(Event) /\ Ids(owed) \subseteq tasks
  BY OwedTyped
<1>7. queue # <<>> => Current(queue) # None
  BY SomeEvent DEF Current
<1>8. queue = <<>> => Current(queue) = None
  BY DEF Current
<1> HIDE DEF two, owed, owed1, owed2
\* In whichever way the queue becomes what it becomes.
<1>9. ASSUME Ranked(queue'), queue' # <<>>,
             queue = <<>> => Current(queue') = e /\ tasks' = {e.id} \union Ids(FlattenSeq(Rest(queue'))),
             queue # <<>> => /\ Current(queue') = Current(queue)
                             /\ IsPrefix(owed, FlattenSeq(Rest(queue')))
                             /\ tasks' = tasks \union Ids(FlattenSeq(Rest(queue')))
      PROVE  Ranked(queue') /\ (Feed!Woken \/ Feed!Emitted)
  <2>1. CASE queue = <<>>
    <3>1. Feed!Woken
      BY <1>8, <1>9, <2>1, FeedState, RunAssumption DEF Feed!Woken, Current
    <3> QED
      BY <1>9, <3>1
  <2>2. CASE queue # <<>>
    <3>1. Feed!Emitted
      BY <1>7, <1>9, <2>2, FeedState DEF Feed!Emitted, Current, owed
    <3> QED
      BY <1>9, <3>1
  <2> QED
    BY <2>1, <2>2
<1>10. CASE AddsOne(e)
  <2>1. tasks' = ts /\ queue' = one
    BY <1>10 DEF AddsOne, one
  <2>2. queue = <<>> => tasks' = {e.id} \union Ids(owed1)
    BY <1>2, <2>1 DEF Ids
  <2>3. queue # <<>> => IsPrefix(owed, owed1) /\ tasks' = tasks \union Ids(owed1)
    <3>1. IsPrefix(owed, Append(owed, e)) /\ Ids(Append(owed, e)) = Ids(owed) \union {e.id}
      BY <1>6, PrefixFacts, ServedFacts
    <3> QED
      BY <1>2, <1>6, <2>1, <3>1
  <2> QED
    BY <1>2, <1>3, <1>9, <2>1, <2>2, <2>3 DEF owed1
<1>11. CASE AddsTwo(e, d)
  <2>1. tasks' = ts \union {d.id} /\ queue' = two
    BY <1>11 DEF AddsTwo, one, two
  <2>2. Ids(owed2) = Ids(owed1) \union {d.id}
    BY <1>2, <1>4, ServedFacts
  <2>3. queue = <<>> => tasks' = {e.id} \union Ids(owed2)
    BY <1>2, <2>1, <2>2 DEF Ids
  <2>4. queue # <<>> => IsPrefix(owed, owed2) /\ tasks' = tasks \union Ids(owed2)
    <3>1. IsPrefix(owed, Append(Append(owed, e), d)) /\ Ids(Append(owed, e)) = Ids(owed) \union {e.id}
      BY <1>6, PrefixFacts, ServedFacts
    <3> QED
      BY <1>2, <1>4, <1>6, <2>1, <2>2, <3>1
  <2> QED
    BY <1>2, <1>4, <1>5, <1>9, <2>1, <2>3, <2>4 DEF owed2
<1> QED
  BY <1>1, <1>10, <1>11

\* The head of the queue ends, with all it served; the next entry begins, and what it serves
\* but its event is skipped.
LEMMA FeedShifts ==
  ASSUME QueueOk(queue, tasks), Ranked(queue), Shift
  PROVE  Ranked(queue') /\ Feed!Ended
<1> DEFINE n == Len(queue)
           owed == FlattenSeq(Rest(queue))
           a == queue[2].served
           k == Len(a)
<1>1. /\ queue # <<>> /\ queue' = Tail(queue)
      /\ tasks' = tasks \ Ids(Head(queue).served)
  BY DEF Shift
<1>2. /\ Ranked(queue')
      /\ tasks' = {t \in tasks : t > Head(queue).event.id}
      /\ QueueOk(queue', tasks')
  BY <1>1, ShiftRanked, ShiftOk
<1>3. /\ queue \in Seq(Entry) /\ n \in Nat \ {0} /\ DOMAIN queue = 1 .. n
      /\ \A i \in DOMAIN queue : /\ queue[i].served \in Seq(Event) /\ queue[i].served # <<>>
                                /\ queue[i].event = Last(queue[i].served)
  BY <1>1, QueueFacts
<1>4. Len(queue') = n - 1 /\ DOMAIN queue' = 1 .. n - 1 /\ \A i \in 1 .. n - 1 : queue'[i] = queue[i + 1]
  BY <1>1, <1>3, HeadTailProperties
<1>5. Current(queue) = Head(queue).event /\ Current(queue) # None
  BY <1>1, SomeEvent DEF Current
<1>6. CASE n = 1
  <2>1. owed = <<>> /\ FlattenSeq(Rest(queue')) = <<>>
    <3>1. owed = <<>>
      <4>1. Len(queue) <= 1
        BY <1>6
      <4> HIDE DEF n, a, k
      <4> QED
        BY <4>1, OwedTyped
    <3>2. FlattenSeq(Rest(queue')) = <<>>
      BY <1>2, <1>4, <1>6, OwedTyped
    <3> QED
      BY <3>1, <3>2
  <2>2. queue' = <<>>
    <3>1. queue' \in Seq(Entry)
      BY <1>2 DEF QueueOk
    <3> QED
      BY <3>1, <1>4, <1>6, EmptySeq
  <2>3. Owed = <<>> /\ Owed' = <<>>
    BY <2>1, FeedState
  <2>4. Feed!Ended
    BY <1>1, <1>2, <1>5, <2>2, <2>3 DEF Feed!Ended, Current
  <2> QED
    BY <1>2, <2>4
<1>7. CASE n # 1
  <2>1. n > 1 /\ 2 \in DOMAIN queue /\ queue' # <<>>
    <3>1. n > 1
      BY <1>3, <1>7
    <3>2. 2 \in DOMAIN queue /\ Len(queue') # 0
      BY <1>3, <1>4, <3>1
    <3> QED
      BY <3>1, <3>2
  <2>2. a \in Seq(Event) /\ a # <<>> /\ queue[2].event = Last(a)
    BY <1>3, <2>1
  <2>3. k \in Nat \ {0} /\ DOMAIN a = 1 .. k /\ Last(a) = a[k]
    BY <2>2, EmptySeq, LenProperties DEF Last
  <2>4. Current(queue') = a[k]
    <3>1. queue'[1] = queue[2] /\ Head(queue') = queue'[1]
      <4>1. 1 \in 1 .. n - 1
        BY <1>3, <2>1
      <4>2. Head(queue') = queue'[1]
        BY <1>2, <2>1, SomeEvent
      <4> QED
        BY <1>4, <4>1, <4>2
    <3> QED
      BY <2>1, <2>2, <2>3, <3>1 DEF Current
  <2> DEFINE next == FlattenSeq(Rest(queue'))
  <2>5. owed = a \o next
    BY <1>1, <2>1, ShiftOwed
  <2>6. next \in Seq(Event) /\ owed \in Seq(Event)
    BY <1>2, OwedTyped
  <2>7. k > 1 => \A i \in 1 .. k : a[i].type = "progress"
    BY <2>1, <2>3 DEF Ranked
  <2> HIDE DEF owed, a, next
  <2>8. /\ Len(owed) = k + Len(next) /\ Len(next) \in Nat /\ DOMAIN owed = 1 .. Len(owed)
        /\ \A i \in 1 .. k : owed[i] = a[i]
        /\ \A i \in 1 .. Len(next) : owed[k + i] = next[i]
    <3> HIDE DEF k
    <3>1. /\ Len(a \o next) = Len(a) + Len(next) /\ Len(next) \in Nat
          /\ \A i \in 1 .. Len(a) + Len(next) : (a \o next)[i] = IF i <= Len(a) THEN a[i] ELSE next[i - Len(a)]
      BY <2>2, <2>6, ConcatProperties, LenProperties
    <3>2. DOMAIN owed = 1 .. Len(owed)
      BY <2>6
    <3>3. \A i \in 1 .. Len(next) : ~(k + i <= k) /\ (k + i) - k = i /\ k + i \in 1 .. k + Len(next)
      BY <2>3, <3>1
    <3>4. \A i \in 1 .. k : i <= k /\ i \in 1 .. k + Len(next)
      BY <2>3, <3>1
    <3> QED
      BY <2>5, <3>1, <3>2, <3>3, <3>4 DEF k
  <2> HIDE DEF k
  <2>9. k \in DOMAIN owed /\ owed # <<>>
    BY <2>3, <2>8
  <2>10. next = SubSeq(owed, k + 1, Len(owed))
    <3> DEFINE rest == SubSeq(owed, k + 1, Len(owed))
    <3>1. /\ rest \in Seq(Event)
          /\ Len(rest) = (IF k + 1 <= Len(owed) THEN Len(owed) - (k + 1) + 1 ELSE 0)
          /\ \A i \in 1 .. Len(owed) - (k + 1) + 1 : rest[i] = owed[(k + 1) + i - 1]
      <4>1. k + 1 \in Int /\ Len(owed) \in Int /\ \A i \in k + 1 .. Len(owed) : owed[i] \in Event
        BY <2>3, <2>6, <2>8
      <4> QED
        BY <4>1, SubSeqProperties
    <3> HIDE DEF rest
    <3>2. Len(rest) = Len(next) /\ Len(owed) - (k + 1) + 1 = Len(next)
      BY <2>3, <2>8, <3>1
    <3>3. \A i \in 1 .. Len(next) : rest[i] = next[i]
      <4>1. \A i \in 1 .. Len(next) : (k + 1) + i - 1 = k + i
        BY <2>3, <2>8
      <4> QED
        BY <2>8, <3>1, <3>2, <4>1
    <3> QED
      BY <2>6, <3>1, <3>2, <3>3, SeqEqual DEF rest
  <2>11. \A i \in 1 .. k - 1 : owed[i].type = "progress" /\ owed[k].type = "progress"
    <3> SUFFICES ASSUME NEW i \in 1 .. k - 1 PROVE owed[i].type = "progress" /\ owed[k].type = "progress"
      OBVIOUS
    <3>1. k > 1 /\ i \in 1 .. k /\ k \in 1 .. k
      BY <2>3
    <3> QED
      BY <2>7, <2>8, <3>1
  <2>12. owed[k] = a[k]
    BY <2>3, <2>8
  <2>13. Feed!Begin(k)
    BY <2>4, <2>10, <2>11, <2>12, FeedState DEF Feed!Begin, Current, owed, next
  <2>14. Owed # <<>> /\ k \in DOMAIN Owed
    BY <2>9, FeedState DEF owed
  <2>15. Feed!Ended
    BY <1>1, <1>2, <1>5, <2>13, <2>14 DEF Feed!Ended, Current
  <2> QED
    BY <1>2, <2>15
<1> QED
  BY <1>6, <1>7

\* All that a step does to the feed is to emit events or to finish the head of the queue.
Adds ==
  \E a, b \in Types, mayControl \in BOOLEAN : AddEvents(<<a>>, mayControl) \/ AddEvents(<<a, b>>, mayControl)

FeedMoves == UNCHANGED <<tasks, queue>> \/ Adds \/ Shift

LEMMA EmitMoves ==
  ASSUME NEW a \in Types, NEW mayControl \in BOOLEAN, Emit(<<a>>, mayControl)
  PROVE  FeedMoves
BY DEF Emit, Adds, FeedMoves

LEMMA WorkerMoves ==
  ASSUME RunTypes, End("completed") \/ End("failed") \/ End("cancelled") \/ Proceed
                   \/ \E place \in Places : Report(place)
  PROVE  FeedMoves
<1>1. {"start", "progress", "stop"} \subseteq Types /\ (~cancel) \in BOOLEAN /\ FALSE \in BOOLEAN
  BY DEF Types, RunTypes, RecordOk
<1>2. ASSUME NEW own, FinishRun(own) PROVE FeedMoves
  <2>1. CASE status = "active"
    BY <1>1, <1>2, <2>1, EmitMoves DEF FinishRun
  <2>2. CASE status # "active"
    BY <1>2, <2>2 DEF FinishRun, FeedMoves, feed
  <2> QED
    BY <2>1, <2>2
<1>3. ASSUME NEW own, End(own) PROVE FeedMoves
  <2>1. CASE kind = "delegate"
    BY <1>2, <1>3, <2>1 DEF End
  <2>2. CASE kind # "delegate"
    BY <1>3, <2>2 DEF End, FeedMoves, feed
  <2> QED
    BY <2>1, <2>2
<1>4. ASSUME NEW place, Report(place) PROVE FeedMoves
  <2>1. CASE kind = "delegate"
    BY <1>1, <1>4, <2>1, EmitMoves DEF Report
  <2>2. CASE kind # "delegate"
    BY <1>4, <2>2 DEF Report, FeedMoves, feed
  <2> QED
    BY <2>1, <2>2
<1>5. Iterate => FeedMoves
  BY <1>3, <1>4 DEF Iterate
<1>6. Proceed => FeedMoves
  BY <1>3, <1>4, <1>5 DEF Proceed, FeedMoves, feed
<1> QED
  BY <1>3, <1>4, <1>6

LEMMA StepMoves ==
  ASSUME RunTypes, Next
  PROVE  FeedMoves
<1>1. /\ {"start", "progress", "message", "cancel-requested", "stop"} \subseteq Types
      /\ (~cancel) \in BOOLEAN /\ TRUE \in BOOLEAN /\ FALSE \in BOOLEAN
  BY DEF Types, RunTypes, RecordOk
<1>2. Start => FeedMoves
  BY <1>1, EmitMoves DEF Start
<1>3. PassGate \/ GateTimesOut => FeedMoves
  BY WorkerMoves DEF PassGate, GateTimesOut
<1>4. StepEnds => FeedMoves
  <2>1. "after" \in Places /\ "result" \in Places
    BY DEF Places, Gates
  <2> QED
    BY <2>1, WorkerMoves DEF StepEnds
<1>5. StopHandled \/ ParentAborts \/ UserSends \/ AuthorizeRunStart => FeedMoves
  BY DEF StopHandled, ParentAborts, UserSends, AuthorizeRunStart, FeedMoves, feed
<1>6. Cancel(<<"cancel-requested", "progress">>) \/ Cancel(<<"cancel-requested">>) => FeedMoves
  BY <1>1 DEF Cancel, Adds, FeedMoves
<1>7. RequestCancel \/ StopTask => FeedMoves
  BY <1>6 DEF RequestCancel, StopTask
<1>8. ASSUME NEW s \in Senders PROVE Delivered(s) \/ SendTimesOut(s) => FeedMoves
  BY <1>1, EmitMoves DEF Delivered, SendTimesOut, FeedMoves, feed
<1>9. HooksStop => FeedMoves
  BY <1>6 DEF HooksStop, FeedMoves
<1>10. HooksInform \/ Shift => FeedMoves
  BY DEF HooksInform, FeedMoves
<1>11. OnProgress => FeedMoves
  BY <1>1, EmitMoves DEF OnProgress, FeedMoves, feed
<1>12. OnRunReady \/ OnRunMessageResult => FeedMoves
  BY DEF OnRunReady, OnRunMessageResult, FeedMoves, feed
<1>13. OnEnd => FeedMoves
  BY <1>1, EmitMoves DEF OnEnd, FinishRun, FeedMoves, feed
<1>14. MateReads => FeedMoves
  <2>1. OnAllowed => FeedMoves
    BY WorkerMoves DEF OnAllowed, FeedMoves, feed
  <2>2. OnDenied => FeedMoves
    BY WorkerMoves DEF OnDenied, FeedMoves, feed
  <2>3. OnCancel => FeedMoves
    BY WorkerMoves DEF OnCancel, FeedMoves, feed
  <2>4. OnRunMessage => FeedMoves
    BY DEF OnRunMessage, FeedMoves, feed
  <2> QED
    BY <2>1, <2>2, <2>3, <2>4 DEF MateReads
<1> QED
  BY <1>2, <1>3, <1>4, <1>5, <1>7, <1>8, <1>9, <1>10, <1>11, <1>12, <1>13, <1>14 DEF Next, Handle, LeadReads

FeedInv == RunInv /\ Ranked(queue)

LEMMA FeedStep ==
  ASSUME FeedInv, [Next]_vars
  PROVE  FeedInv' /\ [Feed!Woken \/ Feed!Emitted \/ Feed!Ended]_Feed!feedVars
<1>1. RunInv' /\ RunTypes /\ QueueOk(queue, tasks) /\ Ranked(queue)
  BY RunNext DEF FeedInv, RunInv, RunTypes, FeedOk
<1>2. FeedMoves
  <2>1. CASE Next
    BY <1>1, <2>1, StepMoves
  <2>2. CASE UNCHANGED vars
    BY <2>2 DEF vars, feed, FeedMoves
  <2> QED
    BY <2>1, <2>2
<1>3. CASE UNCHANGED <<tasks, queue>>
  <2>1. UNCHANGED Feed!feedVars
    BY <1>3, FeedState DEF Feed!feedVars
  <2>2. Ranked(queue')
    BY <1>1, <1>3
  <2> QED
    BY <1>1, <2>1, <2>2 DEF FeedInv
<1>4. CASE Adds
  <2>1. Ranked(queue') /\ (Feed!Woken \/ Feed!Emitted)
    BY <1>1, <1>4, FeedAdds DEF Adds
  <2> QED
    BY <1>1, <2>1 DEF FeedInv
<1>5. CASE Shift
  BY <1>1, <1>5, FeedShifts DEF FeedInv
<1> QED
  BY <1>2, <1>3, <1>4, <1>5 DEF FeedMoves

\* docs/hooks.md: the hooks of a run get its events one at a time and in order, none is left out
\* but progress that progress follows directly, and a caller that waits for an event is let go
\* only when it, or the progress that replaced it, has been handled. For any numbers of events.
THEOREM FeedRefinement == Spec => ImplementsFeed
<1>1. Init => FeedInv /\ Feed!FeedInit
  <2> SUFFICES ASSUME Init PROVE FeedInv /\ Feed!FeedInit
    OBVIOUS
  <2>1. RunInv /\ queue = <<>> /\ tasks = {}
    BY RunInit DEF Init
  <2>2. QueueOk(queue, tasks) /\ Len(queue) <= 1
    BY <2>1 DEF RunInv, RunTypes, FeedOk
  <2>3. Owed = <<>>
    BY <2>2, FeedState, OwedTyped
  <2>4. Ranked(queue)
    BY <2>1 DEF Ranked
  <2> QED
    BY <2>1, <2>3, <2>4 DEF FeedInv, Feed!FeedInit
<1>2. FeedInv /\ [Next]_vars => FeedInv' /\ [Feed!Woken \/ Feed!Emitted \/ Feed!Ended]_Feed!feedVars
  BY FeedStep
<1> QED
  BY <1>1, <1>2, PTL DEF Spec, ImplementsFeed, Feed!FeedSpec
=============================================================================
