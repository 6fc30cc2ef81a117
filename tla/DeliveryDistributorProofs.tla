---------------------- MODULE DeliveryDistributorProofs ----------------------
(***************************************************************************)
(* For any number of deliveries and workers, any configuration of leases   *)
(* and delays, and any number of restarts: attempts are sent once, are     *)
(* numbered without holes, and follow the order of the queue; and, when    *)
(* sends are prompt, none comes before it is due.                          *)
(*                                                                         *)
(* The argument goes through the topic, which only grows: a claim is an    *)
(* event that no second worker can publish, and what a worker has read     *)
(* from its table, however stale, was published once.                      *)
(***************************************************************************)
EXTENDS DeliveryDistributor, NatOrder, TLAPS

Types == {"queued", "attempting", "failed", "done", "gave_up"}
Pcs == {"off", "look", "idle", "retired", "claim", "send", "sent", "failed", "dequeue", "give_up", "forget"}
Events == [type : Types, act : Activities, n : Nat, age : 0 .. Cap]
Rows == [attempt : Nat, attempt_at : Nat, failed_at : Nat, first_attempt_at : Nat]
Busy == {"claim", "send", "sent", "failed", "dequeue", "give_up", "forget"}

Typed ==
    /\ topic \in Seq(Events) /\ sent \in Seq([act : Activities, n : Nat, ok : BOOLEAN])
    /\ DOMAIN queue \subseteq Activities /\ queue \in [DOMAIN queue -> Rows]
    /\ \A a \in DOMAIN queue : /\ queue[a].attempt_at <= Len(topic)
                               /\ queue[a].failed_at <= Len(topic)
                               /\ queue[a].first_attempt_at <= Len(topic)
    /\ applied \in 0 .. Len(topic) /\ head_pos \in 0 .. Len(topic)
    /\ phase \in {"rebuild", "live"} /\ registry \in Workers \cup {NoWorker} /\ restarts \in Nat
    /\ worker \in [Workers -> [pc : Pcs, act : Activities \cup {NoWorker}, n : Nat]]
    /\ \A w \in Workers : worker[w].pc \in Busy => worker[w].act \in Activities

Is(i, type, a) == topic[i].type = type /\ topic[i].act = a
Queued(i) == topic[i].type = "queued"

\* Only attempts and failures carry a number.
Unnumbered == \A i \in 1 .. Len(topic) : topic[i].type \in {"queued", "done", "gave_up"} => topic[i].n = 0
QueuedOnce == \A i, j \in 1 .. Len(topic) : Queued(i) /\ Queued(j) /\ topic[i].act = topic[j].act => i = j
AttemptedWasQueued ==
    \A i \in 1 .. Len(topic) : topic[i].type = "attempting" => Published("queued", topic[i].act, 0)

\* Everything queued before a has ended, before position i.
AllEndedBefore(i, a) ==
    \A q \in 1 .. Len(topic) : Is(q, "queued", a) =>
       \A k \in 1 .. q - 1 : Queued(k) =>
          \E j \in 1 .. i - 1 : j <= Len(topic) /\ topic[j].type \in {"done", "gave_up"} /\ topic[j].act = topic[k].act
InOrder == \A i \in 1 .. Len(topic) : topic[i].type = "attempting" => AllEndedBefore(i, topic[i].act)

TopicInv == Unnumbered /\ QueuedOnce /\ AttemptedWasQueued /\ AttemptsContiguous /\ InOrder

\* A row was queued, and its attempt was claimed.
RowsPublished ==
    \A a \in DOMAIN queue : /\ Published("queued", a, 0)
                            /\ queue[a].attempt # 0 => Published("attempting", a, queue[a].attempt)

\* The table holds what is queued up to the position of the projection and has not
\* ended; beyond the position at most the event that is dispatched twice.
RowsProjected ==
    \A a \in DOMAIN queue, q \in 1 .. Len(topic) :
       Is(q, "queued", a) => q <= applied + 1 /\ (phase = "rebuild" => q <= applied)
NothingMissing ==
    \A k \in 1 .. applied : Queued(k) => topic[k].act \in DOMAIN queue \/ Ended(topic[k].act)

TableInv == RowsPublished /\ RowsProjected /\ NothingMissing

\* A claim to be made continues the numbering, at the head of the queue.
MayClaim(a, n) == /\ n >= 1 /\ Published("queued", a, 0)
                  /\ n > 1 => Published("attempting", a, n - 1)
                  /\ AllEndedBefore(Len(topic) + 1, a)
WasSent(a, n) == \E i \in 1 .. Len(sent) : sent[i].act = a /\ sent[i].n = n

Has(w, pc, a, n) == worker[w].pc = pc /\ worker[w].act = a /\ worker[w].n = n

WorkerInv ==
    /\ \A w \in Workers, a \in Activities, n \in Nat :
          /\ Has(w, "claim", a, n) => MayClaim(a, n)
          /\ Has(w, "send", a, n) => Published("attempting", a, n) /\ ~WasSent(a, n)
          /\ Has(w, "dequeue", a, n) \/ Has(w, "forget", a, n) => Ended(a)
    /\ \A v, w \in Workers, a \in Activities, n \in Nat :
          Has(v, "send", a, n) /\ Has(w, "send", a, n) => v = w
    /\ \A a \in Activities, n \in Nat : WasSent(a, n) => Published("attempting", a, n)

IInv == Typed /\ TopicInv /\ TableInv /\ WorkerInv /\ AttemptSentOnce

-----------------------------------------------------------------------------
(* The topic: what a step can do to it. *)
Same(e, f) == e.type = f.type /\ e.act = f.act /\ e.n = f.n
Grows == Len(topic) <= Len(topic') /\ \A i \in 1 .. Len(topic) : Same(topic'[i], topic[i])
Aged == Len(topic') = Len(topic) /\ Grows

\* An event that may be published next, and is.
Appends(type, a, n) ==
    /\ topic' = Append(topic, Event(type, a, n))
    /\ ~Published(type, a, n)
    /\ type \in {"queued", "done", "gave_up"} => n = 0
    /\ type = "attempting" => MayClaim(a, n)

LEMMA CapIsNat == Cap \in Nat /\ 0 \in 0 .. Cap
BY DistributorAssumption DEF Cap, MaxOf

\* Appending an event leaves the others where they are.
LEMMA AppendFacts ==
  ASSUME Typed, NEW type \in Types, NEW a \in Activities, NEW n \in Nat,
         topic' = Append(topic, Event(type, a, n))
  PROVE  /\ topic' \in Seq(Events) /\ Len(topic') = Len(topic) + 1
         /\ \A i \in 1 .. Len(topic) : topic'[i] = topic[i]
         /\ topic'[Len(topic) + 1] = Event(type, a, n)
         /\ Grows
<1>1. topic \in Seq(Events) /\ Len(topic) \in Nat
  BY DEF Typed
<1>2. Event(type, a, n) \in Events
  BY CapIsNat DEF Event, Events
<1>3. Len(topic') = Len(topic) + 1 /\ topic' \in Seq(Events)
  BY <1>1, <1>2
<1>4. \A i \in 1 .. Len(topic) : topic'[i] = topic[i]
  BY <1>1, <1>2
<1>5. topic'[Len(topic) + 1] = Event(type, a, n)
  BY <1>1, <1>2
<1> QED BY <1>1, <1>3, <1>4, <1>5 DEF Grows, Same

\* Time changes the ages of events and nothing else.
LEMMA TickAges == ASSUME Typed, Tick PROVE topic' \in Seq(Events) /\ Aged
<1>1. topic \in Seq(Events) /\ Len(topic) \in Nat
  BY DEF Typed
<1>2. topic' = [i \in 1 .. Len(topic) |-> Older(topic[i])]
  BY DEF Tick
<1>3. \A e \in Events : Older(e) \in Events /\ Same(Older(e), e)
  <2> TAKE e \in Events
  <2>1. e.age \in 0 .. Cap /\ MinOf(e.age + 1, Cap) \in 0 .. Cap
    BY CapIsNat DEF Events, MinOf
  <2> QED BY <2>1 DEF Older, Events, Same
<1>4. \A i \in 1 .. Len(topic) : topic[i] \in Events
  BY <1>1
<1>5. topic' \in Seq(Events)
  BY <1>1, <1>2, <1>3, <1>4
<1>6. Len(topic') = Len(topic)
  BY <1>1, <1>2
<1> QED BY <1>1, <1>2, <1>3, <1>4, <1>5, <1>6 DEF Aged, Grows

\* A publish with a message id appends an event that was not there, or nothing.
LEMMA PublishEffect ==
  ASSUME Typed, NEW type \in Types, NEW a \in Activities, NEW n \in Nat, Publish(type, a, n),
         type \in {"queued", "done", "gave_up"} => n = 0, type = "attempting" => MayClaim(a, n)
  PROVE  topic' = topic \/ Appends(type, a, n)
BY DEF Publish, Appends

\* Every step leaves the topic, ages it, or appends one event that may come next.
LEMMA TopicStep ==
  ASSUME Typed, WorkerInv, [Next]_vars
  PROVE  \/ Aged /\ topic' \in Seq(Events)
         \/ \E type \in Types, a \in Activities, n \in Nat : Appends(type, a, n)
<1>1. topic \in Seq(Events) /\ Len(topic) \in Nat
  BY DEF Typed
<1>2. CASE topic' = topic
  BY <1>1, <1>2 DEF Aged, Grows, Same
<1>3. ASSUME NEW a \in Activities, Queue(a) PROVE topic' = topic \/ Appends("queued", a, 0)
  BY <1>3, PublishEffect DEF Queue, Types
<1>4. CASE Tick
  BY <1>4, TickAges
<1>5. ASSUME NEW w \in Workers, At(w, "claim") \/ At(w, "sent") \/ At(w, "failed") \/ At(w, "give_up")
      PROVE  worker[w].act \in Activities /\ worker[w].n \in Nat
  BY <1>5 DEF Typed, At, Busy
<1>6. ASSUME NEW w \in Workers, Claim(w)
      PROVE  topic' = topic \/ Appends("attempting", worker[w].act, worker[w].n)
  <2>1. MayClaim(worker[w].act, worker[w].n)
    BY <1>5, <1>6 DEF Claim, WorkerInv, Has, At
  <2> QED BY <1>5, <1>6, <2>1, PublishEffect DEF Claim, Types
<1>7. ASSUME NEW w \in Workers, ReportDone(w)
      PROVE  topic' = topic \/ Appends("done", worker[w].act, 0)
  BY <1>5, <1>7, PublishEffect DEF ReportDone, Types
<1>8. ASSUME NEW w \in Workers, ReportFailed(w)
      PROVE  topic' = topic \/ Appends("failed", worker[w].act, worker[w].n)
  BY <1>5, <1>8, PublishEffect DEF ReportFailed, Types
<1>9. ASSUME NEW w \in Workers, ReportGaveUp(w)
      PROVE  topic' = topic \/ Appends("gave_up", worker[w].act, 0)
  BY <1>5, <1>9, PublishEffect DEF ReportGaveUp, Types
<1>10. CASE Apply \/ Start \/ Restart \/ UNCHANGED vars
  BY <1>2, <1>10 DEF Apply, Start, Restart, vars
<1>11. ASSUME NEW w \in Workers,
              \/ Claims(w) \/ GivesUp(w) \/ SeesNothing(w) \/ Idle(w) \/ LookAgain(w)
              \/ Send(w) \/ Dequeue(w) \/ Retire(w)
       PROVE  topic' = topic
  BY <1>11 DEF Claims, GivesUp, SeesNothing, Idle, LookAgain, Send, Dequeue, Retire
<1>12. ASSUME NEW a \in Activities, Queue(a) PROVE topic' = topic \/ \E n \in Nat : Appends("queued", a, n)
  BY <1>3, <1>12
<1>13. ASSUME NEW w \in Workers, Work(w) \/ Retire(w)
       PROVE  topic' = topic \/ \E type \in Types, a \in Activities, n \in Nat : Appends(type, a, n)
  <2>1. CASE Claim(w)
    <3>1. worker[w].act \in Activities /\ worker[w].n \in Nat
      BY <1>5, <2>1 DEF Claim
    <3> QED BY <3>1, <1>6, <2>1 DEF Types
  <2>2. CASE ReportDone(w)
    <3>1. worker[w].act \in Activities
      BY <1>5, <2>2 DEF ReportDone
    <3> QED BY <3>1, <1>7, <2>2 DEF Types
  <2>3. CASE ReportFailed(w)
    <3>1. worker[w].act \in Activities /\ worker[w].n \in Nat
      BY <1>5, <2>3 DEF ReportFailed
    <3> QED BY <3>1, <1>8, <2>3 DEF Types
  <2>4. CASE ReportGaveUp(w)
    <3>1. worker[w].act \in Activities
      BY <1>5, <2>4 DEF ReportGaveUp
    <3> QED BY <3>1, <1>9, <2>4 DEF Types
  <2> QED BY <1>11, <1>13, <2>1, <2>2, <2>3, <2>4 DEF Work
<1> QED BY <1>2, <1>4, <1>10, <1>12, <1>13 DEF Next, Types
\* What is published stays published.
LEMMA PublishedStays ==
  ASSUME Typed, Grows, NEW type, NEW a, NEW n, Published(type, a, n)
  PROVE  Published(type, a, n)'
<1>1. PICK i \in 1 .. Len(topic) : topic[i].type = type /\ topic[i].act = a /\ topic[i].n = n
  BY DEF Published
<1>2. topic'[i].type = type /\ topic'[i].act = a /\ topic'[i].n = n
  BY <1>1 DEF Grows, Same
<1>3. i \in 1 .. Len(topic')
  <2>1. Len(topic) \in Nat /\ Len(topic') >= Len(topic) /\ Len(topic') \in Int
    BY DEF Typed, Grows
  <2> QED BY <2>1
<1> QED BY <1>2, <1>3 DEF Published
\* Ageing changes no fact about the topic.
LEMMA AgedKeepsTopic == ASSUME Typed, TopicInv, Aged PROVE TopicInv'
<1>1. Len(topic) \in Nat /\ Len(topic') = Len(topic) /\ Grows
  BY DEF Typed, Aged
<1>2. \A i \in 1 .. Len(topic') : Same(topic'[i], topic[i])
  BY <1>1 DEF Grows
<1>3. Unnumbered' /\ QueuedOnce'
  BY <1>1, <1>2 DEF TopicInv, Unnumbered, QueuedOnce, Queued, Same
<1>4. AttemptedWasQueued'
  <2> SUFFICES ASSUME NEW i \in 1 .. Len(topic'), topic'[i].type = "attempting"
               PROVE  Published("queued", topic[i].act, 0)'
    BY DEF AttemptedWasQueued
  <2> DEFINE a == topic'[i].act
  <2>1. Published("queued", a, 0) /\ topic'[i].act = a
    BY <1>1, <1>2 DEF TopicInv, AttemptedWasQueued, Same
  <2>2. \E j \in 1 .. Len(topic') : topic'[j].type = "queued" /\ topic'[j].act = a /\ topic'[j].n = 0
    BY <1>1, <1>2, <2>1 DEF Published, Same
  <2> QED BY <2>2 DEF Published
<1>5. AttemptsContiguous'
  BY <1>1, <1>2 DEF TopicInv, AttemptsContiguous, Same
<1>6. InOrder'
  <2> SUFFICES ASSUME NEW i \in 1 .. Len(topic'), topic'[i].type = "attempting",
                      NEW q \in 1 .. Len(topic'), Is(q, "queued", topic[i].act)',
                      NEW k \in 1 .. q - 1, Queued(k)'
               PROVE  \E j \in 1 .. i - 1 : /\ j <= Len(topic')
                                            /\ topic'[j].type \in {"done", "gave_up"}
                                            /\ topic'[j].act = topic'[k].act
    BY <1>1, <1>2 DEF InOrder, AllEndedBefore, Same
  <2>1. Is(q, "queued", topic[i].act) /\ Queued(k) /\ topic[i].type = "attempting"
    BY <1>1, <1>2 DEF Is, Queued, Same
  <2>2. PICK j \in 1 .. i - 1 : /\ j <= Len(topic) /\ topic[j].type \in {"done", "gave_up"}
                                /\ topic[j].act = topic[k].act
    BY <1>1, <2>1 DEF TopicInv, InOrder, AllEndedBefore
  <2> QED BY <1>1, <1>2, <2>2 DEF Same
<1> QED BY <1>3, <1>4, <1>5, <1>6 DEF TopicInv

\* An event that may come next keeps the topic in order.
LEMMA AppendKeepsTopic ==
  ASSUME Typed, TopicInv, NEW type \in Types, NEW a \in Activities, NEW n \in Nat,
         Appends(type, a, n)
  PROVE  TopicInv'
<1> DEFINE m == Len(topic) + 1
<1>1. /\ Len(topic) \in Nat /\ Len(topic') = m /\ Grows
      /\ \A i \in 1 .. Len(topic) : topic'[i] = topic[i]
      /\ topic'[m].type = type /\ topic'[m].act = a /\ topic'[m].n = n
  BY AppendFacts DEF Typed, Appends, Event
<1>2. \A i \in 1 .. m : i \in 1 .. Len(topic) \/ i = m
  BY <1>1
<1>3. ~Published(type, a, n) /\ (type \in {"queued", "done", "gave_up"} => n = 0)
  BY DEF Appends
<1>4. Unnumbered'
  BY <1>1, <1>2, <1>3 DEF TopicInv, Unnumbered
<1>5. type = "queued" => \A i \in 1 .. Len(topic) : ~Is(i, "queued", a)
  BY <1>3 DEF TopicInv, Unnumbered, Published, Is
<1>6. QueuedOnce'
  BY <1>1, <1>2, <1>5 DEF TopicInv, QueuedOnce, Queued, Is
<1>7. type = "attempting" => MayClaim(a, n)
  BY DEF Appends
<1>8. AttemptedWasQueued'
  <2> SUFFICES ASSUME NEW i \in 1 .. m, topic'[i].type = "attempting"
               PROVE  Published("queued", topic'[i].act, 0)
    BY <1>1, PublishedStays DEF AttemptedWasQueued
  <2> QED BY <1>1, <1>2, <1>7 DEF TopicInv, AttemptedWasQueued, MayClaim
<1>9. AttemptsContiguous'
  <2> SUFFICES ASSUME NEW i \in 1 .. m, topic'[i].type = "attempting", topic'[i].n > 1
               PROVE  \E j \in 1 .. i - 1 : /\ topic'[j].type = "attempting"
                                            /\ topic'[j].act = topic'[i].act
                                            /\ topic'[j].n = topic'[i].n - 1
    BY <1>1 DEF AttemptsContiguous
  <2>1. CASE i \in 1 .. Len(topic)
    BY <1>1, <2>1 DEF TopicInv, AttemptsContiguous
  <2>2. CASE i = m
    BY <1>1, <1>7, <2>2 DEF MayClaim, Published
  <2> QED BY <1>2, <2>1, <2>2
<1>10. InOrder'
  <2> SUFFICES ASSUME NEW i \in 1 .. m, topic'[i].type = "attempting",
                      NEW q \in 1 .. m, topic'[q].type = "queued", topic'[q].act = topic'[i].act,
                      NEW k \in 1 .. q - 1, topic'[k].type = "queued"
               PROVE  \E j \in 1 .. i - 1 : /\ j <= m
                                            /\ topic'[j].type \in {"done", "gave_up"}
                                            /\ topic'[j].act = topic'[k].act
    BY <1>1 DEF InOrder, AllEndedBefore, Is, Queued
  <2>1. \E p \in 1 .. Len(topic) : Is(p, "queued", topic'[i].act)
    BY <1>1, <1>2, <1>7 DEF TopicInv, AttemptedWasQueued, MayClaim, Published, Is
  <2>2. q \in 1 .. Len(topic)
    BY <1>1, <1>2, <1>5, <2>1
  <2>3. k \in 1 .. Len(topic)
    BY <1>1, <2>2
  <2>4. topic'[q] = topic[q] /\ topic'[k] = topic[k]
    BY <1>1, <2>2, <2>3
  <2>5. AllEndedBefore(i, topic'[i].act)
    BY <1>1, <1>2, <1>7 DEF TopicInv, InOrder, MayClaim
  <2>6. PICK j \in 1 .. i - 1 : /\ j <= Len(topic) /\ topic[j].type \in {"done", "gave_up"}
                                /\ topic[j].act = topic[k].act
    BY <2>2, <2>4, <2>5 DEF AllEndedBefore, Is, Queued
  <2>7. j \in 1 .. Len(topic) /\ j <= m
    BY <1>1, <2>6
  <2> QED BY <1>1, <2>4, <2>6, <2>7
<1> QED BY <1>4, <1>6, <1>8, <1>9, <1>10 DEF TopicInv

\* The topic invariant is kept by every step.
LEMMA TopicInvStep ==
  ASSUME Typed, TopicInv, WorkerInv, [Next]_vars
  PROVE  TopicInv' /\ Grows /\ topic' \in Seq(Events)
<1>1. CASE Aged /\ topic' \in Seq(Events)
  BY <1>1, AgedKeepsTopic DEF Aged
<1>2. ASSUME NEW type \in Types, NEW a \in Activities, NEW n \in Nat, Appends(type, a, n)
      PROVE  TopicInv' /\ Grows /\ topic' \in Seq(Events)
  BY <1>2, AppendKeepsTopic, AppendFacts DEF Appends
<1> QED BY <1>1, <1>2, TopicStep
-----------------------------------------------------------------------------
(* Types. *)
TypedTable ==
    /\ DOMAIN queue \subseteq Activities /\ queue \in [DOMAIN queue -> Rows]
    /\ \A a \in DOMAIN queue : /\ queue[a].attempt_at <= Len(topic)
                               /\ queue[a].failed_at <= Len(topic)
                               /\ queue[a].first_attempt_at <= Len(topic)
TypedWorkers ==
    /\ worker \in [Workers -> [pc : Pcs, act : Activities \cup {NoWorker}, n : Nat]]
    /\ \A w \in Workers : worker[w].pc \in Busy => worker[w].act \in Activities

\* The first row of the queue exists whenever the queue has rows, and everything
\* queued before it is missing from the table.
LEMMA HeadIsFirst ==
  ASSUME Typed, TopicInv, RowsPublished, HasHead
  PROVE  /\ Head1 \in DOMAIN queue /\ Head1 \in Activities
         /\ \A b \in DOMAIN queue, i, k \in 1 .. Len(topic) :
               Is(i, "queued", Head1) /\ Is(k, "queued", b) => i <= k
<1>1. \A a \in DOMAIN queue : QueuedAt(a) \in 1 .. Len(topic) /\ Is(QueuedAt(a), "queued", a)
  BY DEF RowsPublished, Published, QueuedAt, Is
<1>2. \A a \in DOMAIN queue, i \in 1 .. Len(topic) : Is(i, "queued", a) => i = QueuedAt(a)
  BY <1>1 DEF TopicInv, QueuedOnce, Is, Queued
<1> DEFINE P == {QueuedAt(a) : a \in DOMAIN queue}
<1>3. P \subseteq Nat /\ P # {}
  BY <1>1 DEF HasHead
<1>4. PICK p \in P : \A x \in P : p <= x
  BY <1>3, LeastExists
<1>5. \E a \in DOMAIN queue : \A b \in DOMAIN queue : QueuedAt(a) <= QueuedAt(b)
  BY <1>4
<1>6. Head1 \in DOMAIN queue /\ \A b \in DOMAIN queue : QueuedAt(Head1) <= QueuedAt(b)
  BY <1>5 DEF Head1
<1> QED BY <1>2, <1>6 DEF Typed

LEMMA TypedWorkersStep ==
  ASSUME Typed, TopicInv, RowsPublished, [Next]_vars PROVE TypedWorkers'
<1> DEFINE R == [pc : Pcs, act : Activities \cup {NoWorker}, n : Nat]
<1>1. worker \in [Workers -> R] /\ \A w \in Workers : worker[w].pc \in Busy => worker[w].act \in Activities
  BY DEF Typed
<1>2. Off \in R /\ Looking \in R /\ Off.pc \notin Busy /\ Looking.pc \notin Busy
  BY DEF Off, Looking, Pcs, Busy
<1>3. ASSUME NEW w \in Workers, NEW r \in R, r.pc \in Busy => r.act \in Activities,
             worker' = [worker EXCEPT ![w] = r]
      PROVE  TypedWorkers'
  BY <1>1, <1>3 DEF TypedWorkers
<1>4. ASSUME NEW w \in Workers, Look(w) \/ Spawn(w) PROVE TypedWorkers'
  BY <1>2, <1>3, <1>4 DEF Look, Spawn
<1>5. ASSUME NEW w \in Workers, NEW pc \in Pcs, Goto(w, pc), worker[w].pc \in Busy \/ pc \notin Busy
      PROVE  TypedWorkers'
  BY <1>1, <1>5 DEF Goto, TypedWorkers
<1>6. CASE worker' = worker
  BY <1>1, <1>6 DEF TypedWorkers
<1>7. ASSUME NEW w \in Workers, Claims(w) \/ GivesUp(w) PROVE TypedWorkers'
  <2>1. Head1 \in Activities /\ queue[Head1].attempt \in Nat /\ HasHead
    BY <1>7, HeadIsFirst DEF Claims, GivesUp, Typed, Rows
  <2>2. CASE Claims(w)
    <3> DEFINE r == [pc |-> "claim", act |-> Head1, n |-> queue[Head1].attempt + 1]
    <3>1. r \in R /\ r.act \in Activities
      BY <2>1 DEF Pcs
    <3> QED BY <1>3, <2>2, <3>1 DEF Claims
  <2>3. CASE GivesUp(w)
    <3> DEFINE r == [pc |-> "give_up", act |-> Head1, n |-> queue[Head1].attempt]
    <3>1. r \in R /\ r.act \in Activities
      BY <2>1 DEF Pcs
    <3> QED BY <1>3, <2>3, <3>1 DEF GivesUp
  <2> QED BY <1>7, <2>2, <2>3
<1>8. ASSUME NEW w \in Workers, SeesNothing(w) \/ Idle(w) \/ Retire(w) PROVE TypedWorkers'
  BY <1>4, <1>5, <1>8 DEF SeesNothing, Idle, Retire, Pcs, Busy
<1>9. ASSUME NEW w \in Workers, LookAgain(w) PROVE TypedWorkers'
  BY <1>2, <1>3, <1>9 DEF LookAgain
<1>10. ASSUME NEW w \in Workers, Claim(w) PROVE TypedWorkers'
  BY <1>4, <1>5, <1>10 DEF Claim, At, Pcs, Busy
<1>11. ASSUME NEW w \in Workers, Send(w) PROVE TypedWorkers'
  BY <1>5, <1>11 DEF Send, At, Pcs, Busy
<1>12. ASSUME NEW w \in Workers, ReportDone(w) \/ ReportFailed(w) \/ ReportGaveUp(w) \/ Dequeue(w)
       PROVE  TypedWorkers'
  BY <1>4, <1>5, <1>12 DEF ReportDone, ReportFailed, ReportGaveUp, Dequeue, At, Pcs, Busy
<1>13. CASE Restart
  BY <1>2, <1>13 DEF Restart, TypedWorkers
<1>14. CASE Apply \/ Start
  BY <1>4, <1>6, <1>14 DEF Apply, Start
<1>15. CASE Tick \/ (\E a \in Activities : Queue(a)) \/ UNCHANGED vars
  BY <1>6, <1>15 DEF Tick, Queue, vars
<1> QED BY <1>7, <1>8, <1>9, <1>10, <1>11, <1>12, <1>13, <1>14, <1>15 DEF Next, Work
\* What projecting one event does to the table: rows stay rows, a row appears when
\* it is queued, disappears when it has ended, and counts what was claimed.
LEMMA ProjectFacts ==
  ASSUME Typed, NEW pos \in 1 .. Len(topic), NEW q, q = Project(queue, pos)
  PROVE  /\ q \in [DOMAIN q -> Rows]
         /\ \A a \in DOMAIN q : /\ q[a].attempt_at <= Len(topic)
                                /\ q[a].failed_at <= Len(topic)
                                /\ q[a].first_attempt_at <= Len(topic)
         /\ \A a \in DOMAIN q : a \in DOMAIN queue \/ Is(pos, "queued", a)
         /\ \A a \in DOMAIN queue : \/ a \in DOMAIN q
                                    \/ topic[pos].type \in {"done", "gave_up"} /\ topic[pos].act = a
         /\ topic[pos].type = "queued" => topic[pos].act \in DOMAIN q
         /\ \A a \in DOMAIN q : \/ a \notin DOMAIN queue /\ q[a].attempt = 0
                                \/ a \in DOMAIN queue /\ q[a].attempt = queue[a].attempt
                                \/ Is(pos, "attempting", a) /\ q[a].attempt = topic[pos].n
<1> DEFINE e == topic[pos]
<1>1. e \in Events /\ Len(topic) \in Nat /\ pos \in Nat /\ pos <= Len(topic)
  BY DEF Typed
<1>2. /\ queue \in [DOMAIN queue -> Rows]
      /\ \A a \in DOMAIN queue : /\ queue[a].attempt_at <= Len(topic)
                                 /\ queue[a].failed_at <= Len(topic)
                                 /\ queue[a].first_attempt_at <= Len(topic)
  BY DEF Typed
<1>3. CASE e.type = "queued"
  <2>1. q = Enqueue(queue, e.act)
    BY <1>3 DEF Project
  <2>2. NewRow \in Rows
    BY DEF NewRow, Rows
  <2> QED BY <1>1, <1>2, <1>3, <2>1, <2>2 DEF Enqueue, NewRow, Is
<1>4. CASE e.type = "attempting"
  <2>1. q = MarkAttempting(queue, e.act, e.n, pos)
    BY <1>4 DEF Project
  <2>2. CASE e.act \notin DOMAIN queue
    BY <1>2, <1>4, <2>1, <2>2 DEF MarkAttempting
  <2>3. CASE e.act \in DOMAIN queue
    <3> DEFINE r == [attempt |-> e.n, attempt_at |-> pos, failed_at |-> 0,
                     first_attempt_at |-> IF queue[e.act].first_attempt_at = 0 THEN pos
                                          ELSE queue[e.act].first_attempt_at]
    <3>1. queue[e.act] \in Rows /\ queue[e.act].first_attempt_at \in Nat
      BY <1>2, <2>3 DEF Rows
    <3>2. /\ r \in Rows /\ r.attempt_at <= Len(topic) /\ r.failed_at <= Len(topic)
          /\ r.first_attempt_at <= Len(topic) /\ r.attempt = e.n
      BY <1>1, <1>2, <2>3, <3>1 DEF Rows, Events
    <3>3. q = [queue EXCEPT ![e.act] = r]
      BY <2>1, <2>3 DEF MarkAttempting
    <3> HIDE DEF r
    <3> QED BY <1>2, <1>4, <2>3, <3>2, <3>3 DEF Is
  <2> QED BY <2>2, <2>3
<1>5. CASE e.type = "failed"
  <2>1. q = MarkFailed(queue, e.act, pos)
    BY <1>5 DEF Project
  <2> QED BY <1>1, <1>2, <1>5, <2>1 DEF MarkFailed, Rows
<1>6. CASE e.type \in {"done", "gave_up"}
  <2>1. q = Without(queue, e.act)
    BY <1>6 DEF Project
  <2> QED BY <1>2, <1>6, <2>1 DEF Without
<1> QED BY <1>1, <1>3, <1>4, <1>5, <1>6 DEF Events, Types

LEMMA TypedTableStep ==
  ASSUME Typed, Grows, topic' \in Seq(Events), [Next]_vars PROVE TypedTable'
<1>1. Len(topic) \in Nat /\ Len(topic') \in Nat /\ Len(topic) <= Len(topic')
  BY DEF Typed, Grows
<1>2. TypedTable /\ \A a \in DOMAIN queue : queue[a] \in Rows
  BY DEF Typed, TypedTable
<1>3. CASE queue' = queue
  BY <1>1, <1>2, <1>3 DEF TypedTable, Rows
<1>4. CASE Apply
  <2>1. applied + 1 \in 1 .. Len(topic) /\ queue' = Project(queue, applied + 1) /\ topic' = topic
    BY <1>4 DEF Apply, Typed
  <2>2. topic[applied + 1] \in Events
    BY <2>1 DEF Typed
  <2>3. topic[applied + 1].act \in Activities
    BY <2>2 DEF Events
  <2> QED BY <1>2, <2>1, <2>3, ProjectFacts DEF TypedTable, Is
<1>5. CASE Restart
  BY <1>5 DEF Restart, TypedTable
<1>6. ASSUME NEW w \in Workers, Dequeue(w) PROVE TypedTable'
  BY <1>2, <1>6 DEF Dequeue, TypedTable, Without
<1>7. CASE Tick \/ Start \/ (\E a \in Activities : Queue(a)) \/ UNCHANGED vars
  BY <1>3, <1>7 DEF Tick, Start, Queue, vars
<1>8. ASSUME NEW w \in Workers,
             \/ Claims(w) \/ GivesUp(w) \/ SeesNothing(w) \/ Idle(w) \/ LookAgain(w) \/ Claim(w)
             \/ Send(w) \/ ReportDone(w) \/ ReportFailed(w) \/ ReportGaveUp(w) \/ Retire(w)
      PROVE  TypedTable'
  BY <1>3, <1>8 DEF Claims, GivesUp, SeesNothing, Idle, LookAgain, Claim, Send, ReportDone,
                    ReportFailed, ReportGaveUp, Retire
<1> QED BY <1>4, <1>5, <1>6, <1>7, <1>8 DEF Next, Work

LEMMA TypedRestStep ==
  ASSUME Typed, Grows, topic' \in Seq(Events), [Next]_vars
  PROVE  /\ sent' \in Seq([act : Activities, n : Nat, ok : BOOLEAN])
         /\ applied' \in 0 .. Len(topic') /\ head_pos' \in 0 .. Len(topic')
         /\ phase' \in {"rebuild", "live"} /\ registry' \in Workers \cup {NoWorker} /\ restarts' \in Nat
<1>1. /\ Len(topic) \in Nat /\ Len(topic') \in Nat /\ Len(topic) <= Len(topic')
      /\ applied \in 0 .. Len(topic) /\ head_pos \in 0 .. Len(topic)
      /\ phase \in {"rebuild", "live"} /\ registry \in Workers \cup {NoWorker} /\ restarts \in Nat
      /\ sent \in Seq([act : Activities, n : Nat, ok : BOOLEAN])
  BY DEF Typed, Grows
<1>2. CASE UNCHANGED <<applied, head_pos, phase, registry, restarts, sent>>
  BY <1>1, <1>2
<1>3. CASE Apply
  BY <1>1, <1>3 DEF Apply, Spawn
<1>4. CASE Start
  BY <1>1, <1>4 DEF Start, Spawn
<1>5. CASE Restart
  BY <1>1, <1>5 DEF Restart
<1>6. ASSUME NEW w \in Workers, Retire(w)
      PROVE  registry' \in Workers \cup {NoWorker} /\ UNCHANGED <<applied, head_pos, phase, restarts, sent>>
  BY <1>1, <1>6 DEF Retire
<1>7. ASSUME NEW w \in Workers, Send(w)
      PROVE  /\ sent' \in Seq([act : Activities, n : Nat, ok : BOOLEAN])
             /\ UNCHANGED <<applied, head_pos, phase, registry, restarts>>
  <2>1. worker[w].act \in Activities /\ worker[w].n \in Nat
    BY <1>7 DEF Send, At, Typed, Busy
  <2> QED BY <1>1, <1>7, <2>1 DEF Send
<1>8. CASE Tick \/ (\E a \in Activities : Queue(a)) \/ UNCHANGED vars
  BY <1>2, <1>8 DEF Tick, Queue, vars
<1>9. ASSUME NEW w \in Workers,
             \/ Claims(w) \/ GivesUp(w) \/ SeesNothing(w) \/ Idle(w) \/ LookAgain(w) \/ Claim(w)
             \/ ReportDone(w) \/ ReportFailed(w) \/ ReportGaveUp(w) \/ Dequeue(w)
      PROVE  UNCHANGED <<applied, head_pos, phase, registry, restarts, sent>>
  BY <1>9 DEF Claims, GivesUp, SeesNothing, Idle, LookAgain, Claim, ReportDone,
              ReportFailed, ReportGaveUp, Dequeue
<1>10. ASSUME NEW w \in Workers, Work(w) \/ Retire(w)
       PROVE  /\ sent' \in Seq([act : Activities, n : Nat, ok : BOOLEAN])
              /\ UNCHANGED <<applied, head_pos, phase, restarts>>
              /\ registry' \in Workers \cup {NoWorker}
  BY <1>1, <1>6, <1>7, <1>9, <1>10 DEF Work
<1>11. ASSUME NEW w \in Workers, Work(w) \/ Retire(w)
       PROVE  applied' \in 0 .. Len(topic') /\ head_pos' \in 0 .. Len(topic')
  BY <1>1, <1>10, <1>11
<1> QED BY <1>1, <1>2, <1>3, <1>4, <1>5, <1>8, <1>10, <1>11 DEF Next

LEMMA TypedStep ==
  ASSUME Typed, TopicInv, RowsPublished, Grows, topic' \in Seq(Events), [Next]_vars PROVE Typed'
BY TypedWorkersStep, TypedTableStep, TypedRestStep DEF Typed, TypedWorkers, TypedTable
-----------------------------------------------------------------------------
(* The table against the topic. *)

\* A row that is left alone stays behind the position of the projection.
LEMMA RowsStayProjected ==
  ASSUME Typed, RowsPublished, RowsProjected, TopicInv', Grows, topic' \in Seq(Events),
         NEW a \in DOMAIN queue, NEW q \in 1 .. Len(topic'), Is(q, "queued", a)'
  PROVE  q \in 1 .. Len(topic) /\ q <= applied + 1 /\ (phase = "rebuild" => q <= applied)
<1>1. PICK i \in 1 .. Len(topic) : Is(i, "queued", a)
  BY DEF RowsPublished, Published, Is
<1>2. Len(topic) \in Nat /\ Len(topic') \in Nat /\ Len(topic) <= Len(topic')
  BY DEF Typed, Grows
<1>3. i \in 1 .. Len(topic') /\ Is(i, "queued", a)'
  BY <1>1, <1>2 DEF Grows, Same, Is
<1>4. q = i
  BY <1>3 DEF TopicInv, QueuedOnce, Is, Queued
<1> QED BY <1>1, <1>4 DEF RowsProjected

\* Rows that are kept keep their place; a row may go when its delivery has ended.
LEMMA KeptRows ==
  ASSUME Typed, TableInv, TopicInv', Grows, topic' \in Seq(Events),
         DOMAIN queue' \subseteq DOMAIN queue,
         \A a \in DOMAIN queue' : queue'[a].attempt = queue[a].attempt,
         \A a \in DOMAIN queue : a \in DOMAIN queue' \/ Ended(a),
         applied' \in 0 .. applied,
         \/ applied' = applied /\ phase' = phase
         \/ applied' + 1 >= applied /\ phase = "rebuild" /\ phase' = "live"
  PROVE  TableInv'
<1>1. /\ Len(topic) \in Nat /\ Len(topic') \in Nat /\ Len(topic) <= Len(topic')
      /\ applied \in 0 .. Len(topic)
  BY DEF Typed, Grows
<1>2. RowsPublished'
  <2> SUFFICES ASSUME NEW a \in DOMAIN queue'
               PROVE  /\ Published("queued", a, 0)'
                      /\ queue'[a].attempt # 0 => Published("attempting", a, queue[a].attempt)'
    BY DEF RowsPublished
  <2> DEFINE n == queue'[a].attempt
  <2>1. a \in DOMAIN queue /\ n = queue[a].attempt
    OBVIOUS
  <2>2. Published("queued", a, 0) /\ (n # 0 => Published("attempting", a, n))
    BY <2>1 DEF TableInv, RowsPublished
  <2>3. Published("queued", a, 0)'
    BY <2>2, PublishedStays
  <2>4. n # 0 => \E i \in 1 .. Len(topic') : /\ topic'[i].type = "attempting" /\ topic'[i].act = a
                                             /\ topic'[i].n = n
    BY <1>1, <2>2 DEF Published, Grows, Same
  <2> QED BY <2>3, <2>4 DEF Published
<1>3. RowsProjected'
  <2> SUFFICES ASSUME NEW a \in DOMAIN queue', NEW q \in 1 .. Len(topic'), Is(q, "queued", a)'
               PROVE  q <= applied' + 1 /\ (phase' = "rebuild" => q <= applied')
    BY DEF RowsProjected
  <2>1. q \in 1 .. Len(topic) /\ q <= applied + 1 /\ (phase = "rebuild" => q <= applied)
    BY RowsStayProjected DEF TableInv
  <2>2. q \in Nat /\ applied \in Nat /\ applied' \in Nat
    BY <1>1, <2>1
  <2>3. CASE applied' = applied /\ phase' = phase
    BY <2>1, <2>3
  <2>4. CASE applied' + 1 >= applied /\ phase = "rebuild" /\ phase' = "live"
    <3>1. phase' # "rebuild" /\ q <= applied /\ applied <= applied' + 1
      BY <2>1, <2>4
    <3>2. \A x, y, z \in Nat : x <= y /\ y <= z + 1 => x <= z + 1
      OBVIOUS
    <3>3. q <= applied' + 1
      BY <2>2, <3>1, <3>2
    <3> QED BY <3>1, <3>3
  <2> QED BY <2>3, <2>4
<1>4. NothingMissing'
  <2> SUFFICES ASSUME NEW k \in 1 .. applied', Queued(k)'
               PROVE  topic'[k].act \in DOMAIN queue' \/ Ended(topic[k].act)'
    BY DEF NothingMissing
  <2> DEFINE a == topic'[k].act
  <2>1. k \in 1 .. applied /\ k \in 1 .. Len(topic) /\ Queued(k) /\ a = topic[k].act
    BY <1>1 DEF Grows, Same, Queued
  <2>2. a \in DOMAIN queue \/ Ended(a)
    BY <2>1 DEF TableInv, NothingMissing
  <2>3. a \in DOMAIN queue' \/ Ended(a)
    BY <2>2
  <2>4. Ended(a) => \E type \in {"done", "gave_up"}, i \in 1 .. Len(topic') :
                       topic'[i].type = type /\ topic'[i].act = a /\ topic'[i].n = 0
    BY <1>1 DEF Ended, Published, Grows, Same
  <2> QED BY <2>3, <2>4 DEF Ended, Published
<1> QED BY <1>2, <1>3, <1>4 DEF TableInv

\* Projecting the next event keeps the table true.
LEMMA ApplyKeepsTable ==
  ASSUME Typed, TopicInv, TableInv, Apply PROVE TableInv'
<1> DEFINE m == applied + 1
<1>1. /\ Len(topic) \in Nat /\ applied \in 0 .. Len(topic) /\ m \in 1 .. Len(topic)
      /\ topic' = topic /\ applied' = m /\ phase' = phase /\ queue' = Project(queue, m)
  BY DEF Typed, Apply
<1>2. /\ \A a \in DOMAIN queue' : a \in DOMAIN queue \/ Is(m, "queued", a)
      /\ \A a \in DOMAIN queue : \/ a \in DOMAIN queue'
                                 \/ topic[m].type \in {"done", "gave_up"} /\ topic[m].act = a
      /\ topic[m].type = "queued" => topic[m].act \in DOMAIN queue'
      /\ \A a \in DOMAIN queue' : \/ a \notin DOMAIN queue /\ queue'[a].attempt = 0
                                  \/ a \in DOMAIN queue /\ queue'[a].attempt = queue[a].attempt
                                  \/ Is(m, "attempting", a) /\ queue'[a].attempt = topic[m].n
  BY <1>1, ProjectFacts
<1>3. topic[m].type \in {"queued", "done", "gave_up"} => topic[m].n = 0
  BY <1>1 DEF TopicInv, Unnumbered
<1>4. RowsPublished'
  <2> SUFFICES ASSUME NEW a \in DOMAIN queue'
               PROVE  /\ Published("queued", a, 0)
                      /\ queue'[a].attempt # 0 => Published("attempting", a, queue'[a].attempt)
    BY <1>1 DEF RowsPublished, Published
  <2>1. Published("queued", a, 0)
    BY <1>1, <1>2, <1>3 DEF TableInv, RowsPublished, Published, Is
  <2>2. queue'[a].attempt # 0 => Published("attempting", a, queue'[a].attempt)
    BY <1>1, <1>2 DEF TableInv, RowsPublished, Published, Is
  <2> QED BY <2>1, <2>2
<1>5. RowsProjected'
  <2> SUFFICES ASSUME NEW a \in DOMAIN queue', NEW q \in 1 .. Len(topic), Is(q, "queued", a)
               PROVE  q <= m
    BY <1>1 DEF RowsProjected, Is
  <2>1. CASE a \in DOMAIN queue
    BY <1>1, <2>1 DEF TableInv, RowsProjected
  <2>2. CASE Is(m, "queued", a)
    BY <1>1, <2>2 DEF TopicInv, QueuedOnce, Is, Queued
  <2> QED BY <1>2, <2>1, <2>2
<1>6. NothingMissing'
  <2> SUFFICES ASSUME NEW k \in 1 .. m, Queued(k)
               PROVE  topic[k].act \in DOMAIN queue' \/ Ended(topic[k].act)
    BY <1>1 DEF NothingMissing, Queued, Ended, Published
  <2>1. topic[k].act \in DOMAIN queue' \/ topic[k].act \in DOMAIN queue \/ Ended(topic[k].act)
    BY <1>1, <1>2 DEF TableInv, NothingMissing, Queued
  <2>2. topic[m].type \in {"done", "gave_up"} => Ended(topic[m].act)
    BY <1>1, <1>3 DEF Ended, Published
  <2> QED BY <1>2, <2>1, <2>2
<1> QED BY <1>4, <1>5, <1>6 DEF TableInv

LEMMA TableStep ==
  ASSUME Typed, TopicInv, TableInv, WorkerInv, TopicInv', Grows, topic' \in Seq(Events), [Next]_vars
  PROVE  TableInv'
<1>1. /\ applied \in 0 .. Len(topic) /\ head_pos \in 0 .. Len(topic) /\ Len(topic) \in Nat
      /\ phase \in {"rebuild", "live"}
  BY DEF Typed
<1>2. CASE queue' = queue /\ applied' = applied /\ phase' = phase
  BY <1>1, <1>2, KeptRows
<1>3. CASE Apply
  BY <1>3, ApplyKeepsTable
<1>4. CASE Start
  <2>1. /\ queue' = queue /\ phase = "rebuild" /\ phase' = "live"
        /\ applied' = applied \/ (applied > head_pos /\ applied' = applied - 1)
    BY <1>4 DEF Start
  <2>2. applied' \in 0 .. applied /\ applied' + 1 >= applied
    BY <1>1, <2>1
  <2> QED BY <1>1, <2>1, <2>2, KeptRows
<1>5. CASE Restart
  BY <1>5 DEF Restart, TableInv, RowsPublished, RowsProjected, NothingMissing
<1>6. ASSUME NEW w \in Workers, Dequeue(w) PROVE TableInv'
  <2>0. worker[w].act \in Activities /\ worker[w].n \in Nat
    BY <1>6 DEF Dequeue, At, Typed, Busy
  <2>1. /\ queue' = Without(queue, worker[w].act) /\ Ended(worker[w].act)
        /\ applied' = applied /\ phase' = phase
    BY <1>6, <2>0 DEF Dequeue, WorkerInv, Has, At
  <2>2. /\ DOMAIN queue' = DOMAIN queue \ {worker[w].act}
        /\ \A a \in DOMAIN queue' : queue'[a] = queue[a]
    BY <2>1 DEF Without
  <2> QED BY <1>1, <2>1, <2>2, KeptRows
<1>7. CASE Tick \/ (\E a \in Activities : Queue(a)) \/ UNCHANGED vars
  BY <1>2, <1>7 DEF Tick, Queue, vars
<1>8. ASSUME NEW w \in Workers,
             \/ Claims(w) \/ GivesUp(w) \/ SeesNothing(w) \/ Idle(w) \/ LookAgain(w) \/ Claim(w)
             \/ Send(w) \/ ReportDone(w) \/ ReportFailed(w) \/ ReportGaveUp(w) \/ Retire(w)
      PROVE  TableInv'
  BY <1>2, <1>8 DEF Claims, GivesUp, SeesNothing, Idle, LookAgain, Claim, Send, ReportDone,
                    ReportFailed, ReportGaveUp, Retire
<1> QED BY <1>3, <1>4, <1>5, <1>6, <1>7, <1>8 DEF Next, Work
-----------------------------------------------------------------------------
(* The workers against the topic. *)

LEMMA EndedStays == ASSUME Typed, Grows, NEW a, Ended(a) PROVE Ended(a)'
BY PublishedStays DEF Ended

\* A claim that may be made may still be made when the topic has grown.
LEMMA MayClaimStays ==
  ASSUME Typed, TopicInv', Grows, topic' \in Seq(Events), NEW a, NEW n \in Nat, MayClaim(a, n)
  PROVE  MayClaim(a, n)'
<1>1. Len(topic) \in Nat /\ Len(topic') \in Nat /\ Len(topic) <= Len(topic')
  BY DEF Typed, Grows
<1>2. Published("queued", a, 0)' /\ (n > 1 => Published("attempting", a, n - 1)')
  BY PublishedStays DEF MayClaim
<1>3. AllEndedBefore(Len(topic) + 1, a)'
  <2> SUFFICES ASSUME NEW q \in 1 .. Len(topic'), Is(q, "queued", a)',
                      NEW k \in 1 .. q - 1, Queued(k)'
               PROVE  \E j \in 1 .. Len(topic') : /\ topic'[j].type \in {"done", "gave_up"}
                                                  /\ topic'[j].act = topic'[k].act
    BY <1>1 DEF AllEndedBefore
  <2>1. PICK p \in 1 .. Len(topic) : Is(p, "queued", a)
    BY DEF MayClaim, Published, Is
  <2>2. p \in 1 .. Len(topic') /\ Is(p, "queued", a)'
    BY <1>1, <2>1 DEF Grows, Same, Is
  <2>3. q = p
    BY <2>2 DEF TopicInv, QueuedOnce, Is, Queued
  <2>4. k \in 1 .. p - 1 /\ k \in 1 .. Len(topic) /\ Queued(k) /\ topic'[k].act = topic[k].act
    BY <1>1, <2>1, <2>3 DEF Grows, Same, Queued
  <2>5. PICK j \in 1 .. Len(topic) : /\ topic[j].type \in {"done", "gave_up"}
                                     /\ topic[j].act = topic[k].act
    BY <1>1, <2>1, <2>4 DEF MayClaim, AllEndedBefore
  <2>6. j \in 1 .. Len(topic') /\ topic'[j].type = topic[j].type /\ topic'[j].act = topic[j].act
    BY <1>1, <2>5 DEF Grows, Same
  <2> QED BY <2>4, <2>5, <2>6
<1> QED BY <1>2, <1>3 DEF MayClaim

\* What a worker reads from its table, however stale, lets it claim the head.
LEMMA HeadMayBeClaimed ==
  ASSUME Typed, TopicInv, TableInv, HasHead
  PROVE  MayClaim(Head1, queue[Head1].attempt + 1)
<1> DEFINE a == Head1  n == queue[Head1].attempt + 1
<1>1. /\ Len(topic) \in Nat /\ applied \in 0 .. Len(topic)
      /\ \A b \in DOMAIN queue : queue[b].attempt \in Nat
  BY DEF Typed, Rows
<1>2. a \in DOMAIN queue /\ \A b \in DOMAIN queue, i, k \in 1 .. Len(topic) :
                               Is(i, "queued", a) /\ Is(k, "queued", b) => i <= k
  BY HeadIsFirst DEF TableInv
<1>3. n \in Nat /\ n >= 1 /\ n - 1 = queue[a].attempt
  BY <1>1, <1>2
<1>4. Published("queued", a, 0) /\ (n > 1 => Published("attempting", a, n - 1))
  BY <1>2, <1>3 DEF TableInv, RowsPublished
<1>5. AllEndedBefore(Len(topic) + 1, a)
  <2> SUFFICES ASSUME NEW q \in 1 .. Len(topic), Is(q, "queued", a),
                      NEW k \in 1 .. q - 1, Queued(k)
               PROVE  \E j \in 1 .. Len(topic) : /\ topic[j].type \in {"done", "gave_up"}
                                                 /\ topic[j].act = topic[k].act
    BY <1>1 DEF AllEndedBefore
  <2>1. q <= applied + 1
    BY <1>2 DEF TableInv, RowsProjected
  <2>2. k \in 1 .. applied /\ k \in 1 .. Len(topic) /\ ~(q <= k)
    BY <1>1, <2>1
  <2>3. topic[k].act \notin DOMAIN queue
    BY <1>2, <2>2 DEF Is, Queued
  <2>4. Ended(topic[k].act)
    BY <2>2, <2>3 DEF TableInv, NothingMissing
  <2> QED BY <2>4 DEF Ended, Published
<1> QED BY <1>3, <1>4, <1>5 DEF MayClaim
\* A step that starts no send and sends nothing keeps the invariant of the workers,
\* if the claims it makes may be made and the deliveries it removes have ended.
LEMMA WorkersKept ==
  ASSUME Typed, TopicInv', Grows, topic' \in Seq(Events), WorkerInv, sent' = sent,
         \A w \in Workers, a \in Activities, n \in Nat :
            /\ Has(w, "claim", a, n)' => Has(w, "claim", a, n) \/ MayClaim(a, n)
            /\ Has(w, "send", a, n)' => Has(w, "send", a, n)
            /\ Has(w, "dequeue", a, n)' => Has(w, "dequeue", a, n) \/ Ended(a)'
            /\ Has(w, "forget", a, n)' => Has(w, "forget", a, n) \/ Ended(a)'
  PROVE  WorkerInv'
<1>1. ASSUME NEW a \in Activities, NEW n \in Nat PROVE WasSent(a, n)' <=> WasSent(a, n)
  BY DEF WasSent
<1>2. ASSUME NEW w \in Workers, NEW a \in Activities, NEW n \in Nat
      PROVE  /\ Has(w, "claim", a, n)' => MayClaim(a, n)'
             /\ Has(w, "send", a, n)' => Published("attempting", a, n)' /\ ~WasSent(a, n)'
             /\ Has(w, "dequeue", a, n)' \/ Has(w, "forget", a, n)' => Ended(a)'
  <2>1. Has(w, "claim", a, n)' => MayClaim(a, n)'
    BY MayClaimStays DEF WorkerInv
  <2>2. Has(w, "send", a, n)' => Published("attempting", a, n)' /\ ~WasSent(a, n)'
    BY <1>1, PublishedStays DEF WorkerInv
  <2>3. Has(w, "dequeue", a, n)' \/ Has(w, "forget", a, n)' => Ended(a)'
    BY EndedStays DEF WorkerInv
  <2> QED BY <2>1, <2>2, <2>3
<1>3. ASSUME NEW v \in Workers, NEW w \in Workers, NEW a \in Activities, NEW n \in Nat,
             Has(v, "send", a, n)', Has(w, "send", a, n)'
      PROVE  v = w
  BY <1>3 DEF WorkerInv
<1>4. ASSUME NEW a \in Activities, NEW n \in Nat, WasSent(a, n)'
      PROVE  Published("attempting", a, n)'
  BY <1>1, <1>4, PublishedStays DEF WorkerInv
<1> QED BY <1>2, <1>3, <1>4 DEF WorkerInv

\* One worker moves on, the others stay.
LEMMA OneMoves ==
  ASSUME Typed, NEW w \in Workers, NEW r, worker' = [worker EXCEPT ![w] = r],
         NEW v \in Workers, NEW pc, NEW a, NEW n
  PROVE  Has(v, pc, a, n)' <=> IF v = w THEN r.pc = pc /\ r.act = a /\ r.n = n ELSE Has(v, pc, a, n)
BY DEF Typed, Has

LEMMA OneGoes ==
  ASSUME Typed, NEW w \in Workers, NEW to, Goto(w, to), NEW v \in Workers, NEW pc, NEW a, NEW n
  PROVE  Has(v, pc, a, n)' <=> IF v = w THEN to = pc /\ worker[w].act = a /\ worker[w].n = n
                                        ELSE Has(v, pc, a, n)
BY DEF Typed, Has, Goto

LEMMA OneLooks ==
  ASSUME Typed, NEW w \in Workers, Look(w), NEW v \in Workers, NEW a, NEW n,
         NEW pc \in {"claim", "send", "dequeue", "forget"}
  PROVE  Has(v, pc, a, n)' => Has(v, pc, a, n)
BY DEF Typed, Has, Look, Looking, Off

\* The claim that was won is sent by nobody else and was sent by nobody.
LEMMA ClaimKeepsWorkers ==
  ASSUME Typed, TopicInv, WorkerInv, TopicInv', Grows, topic' \in Seq(Events), NEW w \in Workers, Claim(w)
  PROVE  WorkerInv'
<1> DEFINE a == worker[w].act  n == worker[w].n
<1>1. /\ At(w, "claim") /\ Publish("attempting", a, n) /\ sent' = sent
      /\ IF Published("attempting", a, n) THEN Look(w) ELSE Goto(w, "send")
  BY DEF Claim
<1>2. CASE Look(w)
  BY <1>1, <1>2, OneLooks, WorkersKept
<1>3. CASE ~Published("attempting", a, n) /\ Goto(w, "send")
  <2>1. a \in Activities /\ n \in Nat
    BY <1>1 DEF Typed, At, Busy
  <2>2. topic' = Append(topic, Event("attempting", a, n))
    BY <1>1, <1>3 DEF Publish
  <2>3. /\ Len(topic) \in Nat /\ Len(topic') = Len(topic) + 1
        /\ topic'[Len(topic) + 1] = Event("attempting", a, n)
    BY <2>1, <2>2, AppendFacts DEF Types, Typed
  <2>4. \A b \in Activities, m \in Nat : b = a /\ m = n => Published("attempting", b, m)'
    BY <2>3 DEF Published, Event
  <2>5. \A b \in Activities, m \in Nat : WasSent(b, m)' <=> WasSent(b, m)
    BY <1>1 DEF WasSent
  <2>6. \A v \in Workers, b \in Activities, m \in Nat :
           /\ Has(v, "send", b, m)' => Has(v, "send", b, m) \/ (v = w /\ b = a /\ m = n)
           /\ Has(v, "send", b, m) => v # w /\ (b # a \/ m # n)
    <3> TAKE v \in Workers, b \in Activities, m \in Nat
    <3>1. Has(v, "send", b, m)' => Has(v, "send", b, m) \/ (v = w /\ b = a /\ m = n)
      BY <1>3, OneGoes
    <3>2. Has(v, "send", b, m) => Published("attempting", b, m)
      BY DEF WorkerInv
    <3>3. Has(v, "send", b, m) => v # w
      BY <1>1 DEF At, Has
    <3> QED BY <1>3, <3>1, <3>2, <3>3
  <2>7. \A v \in Workers, b \in Activities, m \in Nat, pc \in {"claim", "dequeue", "forget"} :
           Has(v, pc, b, m)' => Has(v, pc, b, m)
    BY <1>3, OneGoes
  <2>8. ASSUME NEW v \in Workers, NEW b \in Activities, NEW m \in Nat
        PROVE  /\ Has(v, "claim", b, m)' => MayClaim(b, m)'
               /\ Has(v, "send", b, m)' => Published("attempting", b, m)' /\ ~WasSent(b, m)'
               /\ Has(v, "dequeue", b, m)' \/ Has(v, "forget", b, m)' => Ended(b)'
    <3>1. Has(v, "claim", b, m)' => MayClaim(b, m)'
      BY <2>7, MayClaimStays DEF WorkerInv
    <3>2. Has(v, "send", b, m)' => Published("attempting", b, m)'
      BY <2>4, <2>6, PublishedStays DEF WorkerInv
    <3>3. Has(v, "send", b, m)' => ~WasSent(b, m)'
      BY <1>3, <2>5, <2>6 DEF WorkerInv
    <3>4. Has(v, "dequeue", b, m)' \/ Has(v, "forget", b, m)' => Ended(b)'
      BY <2>7, EndedStays DEF WorkerInv
    <3> QED BY <3>1, <3>2, <3>3, <3>4
  <2>9. ASSUME NEW v \in Workers, NEW u \in Workers, NEW b \in Activities, NEW m \in Nat,
               Has(v, "send", b, m)', Has(u, "send", b, m)'
        PROVE  v = u
    BY <2>6, <2>9 DEF WorkerInv
  <2>10. ASSUME NEW b \in Activities, NEW m \in Nat, WasSent(b, m)' PROVE Published("attempting", b, m)'
    BY <2>5, <2>10, PublishedStays DEF WorkerInv
  <2> QED BY <2>8, <2>9, <2>10 DEF WorkerInv
<1> QED BY <1>1, <1>2, <1>3

\* A send is the first one of its attempt.
LEMMA SendKeepsWorkers ==
  ASSUME Typed, WorkerInv, AttemptSentOnce, NEW w \in Workers, Send(w)
  PROVE  WorkerInv' /\ AttemptSentOnce'
<1> DEFINE a == worker[w].act  n == worker[w].n
<1>1. PICK ok \in BOOLEAN : /\ sent' = Append(sent, [act |-> a, n |-> n, ok |-> ok])
                            /\ Goto(w, IF ok THEN "sent" ELSE "failed")
                            /\ topic' = topic /\ At(w, "send")
  BY DEF Send
<1>2. a \in Activities /\ n \in Nat /\ Has(w, "send", a, n)
  BY <1>1 DEF Typed, At, Busy, Has
<1>3. Published("attempting", a, n) /\ ~WasSent(a, n)
  BY <1>2 DEF WorkerInv
<1> DEFINE r == [act |-> a, n |-> n, ok |-> ok]
<1>4. r \in [act : Activities, n : Nat, ok : BOOLEAN] /\ r.act = a /\ r.n = n
  BY <1>1, <1>2
<1>5. sent \in Seq([act : Activities, n : Nat, ok : BOOLEAN]) /\ Len(sent) \in Nat
  BY DEF Typed
<1>6. /\ Len(sent') = Len(sent) + 1 /\ \A i \in 1 .. Len(sent) : sent'[i] = sent[i]
      /\ sent'[Len(sent) + 1].act = a /\ sent'[Len(sent) + 1].n = n
  <2> HIDE DEF r
  <2>1. sent' = Append(sent, r)
    BY <1>1 DEF r
  <2>2. Len(sent') = Len(sent) + 1 /\ (\A i \in 1 .. Len(sent) : sent'[i] = sent[i]) /\ sent'[Len(sent) + 1] = r
    BY <1>4, <1>5, <2>1
  <2> QED BY <1>4, <2>2
<1>7. \A i \in 1 .. Len(sent') : i \in 1 .. Len(sent) \/ i = Len(sent) + 1
  BY <1>5, <1>6
<1>8. \A b \in Activities, m \in Nat : WasSent(b, m)' => WasSent(b, m) \/ (b = a /\ m = n)
  BY <1>6, <1>7 DEF WasSent
<1>9. \A v \in Workers, b \in Activities, m \in Nat, pc \in {"claim", "send", "dequeue", "forget"} :
         Has(v, pc, b, m)' => v # w /\ Has(v, pc, b, m)
  BY <1>1, OneGoes
<1>10. \A b \in Activities, m \in Nat : /\ MayClaim(b, m)' <=> MayClaim(b, m)
                                        /\ Published("attempting", b, m)' <=> Published("attempting", b, m)
                                        /\ Ended(b)' <=> Ended(b)
  <2>1. \A type, b, m : Published(type, b, m)' <=> Published(type, b, m)
    BY <1>1 DEF Published
  <2>2. \A b : AllEndedBefore(Len(topic) + 1, b)' <=> AllEndedBefore(Len(topic) + 1, b)
    BY <1>1 DEF AllEndedBefore, Is, Queued
  <2> QED BY <2>1, <2>2 DEF MayClaim, Ended
<1>11. WorkerInv'
  <2>1. ASSUME NEW v \in Workers, NEW b \in Activities, NEW m \in Nat
        PROVE  /\ Has(v, "claim", b, m)' => MayClaim(b, m)'
               /\ Has(v, "send", b, m)' => Published("attempting", b, m)' /\ ~WasSent(b, m)'
               /\ Has(v, "dequeue", b, m)' \/ Has(v, "forget", b, m)' => Ended(b)'
    <3>1. Has(v, "send", b, m)' => ~WasSent(b, m)'
      BY <1>2, <1>8, <1>9 DEF WorkerInv
    <3> QED BY <1>9, <1>10, <3>1 DEF WorkerInv
  <2>2. ASSUME NEW v \in Workers, NEW u \in Workers, NEW b \in Activities, NEW m \in Nat,
               Has(v, "send", b, m)', Has(u, "send", b, m)'
        PROVE  v = u
    BY <1>9, <2>2 DEF WorkerInv
  <2>3. ASSUME NEW b \in Activities, NEW m \in Nat, WasSent(b, m)' PROVE Published("attempting", b, m)'
    BY <1>3, <1>8, <1>10, <2>3 DEF WorkerInv
  <2> QED BY <2>1, <2>2, <2>3 DEF WorkerInv
<1>12. AttemptSentOnce'
  BY <1>3, <1>6, <1>7 DEF AttemptSentOnce, WasSent
<1> QED BY <1>11, <1>12
LEMMA WorkerStep ==
  ASSUME Typed, TopicInv, TableInv, WorkerInv, AttemptSentOnce,
         TopicInv', Grows, topic' \in Seq(Events), [Next]_vars
  PROVE  WorkerInv' /\ AttemptSentOnce'
<1>1. sent' = sent => AttemptSentOnce'
  BY DEF AttemptSentOnce
<1>2. CASE worker' = worker /\ sent' = sent
  <2>1. \A w \in Workers : \A pc, a, n : Has(w, pc, a, n)' => Has(w, pc, a, n)
    BY <1>2 DEF Has
  <2> QED BY <1>1, <1>2, <2>1, WorkersKept
<1>3. ASSUME NEW w \in Workers, Look(w), sent' = sent PROVE WorkerInv' /\ AttemptSentOnce'
  BY <1>1, <1>3, OneLooks, WorkersKept
<1>4. ASSUME NEW w \in Workers, NEW to \in {"idle", "retired"}, Goto(w, to), sent' = sent
      PROVE  WorkerInv' /\ AttemptSentOnce'
  <2>1. \A v \in Workers, pc \in {"claim", "send", "dequeue", "forget"} : \A a, n :
           Has(v, pc, a, n)' => Has(v, pc, a, n)
    BY <1>4, OneGoes
  <2> QED BY <1>1, <1>4, <2>1, WorkersKept
<1>5. ASSUME NEW w \in Workers, Claims(w) PROVE WorkerInv' /\ AttemptSentOnce'
  <2> DEFINE r == [pc |-> "claim", act |-> Head1, n |-> queue[Head1].attempt + 1]
  <2>1. worker' = [worker EXCEPT ![w] = r] /\ sent' = sent /\ HasHead
    BY <1>5 DEF Claims
  <2>2. MayClaim(Head1, queue[Head1].attempt + 1)
    BY <2>1, HeadMayBeClaimed
  <2>3. r.pc = "claim" /\ r.act = Head1 /\ r.n = queue[Head1].attempt + 1
    OBVIOUS
  <2> HIDE DEF r
  <2>4. ASSUME NEW v \in Workers, NEW a \in Activities, NEW n \in Nat
        PROVE  /\ Has(v, "claim", a, n)' => Has(v, "claim", a, n) \/ MayClaim(a, n)
               /\ Has(v, "send", a, n)' => Has(v, "send", a, n)
               /\ Has(v, "dequeue", a, n)' => Has(v, "dequeue", a, n)
               /\ Has(v, "forget", a, n)' => Has(v, "forget", a, n)
    <3>1. CASE v = w
      <4>1. worker'[v] = r
        BY <2>1, <3>1 DEF Typed
      <4> QED BY <2>2, <2>3, <4>1 DEF Has
    <3>2. CASE v # w
      <4>1. worker'[v] = worker[v]
        BY <2>1, <3>2 DEF Typed
      <4> QED BY <4>1 DEF Has
    <3> QED BY <3>1, <3>2
  <2> QED BY <1>1, <2>1, <2>4, WorkersKept
<1>6. ASSUME NEW w \in Workers, GivesUp(w) PROVE WorkerInv' /\ AttemptSentOnce'
  <2> DEFINE r == [pc |-> "give_up", act |-> Head1, n |-> queue[Head1].attempt]
  <2>1. worker' = [worker EXCEPT ![w] = r] /\ sent' = sent
    BY <1>6 DEF GivesUp
  <2>2. ASSUME NEW v \in Workers, NEW a \in Activities, NEW n \in Nat,
               NEW pc \in {"claim", "send", "dequeue", "forget"}
        PROVE  Has(v, pc, a, n)' => Has(v, pc, a, n)
    <3>1. worker'[v].pc = "give_up" \/ worker'[v] = worker[v]
      BY <2>1 DEF Typed
    <3> QED BY <3>1 DEF Has
  <2> QED BY <1>1, <2>1, <2>2, WorkersKept
<1>7. ASSUME NEW w \in Workers, ReportDone(w) \/ ReportGaveUp(w) PROVE WorkerInv' /\ AttemptSentOnce'
  <2> DEFINE a == worker[w].act
  <2>1. PICK type \in {"done", "gave_up"}, to \in {"dequeue", "forget"} :
           /\ Publish(type, a, 0) /\ Goto(w, to) /\ sent' = sent
           /\ At(w, "sent") \/ At(w, "give_up")
    BY <1>7 DEF ReportDone, ReportGaveUp
  <2>2. a \in Activities
    BY <2>1 DEF Typed, At, Busy
  <2>3. \A b \in Activities : b = a => Published(type, b, 0)'
    <3>1. CASE Published(type, a, 0)
      BY <3>1, PublishedStays
    <3>2. CASE ~Published(type, a, 0)
      <4>1. topic' = Append(topic, Event(type, a, 0)) /\ type \in Types
        BY <2>1, <3>2 DEF Publish, Types
      <4>2. /\ Len(topic) \in Nat /\ Len(topic') = Len(topic) + 1
            /\ topic'[Len(topic) + 1] = Event(type, a, 0)
        BY <2>2, <4>1, AppendFacts DEF Typed
      <4> QED BY <4>2 DEF Published, Event
    <3> QED BY <3>1, <3>2
  <2>4. \A b \in Activities : b = a => Ended(b)'
    BY <2>1, <2>3 DEF Ended
  <2>5. \A v \in Workers, b \in Activities, n \in Nat :
           /\ Has(v, "claim", b, n)' => Has(v, "claim", b, n)
           /\ Has(v, "send", b, n)' => Has(v, "send", b, n)
           /\ Has(v, "dequeue", b, n)' => Has(v, "dequeue", b, n) \/ b = a
           /\ Has(v, "forget", b, n)' => Has(v, "forget", b, n) \/ b = a
    BY <2>1, OneGoes
  <2> QED BY <1>1, <2>1, <2>4, <2>5, WorkersKept
<1>8. CASE Restart
  <2>1. \A v \in Workers, pc \in {"claim", "send", "dequeue", "forget"} : \A a, n : ~Has(v, pc, a, n)'
    BY <1>8 DEF Restart, Has, Off
  <2>2. sent' = sent
    BY <1>8 DEF Restart
  <2> QED BY <1>1, <2>1, <2>2, WorkersKept
<1>9. ASSUME NEW w \in Workers, Retire(w) \/ SeesNothing(w) PROVE WorkerInv' /\ AttemptSentOnce'
  BY <1>4, <1>9 DEF Retire, SeesNothing
<1>10. ASSUME NEW w \in Workers, ReportFailed(w) \/ Dequeue(w) \/ Idle(w) PROVE WorkerInv' /\ AttemptSentOnce'
  BY <1>3, <1>10 DEF ReportFailed, Dequeue, Idle
<1>11. ASSUME NEW w \in Workers, LookAgain(w) PROVE WorkerInv' /\ AttemptSentOnce'
  <2> DEFINE r == IF HasHead THEN Looking ELSE Off
  <2>1. worker' = [worker EXCEPT ![w] = r] /\ sent' = sent /\ r.pc \notin {"claim", "send", "dequeue", "forget"}
    BY <1>11 DEF LookAgain, Looking, Off
  <2>2. \A v \in Workers, pc \in {"claim", "send", "dequeue", "forget"} : \A a, n :
           Has(v, pc, a, n)' => Has(v, pc, a, n)
    BY <2>1, OneMoves
  <2> QED BY <1>1, <2>1, <2>2, WorkersKept
<1>12. ASSUME NEW w \in Workers, Claim(w) PROVE WorkerInv' /\ AttemptSentOnce'
  <2>1. sent' = sent
    BY <1>12 DEF Claim
  <2> QED BY <1>1, <1>12, <2>1, ClaimKeepsWorkers
<1>13. ASSUME NEW w \in Workers, Send(w) PROVE WorkerInv' /\ AttemptSentOnce'
  BY <1>13, SendKeepsWorkers
<1>14. CASE Apply \/ Start
  BY <1>2, <1>3, <1>14 DEF Apply, Start, Spawn
<1>15. CASE Tick \/ (\E a \in Activities : Queue(a)) \/ UNCHANGED vars
  BY <1>2, <1>15 DEF Tick, Queue, vars
<1> QED BY <1>5, <1>6, <1>7, <1>8, <1>9, <1>10, <1>11, <1>12, <1>13, <1>14, <1>15 DEF Next, Work

-----------------------------------------------------------------------------
(* The theorems. *)
LEMMA IInvInit == Init => IInv
<1> SUFFICES ASSUME Init PROVE IInv
  OBVIOUS
<1>1. topic = << >> /\ sent = << >> /\ queue = << >> /\ applied = 0 /\ worker = [w \in Workers |-> Off]
  BY DEF Init
<1>2. Typed
  BY CapIsNat DEF Init, Typed, Off, Pcs, Busy
<1>3. TopicInv
  BY <1>1 DEF TopicInv, Unnumbered, QueuedOnce, AttemptedWasQueued, AttemptsContiguous, InOrder
<1>4. TableInv
  BY <1>1 DEF TableInv, RowsPublished, RowsProjected, NothingMissing
<1>5. WorkerInv /\ AttemptSentOnce
  BY <1>1 DEF WorkerInv, AttemptSentOnce, WasSent, Has, Off
<1> QED BY <1>2, <1>3, <1>4, <1>5 DEF IInv

LEMMA IInvStep == IInv /\ [Next]_vars => IInv'
<1> SUFFICES ASSUME IInv, [Next]_vars PROVE IInv'
  OBVIOUS
<1>1. Typed /\ TopicInv /\ TableInv /\ WorkerInv /\ AttemptSentOnce /\ RowsPublished
  BY DEF IInv, TableInv
<1>2. TopicInv' /\ Grows /\ topic' \in Seq(Events)
  BY <1>1, TopicInvStep
<1>3. Typed' /\ TableInv'
  BY <1>1, <1>2, TypedStep, TableStep
<1>4. WorkerInv' /\ AttemptSentOnce'
  BY <1>1, <1>2, WorkerStep
<1> QED BY <1>2, <1>3, <1>4 DEF IInv

\* The invariant holds in every reachable state: the topic is in order, the table
\* follows it, and no worker is about to do what the topic rules out.
THEOREM DistributorInvariant == Spec => []IInv
BY IInvInit, IInvStep, PTL DEF Spec

\* Every variable keeps its type: rows name events of the topic by their position.
THEOREM DistributorTypeOK == Spec => []TypeOK
<1>1. ASSUME IInv PROVE TypeOK
  <2>1. Typed
    BY <1>1 DEF IInv
  <2>2. \A i \in 1 .. Len(topic) : topic[i] \in Events
    BY <2>1 DEF Typed
  <2>3. \A a \in DOMAIN queue :
           /\ queue[a].attempt \in Nat
           /\ {queue[a].attempt_at, queue[a].failed_at, queue[a].first_attempt_at} \subseteq 0 .. Len(topic)
    <3> TAKE a \in DOMAIN queue
    <3>1. queue[a] \in Rows
      BY <2>1 DEF Typed
    <3>2. Len(topic) \in Nat
      BY <2>1 DEF Typed
    <3> QED BY <2>1, <3>1, <3>2 DEF Typed, Rows
  <2>4. \A w \in Workers : worker[w].pc \in Pcs
    BY <2>1 DEF Typed
  <2> QED BY <2>1, <2>2, <2>3, <2>4 DEF TypeOK, Typed, Events, Types, Pcs
<1> QED BY <1>1, DistributorInvariant, PTL

\* Each attempt is sent at most once, however many workers compete and however often
\* the process restarts: the publish of "attempting" decides who sends.
THEOREM DistributorAttemptSentOnce == Spec => []AttemptSentOnce
<1>1. IInv => AttemptSentOnce
  BY DEF IInv
<1> QED BY <1>1, DistributorInvariant, PTL

\* Attempts are numbered without holes, although rows are read stale.
THEOREM DistributorAttemptsContiguous == Spec => []AttemptsContiguous
<1>1. IInv => AttemptsContiguous
  BY DEF IInv, TopicInv
<1> QED BY <1>1, DistributorInvariant, PTL

\* No delivery is started before every earlier one of its recipient has ended.
THEOREM DistributorFirstInFirstOut == Spec => []FirstInFirstOut
<1>1. ASSUME IInv PROVE FirstInFirstOut
  <2> SUFFICES ASSUME NEW i \in 1 .. Len(topic), topic[i].type = "attempting",
                      NEW k \in 1 .. QueuedAt(topic[i].act) - 1, topic[k].type = "queued"
               PROVE  \E j \in 1 .. i - 1 : /\ topic[j].type \in {"done", "gave_up"}
                                            /\ topic[j].act = topic[k].act
    BY DEF FirstInFirstOut
  <2>1. Published("queued", topic[i].act, 0) /\ AllEndedBefore(i, topic[i].act)
    BY <1>1 DEF IInv, TopicInv, AttemptedWasQueued, InOrder
  <2>2. QueuedAt(topic[i].act) \in 1 .. Len(topic) /\ Is(QueuedAt(topic[i].act), "queued", topic[i].act)
    BY <2>1 DEF QueuedAt, Published, Is
  <2> QED BY <2>1, <2>2 DEF AllEndedBefore, Queued
<1> QED BY <1>1, DistributorInvariant, PTL

-----------------------------------------------------------------------------
(***************************************************************************)
(* With prompt sends: whoever sends an attempt, or is about to report it,  *)
(* holds the last attempt, whose lease runs and of which no failure is     *)
(* published, so nobody else may claim the delivery.                       *)
(***************************************************************************)
Attempted(i, a, n) == topic[i].type = "attempting" /\ topic[i].act = a /\ topic[i].n = n
Sending == {"send", "sent", "failed"}
Sends(w, a, n) == worker[w].pc \in Sending /\ worker[w].act = a /\ worker[w].n = n

\* The attempts of a delivery: from the first, in their order, each after the delivery
\* was queued, and its failure, if it has one, before the next.
AttemptsClosed ==
    \A a, k : Published("attempting", a, k) => k >= 1 /\ \A m \in 1 .. k : Published("attempting", a, m)
AttemptsAscend ==
    \A i, j \in 1 .. Len(topic) :
       i < j /\ topic[i].type = "attempting" /\ Is(j, "attempting", topic[i].act) => topic[i].n < topic[j].n
FailedInTurn ==
    \A j \in 1 .. Len(topic) : topic[j].type = "failed" =>
       /\ \E i \in 1 .. j - 1 : Attempted(i, topic[j].act, topic[j].n)
       /\ \A i \in 1 .. j - 1 : Is(i, "attempting", topic[j].act) => topic[i].n <= topic[j].n
StartedInTurn ==
    \A j \in 1 .. Len(topic) :
       topic[j].type \in {"attempting", "done"} => \E q \in 1 .. j - 1 : Is(q, "queued", topic[j].act)
AttemptsInv == AttemptsClosed /\ AttemptsAscend /\ FailedInTurn /\ StartedInTurn

\* A row is of one attempt, the last up to the position of the projection.
RowTimed(a) ==
    /\ queue[a].attempt # 0 =>
          /\ queue[a].attempt_at \in 1 .. Len(topic) /\ Attempted(queue[a].attempt_at, a, queue[a].attempt)
          /\ queue[a].attempt_at <= applied + 1 /\ (phase = "rebuild" => queue[a].attempt_at <= applied)
    /\ queue[a].failed_at # 0 =>
          /\ queue[a].failed_at \in 1 .. Len(topic) /\ Is(queue[a].failed_at, "failed", a)
          /\ topic[queue[a].failed_at].n = queue[a].attempt
    /\ \A i \in 1 .. applied : Is(i, "attempting", a) => topic[i].n <= queue[a].attempt
RowsTimed == \A a \in DOMAIN queue : RowTimed(a)

\* The last attempt, under its lease.
LastAttempt(a, n) == Published("attempting", a, n) /\ \A k : Published("attempting", a, k) => k <= n
Held(a, n) ==
    /\ LastAttempt(a, n) /\ ~Published("failed", a, n)
    /\ \A i \in 1 .. Len(topic) : Attempted(i, a, n) => topic[i].age < LEASE
Overdue(a, n) ==
    \/ \E i \in 1 .. Len(topic) : Attempted(i, a, n) /\ topic[i].age >= LEASE
    \/ \E i \in 1 .. Len(topic) : Is(i, "failed", a) /\ topic[i].n = n /\ topic[i].age >= Backoff(n)
SendsHold == \A w \in Workers : \A a, n : Sends(w, a, n) => Held(a, n)
SendsAlone ==
    \A v, w \in Workers :
       worker[v].pc \in Sending /\ worker[w].pc \in Sending /\ worker[v].act = worker[w].act => v = w
ClaimsAreDue ==
    \A w \in Workers : worker[w].pc = "claim" /\ worker[w].n > 1 => Overdue(worker[w].act, worker[w].n - 1)
PromptInv == AttemptsInv /\ RowsTimed /\ SendsHold /\ SendsAlone /\ ClaimsAreDue

\* Without restarts, and with a projection that keeps up: what was delivered is done,
\* or about to be reported by the worker that sent it, and done is done.
Calm == PromptApply /\ restarts = 0
Unstarted ==
    phase = "rebuild" => (\A w \in Workers : worker[w] = Off) /\ \A i \in 1 .. Len(topic) : topic[i].type = "queued"
Done(a) == Published("done", a, 0)
SentIsReported ==
    \A i \in 1 .. Len(sent) :
       sent[i].ok => Done(sent[i].act) \/ \E w \in Workers : worker[w].pc = "sent" /\ worker[w].act = sent[i].act
DoneIsDone ==
    \A w \in Workers : Done(worker[w].act) =>
       worker[w].pc \notin Sending /\ (worker[w].pc = "claim" => Published("attempting", worker[w].act, worker[w].n))
DoneIsRemoved == \A a \in DOMAIN queue : \A j \in 1 .. applied : ~Is(j, "done", a)
DoneWasHeld == \A j \in 1 .. Len(topic) : topic[j].type = "done" /\ j > applied => \E n : Held(topic[j].act, n)
OkOnce == \A i, j \in 1 .. Len(sent) : i # j /\ sent[i].ok /\ sent[j].ok => sent[i].act # sent[j].act
CalmInv == Calm => Unstarted /\ SentIsReported /\ DoneIsDone /\ DoneIsRemoved /\ DoneWasHeld /\ OkOnce

-----------------------------------------------------------------------------
LEMMA LeaseIsTime == LEASE \in Nat /\ LEASE >= 1 /\ LEASE <= Cap /\ Cap \in Nat
BY DistributorAssumption DEF Cap, MaxOf

\* How an event that has been waited for is found again.
LEMMA Twice ==
  ASSUME Typed, AttemptsAscend, NEW a, NEW n, NEW i \in 1 .. Len(topic), NEW j \in 1 .. Len(topic), Attempted(i, a, n), Attempted(j, a, n)
  PROVE  i = j
<1>1. Len(topic) \in Nat /\ topic[i].n \in Nat /\ topic[j].n \in Nat
  <2>1. topic[i] \in Events /\ topic[j] \in Events /\ Len(topic) \in Nat
    BY DEF Typed
  <2> QED BY <2>1 DEF Events
<1>2. ~(i < j) /\ ~(j < i)
  BY <1>1 DEF AttemptsAscend, Attempted, Is
<1> QED BY <1>1, <1>2

\* An attempt that may be claimed and is not is later than all there are.
LEMMA NextIsLast ==
  ASSUME Typed, AttemptsClosed, NEW a, NEW n \in Nat, n >= 1, n > 1 => Published("attempting", a, n - 1), ~Published("attempting", a, n)
  PROVE  \A k : Published("attempting", a, k) => k \in Nat /\ k < n
<1> SUFFICES ASSUME NEW k, Published("attempting", a, k) PROVE k \in Nat /\ k < n
  OBVIOUS
<1>1. k \in Nat
  <2>1. PICK i \in 1 .. Len(topic) : topic[i].n = k
    BY DEF Published
  <2>2. topic[i] \in Events
    BY DEF Typed
  <2> QED BY <2>1, <2>2 DEF Events
<1>2. k >= 1 /\ \A m \in 1 .. k : Published("attempting", a, m)
  BY DEF AttemptsClosed
<1>3. ~(n \in 1 .. k)
  BY <1>2
<1> QED BY <1>1, <1>3

-----------------------------------------------------------------------------
(* The attempts. *)

\* What an append adds.
LEMMA AddedFacts ==
  ASSUME Typed, NEW type \in Types, NEW a \in Activities, NEW n \in Nat, Appends(type, a, n)
  PROVE  /\ Len(topic) \in Nat /\ Len(topic') = Len(topic) + 1 /\ Grows
         /\ \A i \in 1 .. Len(topic) : topic'[i] = topic[i]
         /\ topic'[Len(topic) + 1].type = type /\ topic'[Len(topic) + 1].act = a /\ topic'[Len(topic) + 1].n = n /\ topic'[Len(topic) + 1].age = 0
         /\ \A i \in 1 .. Len(topic') : i \in 1 .. Len(topic) \/ i = Len(topic) + 1
         /\ \A t, b, m : Published(t, b, m)' <=> (Published(t, b, m) \/ (t = type /\ b = a /\ m = n))
<1>1. /\ Len(topic) \in Nat /\ Len(topic') = Len(topic) + 1 /\ Grows
      /\ \A i \in 1 .. Len(topic) : topic'[i] = topic[i]
      /\ topic'[Len(topic) + 1].type = type /\ topic'[Len(topic) + 1].act = a /\ topic'[Len(topic) + 1].n = n /\ topic'[Len(topic) + 1].age = 0
  BY AppendFacts DEF Typed, Appends, Event
<1>2. \A i \in 1 .. Len(topic') : i \in 1 .. Len(topic) \/ i = Len(topic) + 1
  BY <1>1
<1>3. \A i \in 1 .. Len(topic) : i \in 1 .. Len(topic')
  BY <1>1
<1>4. Len(topic) + 1 \in 1 .. Len(topic')
  BY <1>1
<1>5. \A t, b, m : Published(t, b, m)' <=> (Published(t, b, m) \/ (t = type /\ b = a /\ m = n))
  BY <1>1, <1>2, <1>3, <1>4 DEF Published
<1> QED BY <1>1, <1>2, <1>5

LEMMA AgedFacts ==
  ASSUME Typed, Aged
  PROVE  /\ Len(topic) \in Nat /\ Len(topic') = Len(topic)
         /\ \A i \in 1 .. Len(topic) : topic'[i].type = topic[i].type /\ topic'[i].act = topic[i].act /\ topic'[i].n = topic[i].n
         /\ \A t, b, m : Published(t, b, m)' <=> Published(t, b, m)
<1>1. /\ Len(topic) \in Nat /\ Len(topic') = Len(topic)
      /\ \A i \in 1 .. Len(topic) : topic'[i].type = topic[i].type /\ topic'[i].act = topic[i].act /\ topic'[i].n = topic[i].n
  BY DEF Typed, Aged, Grows, Same
<1>2. \A t, b, m : Published(t, b, m)' <=> Published(t, b, m)
  BY <1>1 DEF Published
<1> QED BY <1>1, <1>2

LEMMA AgedAttempts ==
  ASSUME Typed, AttemptsInv, Aged
  PROVE  AttemptsInv'
<1>1. /\ Len(topic) \in Nat /\ Len(topic') = Len(topic)
      /\ \A i \in 1 .. Len(topic) : topic'[i].type = topic[i].type /\ topic'[i].act = topic[i].act /\ topic'[i].n = topic[i].n
      /\ \A t, b, m : Published(t, b, m)' <=> Published(t, b, m)
  BY AgedFacts
<1>2. AttemptsClosed'
  BY <1>1 DEF AttemptsInv, AttemptsClosed
<1>3. AttemptsAscend'
  BY <1>1 DEF AttemptsInv, AttemptsAscend, Is
<1>4. \A j \in 1 .. Len(topic) : \A i \in 1 .. j - 1 : i \in 1 .. Len(topic)
  BY <1>1
<1>5. FailedInTurn'
  BY <1>1, <1>4 DEF AttemptsInv, FailedInTurn, Attempted, Is
<1>6. StartedInTurn'
  BY <1>1, <1>4 DEF AttemptsInv, StartedInTurn, Is
<1> QED BY <1>2, <1>3, <1>5, <1>6 DEF AttemptsInv

\* What is published is a claim that may be made, a failure of the last attempt, or
\* the success of an attempt.
MayFollow(type, a, n) ==
  /\ type = "failed" => LastAttempt(a, n)
  /\ type = "done" => \E k : Published("attempting", a, k)

LEMMA AppendedAttempts ==
  ASSUME Typed, AttemptsInv, NEW type \in Types, NEW a \in Activities, NEW n \in Nat, Appends(type, a, n), MayFollow(type, a, n)
  PROVE  AttemptsInv'
<1> DEFINE L == Len(topic)
<1>1. /\ L \in Nat /\ Len(topic') = L + 1
      /\ \A i \in 1 .. L : topic'[i] = topic[i]
      /\ topic'[L + 1].type = type /\ topic'[L + 1].act = a /\ topic'[L + 1].n = n
      /\ \A i \in 1 .. Len(topic') : i \in 1 .. L \/ i = L + 1
      /\ \A t, b, m : Published(t, b, m)' <=> (Published(t, b, m) \/ (t = type /\ b = a /\ m = n))
  BY AddedFacts
<1>2. AttemptsClosed /\ AttemptsAscend /\ FailedInTurn /\ StartedInTurn
  BY DEF AttemptsInv
<1>3. type = "attempting" => n >= 1 /\ (n > 1 => Published("attempting", a, n - 1)) /\ ~Published("attempting", a, n) /\ Published("queued", a, 0)
  BY DEF Appends, MayClaim
<1>4. type = "attempting" => \A k : Published("attempting", a, k) => k \in Nat /\ k < n
  BY <1>2, <1>3, NextIsLast
<1> HIDE DEF L
<1>5. AttemptsClosed'
  <2> SUFFICES ASSUME NEW b, NEW k, Published("attempting", b, k)' PROVE k >= 1 /\ \A m \in 1 .. k : Published("attempting", b, m)'
    BY DEF AttemptsClosed
  <2>1. CASE Published("attempting", b, k)
    BY <1>1, <1>2, <2>1 DEF AttemptsClosed
  <2>2. CASE type = "attempting" /\ b = a /\ k = n
    <3>1. \A m \in 1 .. n : m = n \/ (n > 1 /\ m \in 1 .. n - 1)
      OBVIOUS
    <3>2. n > 1 => \A m \in 1 .. n - 1 : Published("attempting", a, m)
      BY <1>2, <1>3, <2>2 DEF AttemptsClosed
    <3> QED BY <1>1, <1>3, <2>2, <3>1, <3>2
  <2> QED BY <1>1, <2>1, <2>2
<1>6. AttemptsAscend'
  <2> SUFFICES ASSUME NEW i \in 1 .. Len(topic'), NEW j \in 1 .. Len(topic'), i < j, topic'[i].type = "attempting", Is(j, "attempting", topic[i].act)'
               PROVE  topic'[i].n < topic'[j].n
    BY DEF AttemptsAscend
  <2>1. i \in 1 .. L
    BY <1>1
  <2>2. CASE j \in 1 .. L
    BY <1>1, <1>2, <2>1, <2>2 DEF AttemptsAscend, Is, L
  <2>3. CASE j = L + 1
    <3>1. type = "attempting" /\ topic[i].act = a /\ topic[i].type = "attempting"
      BY <1>1, <2>1, <2>3 DEF Is
    <3>2. Published("attempting", a, topic[i].n)
      BY <2>1, <3>1 DEF Published, L
    <3> QED BY <1>1, <1>4, <2>1, <2>3, <3>1, <3>2
  <2> QED BY <1>1, <2>2, <2>3
<1>7. FailedInTurn'
  <2> SUFFICES ASSUME NEW j \in 1 .. Len(topic'), topic'[j].type = "failed"
               PROVE  /\ \E i \in 1 .. j - 1 : Attempted(i, topic[j].act, topic[j].n)'
                      /\ \A i \in 1 .. j - 1 : Is(i, "attempting", topic[j].act)' => topic'[i].n <= topic'[j].n
    BY DEF FailedInTurn
  <2>1. \A i \in 1 .. j - 1 : i \in 1 .. L
    BY <1>1
  <2>2. CASE j \in 1 .. L
    BY <1>1, <1>2, <2>1, <2>2 DEF FailedInTurn, Attempted, Is, L
  <2>3. CASE j = L + 1
    <3>1. type = "failed" /\ LastAttempt(a, n) /\ j - 1 = L
      BY <1>1, <2>3 DEF MayFollow
    <3>2. PICK i \in 1 .. L : Attempted(i, a, n)
      BY <3>1 DEF LastAttempt, Published, Attempted, L
    <3>3. \E m \in 1 .. j - 1 : Attempted(m, topic[j].act, topic[j].n)'
      BY <1>1, <2>3, <3>1, <3>2 DEF Attempted
    <3>4. ASSUME NEW m \in 1 .. j - 1, Is(m, "attempting", topic[j].act)' PROVE topic'[m].n <= topic'[j].n
      <4>1. m \in 1 .. L /\ topic[m].type = "attempting" /\ topic[m].act = a /\ topic'[m].n = topic[m].n /\ topic'[j].n = n
        BY <1>1, <2>1, <2>3, <3>4 DEF Is
      <4>2. Published("attempting", a, topic[m].n)
        BY <4>1 DEF Published, L
      <4> QED BY <3>1, <4>1, <4>2 DEF LastAttempt
    <3> QED BY <3>3, <3>4
  <2> QED BY <1>1, <2>2, <2>3
<1>8. StartedInTurn'
  <2> SUFFICES ASSUME NEW j \in 1 .. Len(topic'), topic'[j].type \in {"attempting", "done"}
               PROVE  \E q \in 1 .. j - 1 : Is(q, "queued", topic[j].act)'
    BY DEF StartedInTurn
  <2>1. \A i \in 1 .. j - 1 : i \in 1 .. L
    BY <1>1
  <2>2. CASE j \in 1 .. L
    BY <1>1, <1>2, <2>1, <2>2 DEF StartedInTurn, Is, L
  <2>3. CASE j = L + 1
    <3>1. type \in {"attempting", "done"} /\ topic'[j].act = a /\ j - 1 = L
      BY <1>1, <2>3
    <3>2. \E q \in 1 .. L : Is(q, "queued", a)
      <4>1. CASE type = "attempting"
        BY <1>3, <4>1 DEF Published, Is, L
      <4>2. CASE type = "done"
        <5>1. PICK k : Published("attempting", a, k)
          BY <4>2 DEF MayFollow
        <5>2. PICK i \in 1 .. L : Is(i, "attempting", a)
          BY <5>1 DEF Published, Is, L
        <5>3. PICK q \in 1 .. i - 1 : Is(q, "queued", a)
          BY <1>2, <5>2 DEF StartedInTurn, Is, L
        <5> QED BY <1>1, <5>2, <5>3
      <4> QED BY <3>1, <4>1, <4>2
    <3> QED BY <1>1, <3>1, <3>2 DEF Is
  <2> QED BY <1>1, <2>2, <2>3
<1> QED BY <1>5, <1>6, <1>7, <1>8 DEF AttemptsInv

-----------------------------------------------------------------------------
(* The rows. *)

\* Rows that are kept are of the same attempt.
LEMMA RowsKept ==
  ASSUME Typed, RowsTimed, Grows, Len(topic') \in Nat,
         \A a \in DOMAIN queue' : a \in DOMAIN queue /\ queue'[a] = queue[a],
         applied' \in 0 .. applied,
         \/ applied' = applied /\ phase' = phase
         \/ applied' + 1 >= applied /\ phase = "rebuild" /\ phase' = "live"
  PROVE  RowsTimed'
<1> SUFFICES ASSUME NEW a \in DOMAIN queue' PROVE RowTimed(a)'
  BY DEF RowsTimed
<1>1. /\ Len(topic) \in Nat /\ Len(topic) <= Len(topic') /\ applied \in Nat /\ applied <= Len(topic) /\ applied' \in Nat
      /\ \A i \in 1 .. Len(topic) : i \in 1 .. Len(topic') /\ topic'[i].type = topic[i].type /\ topic'[i].act = topic[i].act /\ topic'[i].n = topic[i].n
  BY DEF Typed, Grows, Same
<1>2. RowTimed(a) /\ queue'[a] = queue[a] /\ queue[a].attempt_at \in Nat
  <2>1. a \in DOMAIN queue /\ queue'[a] = queue[a]
    OBVIOUS
  <2>2. queue[a] \in Rows
    BY <2>1 DEF Typed
  <2> QED BY <2>1, <2>2 DEF RowsTimed, Rows
<1>a. PICK r : r = queue[a]
  OBVIOUS
<1>3. r.attempt # 0 => /\ r.attempt_at \in 1 .. Len(topic) /\ Attempted(r.attempt_at, a, r.attempt)
                       /\ r.attempt_at <= applied + 1 /\ (phase = "rebuild" => r.attempt_at <= applied)
  BY <1>2, <1>a DEF RowTimed
<1>4. r.failed_at # 0 => r.failed_at \in 1 .. Len(topic) /\ Is(r.failed_at, "failed", a) /\ topic[r.failed_at].n = r.attempt
  BY <1>2, <1>a DEF RowTimed
<1>5. \A i \in 1 .. applied : Is(i, "attempting", a) => topic[i].n <= r.attempt
  BY <1>2, <1>a DEF RowTimed
<1>6. r.attempt # 0 => r.attempt_at \in 1 .. Len(topic') /\ Attempted(r.attempt_at, a, r.attempt)'
  BY <1>1, <1>3 DEF Attempted
<1>7. r.attempt # 0 => r.attempt_at <= applied' + 1 /\ (phase' = "rebuild" => r.attempt_at <= applied')
  <2>1. r.attempt_at \in Nat
    BY <1>2, <1>a
  <2>2. CASE applied' = applied /\ phase' = phase
    BY <1>3, <2>2
  <2>3. CASE applied' + 1 >= applied /\ phase = "rebuild" /\ phase' = "live"
    <3>1. \A x, y, z \in Nat : x <= y /\ z + 1 >= y => x <= z + 1
      OBVIOUS
    <3>2. r.attempt # 0 => r.attempt_at <= applied
      BY <1>3, <2>3
    <3>3. r.attempt # 0 => r.attempt_at <= applied' + 1
      BY <1>1, <2>1, <2>3, <3>1, <3>2
    <3> QED BY <2>3, <3>3
  <2> QED BY <2>2, <2>3
<1>8. r.failed_at # 0 => r.failed_at \in 1 .. Len(topic') /\ Is(r.failed_at, "failed", a)' /\ topic'[r.failed_at].n = r.attempt
  BY <1>1, <1>4 DEF Is
<1>9. \A i \in 1 .. applied' : Is(i, "attempting", a)' => topic'[i].n <= r.attempt
  <2>1. \A i \in 1 .. applied' : i \in 1 .. applied /\ i \in 1 .. Len(topic)
    BY <1>1
  <2> QED BY <1>1, <1>5, <2>1 DEF Is
<1>10. queue'[a] = r
  BY <1>2, <1>a
<1> QED BY <1>6, <1>7, <1>8, <1>9, <1>10 DEF RowTimed

\* The projection of the next event.
LEMMA ApplyRows ==
  ASSUME Typed, TopicInv, AttemptsInv, RowsTimed, Apply
  PROVE  RowsTimed'
<1>a. PICK m : m = applied + 1
  OBVIOUS
<1>b. PICK e : e = topic[m]
  OBVIOUS
<1>1. /\ Len(topic) \in Nat /\ applied \in Nat /\ m \in 1 .. Len(topic) /\ m \in Nat /\ applied < m /\ m - 1 = applied
      /\ topic' = topic /\ applied' = m /\ phase' = phase /\ queue' = Project(queue, m)
  <2>1. applied < Len(topic) /\ topic' = topic /\ applied' = applied + 1 /\ phase' = phase /\ queue' = Project(queue, applied + 1)
    BY DEF Apply
  <2>2. Len(topic) \in Nat /\ applied \in Nat
    BY DEF Typed
  <2>3. m \in 1 .. Len(topic) /\ m \in Nat /\ applied < m /\ m - 1 = applied
    BY <1>a, <2>1, <2>2
  <2>4. queue' = Project(queue, m)
    BY <1>a, <2>1
  <2> QED BY <1>a, <2>1, <2>2, <2>3, <2>4
<1>2. e \in Events /\ e.type \in Types /\ e.act \in Activities /\ e.n \in Nat
  <2>1. e \in Events
    BY <1>1, <1>b DEF Typed
  <2> QED BY <2>1 DEF Events
<1>3. \A i \in 1 .. m : i \in 1 .. applied \/ i = m
  BY <1>1
<1>4. queue \in [DOMAIN queue -> Rows]
  BY DEF Typed
\* A row that the event is not about.
<1>5. ASSUME NEW a \in DOMAIN queue, queue'[a] = queue[a], ~Is(m, "attempting", a) PROVE RowTimed(a)'
  <2>a. PICK r : r = queue[a]
    OBVIOUS
  <2>1. RowTimed(a) /\ r.attempt_at \in Nat
    <3>1. queue[a] \in Rows
      BY <1>4
    <3> QED BY <2>a, <3>1 DEF RowsTimed, Rows
  <2>2. r.attempt # 0 => /\ r.attempt_at \in 1 .. Len(topic) /\ Attempted(r.attempt_at, a, r.attempt)
                         /\ r.attempt_at <= m /\ (phase = "rebuild" => r.attempt_at <= applied)
    BY <1>a, <2>1, <2>a DEF RowTimed
  <2>3. r.failed_at # 0 => r.failed_at \in 1 .. Len(topic) /\ Is(r.failed_at, "failed", a) /\ topic[r.failed_at].n = r.attempt
    BY <2>1, <2>a DEF RowTimed
  <2>4. \A i \in 1 .. applied : Is(i, "attempting", a) => topic[i].n <= r.attempt
    BY <2>1, <2>a DEF RowTimed
  <2>5. \A i \in 1 .. m : Is(i, "attempting", a) => topic[i].n <= r.attempt
    BY <1>3, <1>5, <2>4
  <2>6. r.attempt # 0 => r.attempt_at <= m + 1 /\ (phase = "rebuild" => r.attempt_at <= m)
    BY <1>1, <2>1, <2>2
  <2> QED BY <1>1, <1>5, <2>a, <2>2, <2>3, <2>5, <2>6 DEF RowTimed, Attempted, Is
<1>6. CASE e.type = "queued"
  <2>1. queue' = Enqueue(queue, e.act)
    BY <1>1, <1>6, <1>b DEF Project
  <2>2. \A a : ~Is(m, "attempting", a)
    BY <1>6, <1>b DEF Is
  <2>3. CASE e.act \in DOMAIN queue
    <3>1. queue' = queue
      BY <2>1, <2>3 DEF Enqueue
    <3> QED BY <1>5, <2>2, <3>1 DEF RowsTimed
  <2>4. CASE e.act \notin DOMAIN queue
    <3>1. DOMAIN queue' = DOMAIN queue \cup {e.act} /\ \A a \in DOMAIN queue : queue'[a] = queue[a]
      BY <2>1, <2>4 DEF Enqueue
    <3>2. queue'[e.act] = NewRow
      BY <2>1, <2>4 DEF Enqueue
    <3>3. ASSUME NEW i \in 1 .. m, Is(i, "attempting", e.act) PROVE FALSE
      <4>1. i \in 1 .. Len(topic) /\ topic[i].type = "attempting" /\ topic[i].act = e.act
        BY <1>1, <3>3 DEF Is
      <4>2. PICK q \in 1 .. i - 1 : Is(q, "queued", e.act)
        BY <4>1 DEF AttemptsInv, StartedInTurn
      <4>3. q = m
        <5>1. q \in 1 .. Len(topic) /\ Queued(q) /\ Queued(m) /\ topic[q].act = topic[m].act
          BY <1>1, <1>6, <1>b, <4>1, <4>2 DEF Is, Queued
        <5> QED BY <1>1, <5>1 DEF TopicInv, QueuedOnce
      <4> QED BY <1>1, <4>1, <4>2, <4>3
    <3>4. RowTimed(e.act)'
      <4>1. \A i \in 1 .. applied' : ~Is(i, "attempting", e.act)'
        BY <1>1, <3>3 DEF Is
      <4> QED BY <3>2, <4>1 DEF RowTimed, NewRow
    <3> QED BY <1>5, <2>2, <3>1, <3>4 DEF RowsTimed
  <2> QED BY <2>3, <2>4
<1>7. CASE e.type = "attempting"
  <2>1. queue' = MarkAttempting(queue, e.act, e.n, m)
    BY <1>1, <1>7, <1>b DEF Project
  <2>2. CASE e.act \notin DOMAIN queue
    <3>1. queue' = queue
      BY <2>1, <2>2 DEF MarkAttempting
    <3>2. \A a \in DOMAIN queue : ~Is(m, "attempting", a)
      BY <1>b, <2>2 DEF Is
    <3> QED BY <1>5, <3>1, <3>2 DEF RowsTimed
  <2>3. CASE e.act \in DOMAIN queue
    <3>1. DOMAIN queue' = DOMAIN queue /\ \A a \in DOMAIN queue : a # e.act => queue'[a] = queue[a]
      BY <2>1, <2>3 DEF MarkAttempting
    <3>2. queue'[e.act].attempt = e.n /\ queue'[e.act].attempt_at = m /\ queue'[e.act].failed_at = 0
      BY <2>1, <2>3 DEF MarkAttempting
    <3>3. \A a \in DOMAIN queue : a # e.act => ~Is(m, "attempting", a)
      BY <1>b DEF Is
    <3>4. Attempted(m, e.act, e.n) /\ Is(m, "attempting", e.act)
      BY <1>7, <1>b DEF Attempted, Is
    <3>5. \A i \in 1 .. m : Is(i, "attempting", e.act) => topic[i].n <= e.n
      <4> SUFFICES ASSUME NEW i \in 1 .. m, Is(i, "attempting", e.act) PROVE topic[i].n <= e.n
        OBVIOUS
      <4>1. i \in 1 .. Len(topic) /\ (i < m \/ i = m)
        BY <1>1
      <4>2. topic[i].n \in Nat
        <5>1. topic[i] \in Events
          BY <4>1 DEF Typed
        <5> QED BY <5>1 DEF Events
      <4>3. i < m => topic[i].n < topic[m].n
        <5>1. i < m => topic[i].type = "attempting" /\ Is(m, "attempting", topic[i].act)
          BY <3>4 DEF Is
        <5> QED BY <1>1, <4>1, <5>1 DEF AttemptsInv, AttemptsAscend
      <4> QED BY <1>2, <1>b, <4>1, <4>2, <4>3
    <3>6. RowTimed(e.act)'
      <4>1. m <= m + 1 /\ m <= m
        BY <1>1
      <4> QED BY <1>1, <3>2, <3>4, <3>5, <4>1 DEF RowTimed, Attempted, Is
    <3> QED BY <1>5, <3>1, <3>3, <3>6 DEF RowsTimed
  <2> QED BY <2>2, <2>3
<1>8. CASE e.type = "failed"
  <2>1. queue' = MarkFailed(queue, e.act, m)
    BY <1>1, <1>8, <1>b DEF Project
  <2>2. \A a : ~Is(m, "attempting", a)
    BY <1>8, <1>b DEF Is
  <2>3. CASE e.act \notin DOMAIN queue
    <3>1. queue' = queue
      BY <2>1, <2>3 DEF MarkFailed
    <3> QED BY <1>5, <2>2, <3>1 DEF RowsTimed
  <2>4. CASE e.act \in DOMAIN queue
    <3>a. PICK r : r = queue[e.act]
      OBVIOUS
    <3>1. DOMAIN queue' = DOMAIN queue /\ \A a \in DOMAIN queue : a # e.act => queue'[a] = queue[a]
      BY <2>1, <2>4 DEF MarkFailed
    <3>2. queue'[e.act].attempt = r.attempt /\ queue'[e.act].attempt_at = r.attempt_at /\ queue'[e.act].failed_at = m
      <4>1. r \in Rows
        BY <1>4, <2>4, <3>a
      <4> QED BY <2>1, <2>4, <3>a, <4>1 DEF MarkFailed, Rows
    <3>3. RowTimed(e.act) /\ r.attempt_at \in Nat /\ r.attempt \in Nat
      <4>1. queue[e.act] \in Rows
        BY <1>4, <2>4
      <4> QED BY <2>4, <3>a, <4>1 DEF RowsTimed, Rows
    <3>4. r.attempt # 0 => /\ r.attempt_at \in 1 .. Len(topic) /\ Attempted(r.attempt_at, e.act, r.attempt)
                           /\ r.attempt_at <= m /\ (phase = "rebuild" => r.attempt_at <= applied)
      BY <1>a, <3>3, <3>a DEF RowTimed
    <3>5. \A i \in 1 .. applied : Is(i, "attempting", e.act) => topic[i].n <= r.attempt
      BY <3>3, <3>a DEF RowTimed
    <3>6. topic[m].type = "failed" /\ topic[m].act = e.act /\ topic[m].n = e.n
      BY <1>8, <1>b
    <3>7. PICK i \in 1 .. m - 1 : Attempted(i, e.act, e.n)
      BY <1>1, <3>6 DEF AttemptsInv, FailedInTurn
    <3>8. e.n >= 1 /\ e.n <= r.attempt
      <4>1. i \in 1 .. applied /\ i \in 1 .. Len(topic)
        BY <1>1
      <4>2. Published("attempting", e.act, e.n)
        BY <3>7, <4>1 DEF Published, Attempted
      <4>3. e.n >= 1
        BY <4>2 DEF AttemptsInv, AttemptsClosed
      <4>4. e.n <= r.attempt
        BY <3>5, <3>7, <4>1 DEF Attempted, Is
      <4> QED BY <4>3, <4>4
    <3>9. r.attempt # 0 /\ r.attempt_at \in 1 .. m - 1
      <4>1. r.attempt # 0
        BY <1>2, <3>3, <3>8
      <4>2. r.attempt_at # m
        BY <3>4, <3>6, <4>1 DEF Attempted
      <4> QED BY <1>1, <3>4, <4>1, <4>2
    <3>10. r.attempt = e.n
      <4>1. r.attempt <= e.n
        BY <1>1, <3>4, <3>6, <3>9 DEF AttemptsInv, FailedInTurn, Attempted, Is
      <4> QED BY <1>2, <3>3, <3>8, <4>1
    <3>11. \A j \in 1 .. m : Is(j, "attempting", e.act) => topic[j].n <= r.attempt
      BY <1>3, <2>2, <3>5
    <3>12. r.attempt_at <= m + 1 /\ (phase = "rebuild" => r.attempt_at <= m)
      BY <1>1, <3>3, <3>9
    <3>13. m # 0
      BY <1>1
    <3>14. RowTimed(e.act)'
      BY <1>1, <3>2, <3>4, <3>6, <3>10, <3>11, <3>12 DEF RowTimed, Attempted, Is
    <3> QED BY <1>5, <2>2, <3>1, <3>14 DEF RowsTimed
  <2> QED BY <2>3, <2>4
<1>9. CASE e.type \in {"done", "gave_up"}
  <2>1. queue' = Without(queue, e.act)
    BY <1>1, <1>9, <1>b DEF Project
  <2>2. \A a \in DOMAIN queue' : a \in DOMAIN queue /\ queue'[a] = queue[a]
    BY <2>1 DEF Without
  <2>3. \A a : ~Is(m, "attempting", a)
    BY <1>9, <1>b DEF Is
  <2> QED BY <1>5, <2>2, <2>3 DEF RowsTimed
<1> QED BY <1>2, <1>6, <1>7, <1>8, <1>9 DEF Types

-----------------------------------------------------------------------------
(* What a step does to the topic and to the senders. *)
Publishes(type, a, n) == Appends(type, a, n) /\ MayFollow(type, a, n)

\* A worker that sends, or is about to report, did so before.
NoNewSends ==
    \A v \in Workers : worker'[v].pc \in Sending =>
       worker[v].pc \in Sending /\ worker'[v].act = worker[v].act /\ worker'[v].n = worker[v].n
NoNewClaims ==
    \A v \in Workers : worker'[v].pc = "claim" =>
       worker[v].pc = "claim" /\ worker'[v].act = worker[v].act /\ worker'[v].n = worker[v].n

\* The claim that is won.
Wins(w) == Claim(w) /\ Appends("attempting", worker[w].act, worker[w].n) /\ Goto(w, "send")

LEMMA SenderTyped ==
  ASSUME Typed, NEW w \in Workers, worker[w].pc \in {"claim", "send", "sent", "failed", "give_up"}
  PROVE  worker[w].act \in Activities /\ worker[w].n \in Nat
BY DEF Typed, Busy

LEMMA ClaimEffect ==
  ASSUME Typed, WorkerInv, NEW w \in Workers, Claim(w)
  PROVE  Wins(w) \/ (topic' = topic /\ Look(w))
<1>1. At(w, "claim") /\ Publish("attempting", worker[w].act, worker[w].n)
  BY DEF Claim
<1>2. worker[w].act \in Activities /\ worker[w].n \in Nat
  BY <1>1, SenderTyped DEF At
<1>3. MayClaim(worker[w].act, worker[w].n)
  BY <1>1, <1>2 DEF WorkerInv, Has, At
<1>4. CASE Published("attempting", worker[w].act, worker[w].n)
  BY <1>1, <1>4 DEF Claim, Publish
<1>5. CASE ~Published("attempting", worker[w].act, worker[w].n)
  <2>1. Goto(w, "send")
    BY <1>5 DEF Claim
  <2>2. Appends("attempting", worker[w].act, worker[w].n)
    BY <1>1, <1>3, <1>5 DEF Publish, Appends
  <2> QED BY <2>1, <2>2 DEF Wins
<1> QED BY <1>4, <1>5

LEMMA DoneEffect ==
  ASSUME Typed, SendsHold, NEW w \in Workers, ReportDone(w)
  PROVE  topic' = topic \/ Publishes("done", worker[w].act, 0)
<1>1. At(w, "sent") /\ Publish("done", worker[w].act, 0)
  BY DEF ReportDone
<1>2. worker[w].act \in Activities
  BY <1>1, SenderTyped DEF At
<1>3. Held(worker[w].act, worker[w].n)
  BY <1>1 DEF SendsHold, Sends, At, Sending
<1>4. Published("attempting", worker[w].act, worker[w].n)
  BY <1>3 DEF Held, LastAttempt
<1> QED BY <1>1, <1>4 DEF Publish, Publishes, Appends, MayFollow

LEMMA FailedEffect ==
  ASSUME Typed, SendsHold, NEW w \in Workers, ReportFailed(w)
  PROVE  topic' = topic \/ Publishes("failed", worker[w].act, worker[w].n)
<1>1. At(w, "failed") /\ Publish("failed", worker[w].act, worker[w].n)
  BY DEF ReportFailed
<1>2. Held(worker[w].act, worker[w].n)
  BY <1>1 DEF SendsHold, Sends, At, Sending
<1> QED BY <1>1, <1>2 DEF Publish, Publishes, Appends, MayFollow, Held

\* Every step leaves the topic, lets time pass, or publishes.
LEMMA PromptTopicStep ==
  ASSUME Typed, WorkerInv, SendsHold, [Next]_vars
  PROVE  \/ topic' = topic
         \/ Tick
         \/ \E a \in Activities, type \in {"queued", "gave_up", "done"} : Publishes(type, a, 0)
         \/ \E w \in Workers : ReportFailed(w) /\ Publishes("failed", worker[w].act, worker[w].n)
         \/ \E w \in Workers : Wins(w)
<1>1. ASSUME NEW a \in Activities, Queue(a) PROVE topic' = topic \/ Publishes("queued", a, 0)
  BY <1>1 DEF Queue, Publish, Publishes, Appends, MayFollow
<1>2. ASSUME NEW w \in Workers, ReportGaveUp(w) PROVE worker[w].act \in Activities /\ (topic' = topic \/ Publishes("gave_up", worker[w].act, 0))
  <2>1. At(w, "give_up") /\ Publish("gave_up", worker[w].act, 0)
    BY <1>2 DEF ReportGaveUp
  <2>2. worker[w].act \in Activities
    BY <2>1, SenderTyped DEF At
  <2> QED BY <2>1, <2>2 DEF Publish, Publishes, Appends, MayFollow
<1>3. ASSUME NEW w \in Workers, ReportDone(w) PROVE worker[w].act \in Activities /\ (topic' = topic \/ Publishes("done", worker[w].act, 0))
  <2>1. worker[w].act \in Activities
    BY <1>3, SenderTyped DEF ReportDone, At
  <2> QED BY <1>3, <2>1, DoneEffect
<1>4. CASE Apply \/ Start \/ Restart \/ UNCHANGED vars
  BY <1>4 DEF Apply, Start, Restart, vars
<1>5. ASSUME NEW w \in Workers, Claims(w) \/ GivesUp(w) \/ SeesNothing(w) \/ Idle(w) \/ LookAgain(w) \/ Send(w) \/ Dequeue(w) \/ Retire(w)
      PROVE  topic' = topic
  BY <1>5 DEF Claims, GivesUp, SeesNothing, Idle, LookAgain, Send, Dequeue, Retire
<1>6. ASSUME NEW w \in Workers, ReportFailed(w) PROVE topic' = topic \/ Publishes("failed", worker[w].act, worker[w].n)
  BY <1>6, FailedEffect
<1>7. ASSUME NEW w \in Workers, Claim(w) PROVE topic' = topic \/ Wins(w)
  BY <1>7, ClaimEffect
<1> QED BY <1>1, <1>2, <1>3, <1>4, <1>5, <1>6, <1>7 DEF Next, Work

\* Every step keeps the attempts in their order.
LEMMA AttemptsStep ==
  ASSUME Typed, WorkerInv, SendsHold, AttemptsInv, [Next]_vars
  PROVE  AttemptsInv'
<1>1. CASE topic' = topic
  <2>1. \A t, b, m : Published(t, b, m)' <=> Published(t, b, m)
    BY <1>1 DEF Published
  <2> QED BY <1>1, <2>1 DEF AttemptsInv, AttemptsClosed, AttemptsAscend, FailedInTurn, StartedInTurn, Attempted, Is
<1>2. CASE Tick
  BY <1>2, TickAges, AgedAttempts
<1>3. ASSUME NEW a \in Activities, NEW type \in {"queued", "gave_up", "done"}, Publishes(type, a, 0) PROVE AttemptsInv'
  <2>1. type \in Types
    BY DEF Types
  <2> QED BY <1>3, <2>1, AppendedAttempts DEF Publishes
<1>4. ASSUME NEW w \in Workers, ReportFailed(w), Publishes("failed", worker[w].act, worker[w].n) PROVE AttemptsInv'
  <2>1. worker[w].act \in Activities /\ worker[w].n \in Nat
    BY <1>4, SenderTyped DEF ReportFailed, At
  <2> QED BY <1>4, <2>1, AppendedAttempts DEF Types, Publishes
<1>5. ASSUME NEW w \in Workers, Wins(w) PROVE AttemptsInv'
  <2>1. worker[w].act \in Activities /\ worker[w].n \in Nat
    BY <1>5, SenderTyped DEF Wins, Claim, At
  <2>2. MayFollow("attempting", worker[w].act, worker[w].n)
    BY DEF MayFollow
  <2> QED BY <1>5, <2>1, <2>2, AppendedAttempts DEF Types, Wins
<1> QED BY <1>1, <1>2, <1>3, <1>4, <1>5, PromptTopicStep

\* Every step keeps the rows true to the topic.
LEMMA RowsStep ==
  ASSUME Typed, TopicInv, AttemptsInv, RowsTimed, Typed', Grows, [Next]_vars
  PROVE  RowsTimed'
<1>1. /\ applied \in 0 .. Len(topic) /\ head_pos \in 0 .. Len(topic) /\ Len(topic) \in Nat /\ Len(topic') \in Nat
      /\ phase \in {"rebuild", "live"}
  BY DEF Typed
<1>2. applied \in 0 .. applied
  BY <1>1
<1>3. CASE queue' = queue /\ applied' = applied /\ phase' = phase
  BY <1>1, <1>2, <1>3, RowsKept
<1>4. CASE Apply
  BY <1>4, ApplyRows
<1>5. CASE Start
  <2>1. phase = "rebuild" /\ phase' = "live" /\ queue' = queue /\ head_pos <= applied
        /\ applied' \in {applied} \cup (IF applied > head_pos THEN {applied - 1} ELSE {})
    BY <1>1, <1>5 DEF Start
  <2>2. applied' = applied \/ (applied' = applied - 1 /\ applied > head_pos)
    BY <2>1
  <2>3. applied' \in 0 .. applied /\ applied' + 1 >= applied
    BY <1>1, <2>2
  <2> QED BY <1>1, <2>1, <2>3, RowsKept
<1>6. CASE Restart
  BY <1>6 DEF Restart, RowsTimed
<1>7. ASSUME NEW w \in Workers, Dequeue(w) PROVE RowsTimed'
  <2>1. queue' = Without(queue, worker[w].act) /\ applied' = applied /\ phase' = phase
    BY <1>7 DEF Dequeue
  <2>2. \A a \in DOMAIN queue' : a \in DOMAIN queue /\ queue'[a] = queue[a]
    BY <2>1 DEF Without
  <2> QED BY <1>1, <1>2, <2>1, <2>2, RowsKept
<1>8. ASSUME NEW w \in Workers, Work(w) \/ Retire(w), ~Dequeue(w) PROVE queue' = queue /\ applied' = applied /\ phase' = phase
  BY <1>8 DEF Work, Claims, GivesUp, SeesNothing, Idle, LookAgain, Claim, Send, ReportDone, ReportFailed, ReportGaveUp, Retire
<1>9. CASE Tick \/ (\E a \in Activities : Queue(a)) \/ UNCHANGED vars
  BY <1>3, <1>9 DEF Tick, Queue, vars
<1> QED BY <1>3, <1>4, <1>5, <1>6, <1>7, <1>8, <1>9 DEF Next

-----------------------------------------------------------------------------
(* The last attempt under its lease. *)

\* It stays so until another attempt or its failure is published, or time passes.
LEMMA HeldKept ==
  ASSUME Typed, NEW a, NEW n, Held(a, n), NEW type \in Types, NEW b \in Activities, NEW m \in Nat, Appends(type, b, m),
         ~(b = a /\ type \in {"attempting", "failed"})
  PROVE  Held(a, n)'
<1>1. /\ Len(topic) \in Nat /\ Len(topic') = Len(topic) + 1
      /\ \A i \in 1 .. Len(topic) : topic'[i] = topic[i]
      /\ topic'[Len(topic) + 1].type = type /\ topic'[Len(topic) + 1].act = b
      /\ \A i \in 1 .. Len(topic') : i \in 1 .. Len(topic) \/ i = Len(topic) + 1
      /\ \A t, c, k : Published(t, c, k)' <=> (Published(t, c, k) \/ (t = type /\ c = b /\ k = m))
  BY AddedFacts
<1>2. LastAttempt(a, n)'
  BY <1>1 DEF Held, LastAttempt
<1>3. ~Published("failed", a, n)'
  BY <1>1 DEF Held
<1>4. \A i \in 1 .. Len(topic') : Attempted(i, a, n)' => i \in 1 .. Len(topic) /\ Attempted(i, a, n) /\ topic'[i] = topic[i]
  BY <1>1 DEF Attempted
<1>5. \A i \in 1 .. Len(topic') : Attempted(i, a, n)' => topic'[i].age < LEASE
  BY <1>4 DEF Held
<1> QED BY <1>2, <1>3, <1>5 DEF Held

LEMMA HeldStays ==
  ASSUME NEW a, NEW n, Held(a, n), topic' = topic
  PROVE  Held(a, n)'
BY DEF Held, LastAttempt, Published, Attempted

\* The attempt that is claimed.
LEMMA WonIsHeld ==
  ASSUME Typed, AttemptsInv, FailedInTurn, NEW w \in Workers, Wins(w)
  PROVE  Held(worker[w].act, worker[w].n)'
<1>a. PICK a, n : a = worker[w].act /\ n = worker[w].n
  OBVIOUS
<1>1. a \in Activities /\ n \in Nat /\ Appends("attempting", a, n)
  BY <1>a, SenderTyped DEF Wins, Claim, At
<1>2. worker'[w].act = a /\ worker'[w].n = n
  <2>1. worker' = [worker EXCEPT ![w].pc = "send"]
    BY DEF Wins, Goto
  <2> QED BY <1>a, <2>1 DEF Typed
<1>3. n >= 1 /\ (n > 1 => Published("attempting", a, n - 1)) /\ ~Published("attempting", a, n)
  BY <1>1 DEF Appends, MayClaim
<1>4. \A k : Published("attempting", a, k) => k \in Nat /\ k < n
  BY <1>1, <1>3, NextIsLast DEF AttemptsInv
<1>5. /\ Len(topic) \in Nat /\ Len(topic') = Len(topic) + 1
      /\ \A i \in 1 .. Len(topic) : topic'[i] = topic[i]
      /\ topic'[Len(topic) + 1].age = 0
      /\ \A i \in 1 .. Len(topic') : i \in 1 .. Len(topic) \/ i = Len(topic) + 1
      /\ \A t, c, k : Published(t, c, k)' <=> (Published(t, c, k) \/ (t = "attempting" /\ c = a /\ k = n))
  BY <1>1, AddedFacts DEF Types
<1>6. LastAttempt(a, n)'
  <2>1. Published("attempting", a, n)'
    BY <1>5
  <2>2. ASSUME NEW k, Published("attempting", a, k)' PROVE k <= n
    <3>1. Published("attempting", a, k) \/ k = n
      BY <1>5, <2>2
    <3> QED BY <1>1, <1>4, <3>1
  <2> QED BY <2>1, <2>2 DEF LastAttempt
<1>7. ~Published("failed", a, n)'
  <2> SUFFICES ASSUME Published("failed", a, n) PROVE FALSE
    BY <1>5
  <2>1. PICK j \in 1 .. Len(topic) : topic[j].type = "failed" /\ topic[j].act = a /\ topic[j].n = n
    BY DEF Published
  <2>2. PICK i \in 1 .. j - 1 : Attempted(i, a, n)
    BY <2>1 DEF FailedInTurn
  <2>3. i \in 1 .. Len(topic)
    BY <1>5, <2>2
  <2> QED BY <1>3, <2>2, <2>3 DEF Attempted, Published
<1>8. \A i \in 1 .. Len(topic') : Attempted(i, a, n)' => topic'[i].age < LEASE
  <2> SUFFICES ASSUME NEW i \in 1 .. Len(topic'), Attempted(i, a, n)' PROVE topic'[i].age < LEASE
    OBVIOUS
  <2>1. CASE i \in 1 .. Len(topic)
    BY <1>3, <1>5, <2>1 DEF Attempted, Published
  <2>2. CASE i = Len(topic) + 1
    BY <1>5, <2>2, LeaseIsTime
  <2> QED BY <1>5, <2>1, <2>2
<1>9. Held(a, n)'
  BY <1>6, <1>7, <1>8 DEF Held
<1>10. \A x, y : x = a /\ y = n => (Held(x, y)' <=> Held(a, n)')
  OBVIOUS
<1> QED BY <1>2, <1>9, <1>10 DEF Held, LastAttempt, Published, Attempted

\* Time passes while a send is prompt.
LEMMA TickHolds ==
  ASSUME Typed, AttemptsInv, Tick, PromptSend, NEW w \in Workers, NEW a, NEW n, Sends(w, a, n), Held(a, n)
  PROVE  Held(a, n)'
<1>1. /\ Len(topic) \in Nat /\ Len(topic') = Len(topic)
      /\ \A i \in 1 .. Len(topic) : topic'[i].type = topic[i].type /\ topic'[i].act = topic[i].act /\ topic'[i].n = topic[i].n
      /\ \A t, b, m : Published(t, b, m)' <=> Published(t, b, m)
  BY TickAges, AgedFacts
<1>2. LastAttempt(a, n)' /\ ~Published("failed", a, n)'
  BY <1>1 DEF Held, LastAttempt
<1>3. AgeOf(ClaimPos(w)) + 1 < LEASE
  BY DEF Tick, Sends, Sending, Holding
<1>4. PICK i \in 1 .. Len(topic) : Attempted(i, a, n)
  BY DEF Held, LastAttempt, Published, Attempted
<1>5. ClaimPos(w) \in 1 .. Len(topic) /\ Attempted(ClaimPos(w), a, n)
  BY <1>4 DEF ClaimPos, Sends, Attempted
<1>6. ASSUME NEW j \in 1 .. Len(topic'), Attempted(j, a, n)' PROVE topic'[j].age < LEASE
  <2>1. j \in 1 .. Len(topic) /\ Attempted(j, a, n)
    BY <1>1, <1>6 DEF Attempted
  <2>2. j = ClaimPos(w)
    BY <1>5, <2>1, Twice DEF AttemptsInv
  <2>3. topic[j].age + 1 < LEASE
    BY <1>3, <2>2 DEF AgeOf
  <2>4. topic[j] \in Events
    BY <2>1 DEF Typed
  <2>5. topic'[j] = Older(topic[j])
    BY <2>1 DEF Tick
  <2>6. topic'[j].age = MinOf(topic[j].age + 1, Cap)
    BY <2>1, <2>4, <2>5 DEF Older, Attempted, Events
  <2>7. topic[j].age \in Nat
    BY <2>4 DEF Events
  <2> QED BY <2>3, <2>6, <2>7, LeaseIsTime DEF MinOf
<1> QED BY <1>2, <1>6 DEF Held

-----------------------------------------------------------------------------
(* What is overdue. *)

\* Ages only grow, so what is overdue stays so.
LEMMA AgesGrow ==
  ASSUME Typed, WorkerInv, SendsHold, [Next]_vars
  PROVE  \A i \in 1 .. Len(topic) : i \in 1 .. Len(topic') /\ Same(topic'[i], topic[i]) /\ topic[i].age \in 0 .. Cap /\ topic'[i].age \in 0 .. Cap
                                    /\ topic[i].age <= topic'[i].age
<1> SUFFICES ASSUME NEW i \in 1 .. Len(topic)
             PROVE  i \in 1 .. Len(topic') /\ Same(topic'[i], topic[i]) /\ topic[i].age \in 0 .. Cap /\ topic'[i].age \in 0 .. Cap
                    /\ topic[i].age <= topic'[i].age
  OBVIOUS
<1>1. topic[i] \in Events
  BY DEF Typed
<1>2. topic[i].age \in 0 .. Cap /\ topic[i].age <= topic[i].age
  BY <1>1, CapIsNat DEF Events
<1>3. CASE topic' = topic
  BY <1>2, <1>3 DEF Same
<1>4. CASE Tick
  <2>1. topic'[i] = Older(topic[i]) /\ Len(topic') = Len(topic)
    BY <1>4, TickAges DEF Tick, Aged
  <2>2. topic'[i].age = topic[i].age \/ topic'[i].age = MinOf(topic[i].age + 1, Cap)
    BY <1>1, <2>1 DEF Older, Events
  <2>3. Same(topic'[i], topic[i])
    BY <1>4, TickAges DEF Aged, Grows
  <2> QED BY <1>2, <2>1, <2>2, <2>3, CapIsNat DEF MinOf
<1>5. ASSUME NEW type \in Types, NEW b \in Activities, NEW m \in Nat, Appends(type, b, m)
      PROVE  i \in 1 .. Len(topic') /\ Same(topic'[i], topic[i]) /\ topic'[i].age = topic[i].age
  BY <1>5, AddedFacts DEF Same
<1>6. ASSUME NEW b \in Activities, NEW type \in {"queued", "gave_up", "done"}, Publishes(type, b, 0)
      PROVE  i \in 1 .. Len(topic') /\ Same(topic'[i], topic[i]) /\ topic'[i].age = topic[i].age
  BY <1>5, <1>6 DEF Publishes, Types
<1>7. ASSUME NEW w \in Workers, ReportFailed(w), Publishes("failed", worker[w].act, worker[w].n)
      PROVE  i \in 1 .. Len(topic') /\ Same(topic'[i], topic[i]) /\ topic'[i].age = topic[i].age
  <2>1. worker[w].act \in Activities /\ worker[w].n \in Nat
    BY <1>7, SenderTyped DEF ReportFailed, At
  <2> QED BY <1>5, <1>7, <2>1 DEF Publishes, Types
<1>8. ASSUME NEW w \in Workers, Wins(w)
      PROVE  i \in 1 .. Len(topic') /\ Same(topic'[i], topic[i]) /\ topic'[i].age = topic[i].age
  <2>1. worker[w].act \in Activities /\ worker[w].n \in Nat
    BY <1>8, SenderTyped DEF Wins, Claim, At
  <2> QED BY <1>5, <1>8, <2>1 DEF Wins, Types
<1> QED BY <1>2, <1>3, <1>4, <1>6, <1>7, <1>8, PromptTopicStep

LEMMA OverdueStays ==
  ASSUME Typed, WorkerInv, SendsHold, [Next]_vars, NEW a, NEW n \in Nat, n >= 1, Overdue(a, n)
  PROVE  Overdue(a, n)'
<1>1. \A i \in 1 .. Len(topic) : i \in 1 .. Len(topic') /\ Same(topic'[i], topic[i]) /\ topic[i].age \in 0 .. Cap /\ topic'[i].age \in 0 .. Cap
                                 /\ topic[i].age <= topic'[i].age
  BY AgesGrow
<1>2. Cap \in Nat /\ LEASE \in Nat
  BY LeaseIsTime
<1>3. Backoff(n) \in Int
  <2>1. INITIAL_RETRY * 2 ^ (n - 1) \in Int
    BY DistributorAssumption
  <2> QED BY <2>1, DistributorAssumption DEF Backoff, MinOf
<1>4. CASE \E i \in 1 .. Len(topic) : Attempted(i, a, n) /\ topic[i].age >= LEASE
  <2>1. PICK i \in 1 .. Len(topic) : Attempted(i, a, n) /\ topic[i].age >= LEASE
    BY <1>4
  <2>2. i \in 1 .. Len(topic') /\ Attempted(i, a, n)' /\ topic'[i].age >= LEASE
    BY <1>1, <1>2, <2>1 DEF Attempted, Same
  <2> QED BY <2>2 DEF Overdue
<1>5. CASE \E i \in 1 .. Len(topic) : Is(i, "failed", a) /\ topic[i].n = n /\ topic[i].age >= Backoff(n)
  <2>a. PICK d : d = Backoff(n)
    OBVIOUS
  <2>1. PICK i \in 1 .. Len(topic) : Is(i, "failed", a) /\ topic[i].n = n /\ topic[i].age >= d
    BY <1>5, <2>a
  <2>2. i \in 1 .. Len(topic') /\ Is(i, "failed", a)' /\ topic'[i].n = n /\ topic'[i].age >= d
    BY <1>1, <1>2, <1>3, <2>a, <2>1 DEF Is, Same
  <2> QED BY <2>a, <2>2 DEF Overdue
<1> QED BY <1>4, <1>5 DEF Overdue

\* What the head of the table says: the attempt of the row that may be followed.
LEMMA ClaimIsDue ==
  ASSUME Typed, RowsTimed, NEW a \in DOMAIN queue, Decide(queue[a]) = "claim", queue[a].attempt # 0
  PROVE  Overdue(a, queue[a].attempt)
<1>a. PICK r : r = queue[a]
  OBVIOUS
<1>1. r \in Rows
  BY <1>a DEF Typed
<1>2. /\ r.attempt_at \in 1 .. Len(topic) /\ Attempted(r.attempt_at, a, r.attempt)
      /\ r.failed_at # 0 => r.failed_at \in 1 .. Len(topic) /\ Is(r.failed_at, "failed", a) /\ topic[r.failed_at].n = r.attempt
  BY <1>a DEF RowsTimed, RowTimed
<1>3. Len(topic) \in Nat /\ r.attempt_at # 0
  BY <1>2 DEF Typed
<1>4. (r.failed_at # 0 => Due(r)) /\ (r.failed_at = 0 => ~Leased(r))
  BY <1>a DEF Decide
<1>5. CASE r.failed_at # 0
  <2>1. topic[r.failed_at].age >= Backoff(r.attempt)
    BY <1>4, <1>5 DEF Due, AgeOf
  <2> QED BY <1>a, <1>2, <1>5, <2>1 DEF Overdue
<1>6. CASE r.failed_at = 0
  <2>1. ~(topic[r.attempt_at].age < LEASE)
    BY <1>3, <1>4, <1>6 DEF Leased, AgeOf
  <2>2. topic[r.attempt_at] \in Events
    BY <1>2 DEF Typed
  <2>3. topic[r.attempt_at].age >= LEASE
    BY <2>1, <2>2, LeaseIsTime DEF Events
  <2> QED BY <1>a, <1>2, <2>3 DEF Overdue
<1> QED BY <1>5, <1>6

-----------------------------------------------------------------------------
(* The workers. *)
Others(w) == \A v \in Workers : v # w => worker'[v] = worker[v]
Quiet(pc) == pc \notin Sending /\ pc # "claim"

LEMMA OneChanges ==
  ASSUME Typed, NEW w \in Workers, NEW r, worker' = [worker EXCEPT ![w] = r]
  PROVE  worker'[w] = r /\ Others(w)
BY DEF Typed, Others

LEMMA OneSteps ==
  ASSUME Typed, NEW w \in Workers, NEW pc, Goto(w, pc)
  PROVE  worker'[w].pc = pc /\ worker'[w].act = worker[w].act /\ worker'[w].n = worker[w].n /\ Others(w)
BY DEF Typed, Others, Goto

\* A worker that ends up neither sending nor claiming is no new sender and no new claimer.
LEMMA QuietMove ==
  ASSUME NEW w \in Workers, Others(w), Quiet(worker'[w].pc)
  PROVE  NoNewSends /\ NoNewClaims
<1>1. ASSUME NEW v \in Workers PROVE v = w \/ worker'[v] = worker[v]
  BY DEF Others
<1> QED BY <1>1 DEF NoNewSends, NoNewClaims, Quiet

\* Senders come from claims that are won, claims from the head of the table.
LEMMA WorkersMove ==
  ASSUME Typed, WorkerInv, [Next]_vars
  PROVE  /\ NoNewSends \/ \E w \in Workers : Wins(w)
         /\ NoNewClaims \/ \E w \in Workers : Claims(w)
<1>1. CASE worker' = worker
  BY <1>1 DEF NoNewSends, NoNewClaims
<1>2. Quiet(Off.pc) /\ Quiet(Looking.pc) /\ Quiet("idle") /\ Quiet("retired") /\ Quiet("dequeue") /\ Quiet("forget") /\ Quiet("give_up")
  BY DEF Quiet, Off, Looking, Sending
<1>3. ASSUME NEW w \in Workers, Look(w) PROVE NoNewSends /\ NoNewClaims
  <2>1. worker'[w] = Looking /\ Others(w)
    BY <1>3, OneChanges DEF Look
  <2> QED BY <1>2, <2>1, QuietMove
<1>4. ASSUME NEW w \in Workers, NEW pc, Goto(w, pc), Quiet(pc) PROVE NoNewSends /\ NoNewClaims
  BY <1>4, OneSteps, QuietMove
<1>5. ASSUME NEW w \in Workers, Claims(w) PROVE NoNewSends
  <2>1. worker'[w].pc = "claim" /\ Others(w)
    <3> DEFINE r == [pc |-> "claim", act |-> Head1, n |-> queue[Head1].attempt + 1]
    <3>1. worker' = [worker EXCEPT ![w] = r]
      BY <1>5 DEF Claims
    <3>2. r.pc = "claim"
      OBVIOUS
    <3> HIDE DEF r
    <3> QED BY <3>1, <3>2, OneChanges
  <2>2. ASSUME NEW v \in Workers PROVE v = w \/ worker'[v] = worker[v]
    BY <2>1 DEF Others
  <2> QED BY <2>1, <2>2 DEF NoNewSends, Sending
<1>6. ASSUME NEW w \in Workers, GivesUp(w) PROVE NoNewSends /\ NoNewClaims
  <2> DEFINE r == [pc |-> "give_up", act |-> Head1, n |-> queue[Head1].attempt]
  <2>1. worker' = [worker EXCEPT ![w] = r]
    BY <1>6 DEF GivesUp
  <2>2. r.pc = "give_up"
    OBVIOUS
  <2> HIDE DEF r
  <2>3. worker'[w].pc = "give_up" /\ Others(w)
    BY <2>1, <2>2, OneChanges
  <2> QED BY <1>2, <2>3, QuietMove
<1>7. ASSUME NEW w \in Workers, LookAgain(w) PROVE NoNewSends /\ NoNewClaims
  <2>1. (worker'[w] = Looking \/ worker'[w] = Off) /\ Others(w)
    BY <1>7, OneChanges DEF LookAgain
  <2> QED BY <1>2, <2>1, QuietMove
<1>8. ASSUME NEW w \in Workers, Claim(w) PROVE NoNewClaims /\ (NoNewSends \/ Wins(w))
  <2>1. CASE Look(w)
    BY <1>3, <2>1
  <2>2. CASE Wins(w)
    <3>1. worker'[w].pc = "send" /\ Others(w)
      BY <2>2, OneSteps DEF Wins
    <3>2. ASSUME NEW v \in Workers PROVE v = w \/ worker'[v] = worker[v]
      BY <3>1 DEF Others
    <3> QED BY <2>2, <3>1, <3>2 DEF NoNewClaims
  <2> QED BY <1>8, <2>1, <2>2, ClaimEffect
<1>9. ASSUME NEW w \in Workers, Send(w) PROVE NoNewSends /\ NoNewClaims
  <2>1. PICK pc \in {"sent", "failed"} : Goto(w, pc)
    BY <1>9 DEF Send
  <2>2. worker'[w].pc = pc /\ worker'[w].act = worker[w].act /\ worker'[w].n = worker[w].n /\ Others(w)
    BY <2>1, OneSteps
  <2>3. worker[w].pc = "send"
    BY <1>9 DEF Send, At
  <2>4. ASSUME NEW v \in Workers PROVE v = w \/ worker'[v] = worker[v]
    BY <2>2 DEF Others
  <2> QED BY <2>2, <2>3, <2>4 DEF NoNewSends, NoNewClaims, Sending
<1>10. CASE Restart
  BY <1>2, <1>10 DEF Restart, NoNewSends, NoNewClaims, Quiet
<1>11. CASE Apply \/ Start
  BY <1>1, <1>3, <1>11 DEF Apply, Start, Spawn
<1>12. CASE Tick \/ (\E a \in Activities : Queue(a)) \/ UNCHANGED vars
  BY <1>1, <1>12 DEF Tick, Queue, vars
<1>13. ASSUME NEW w \in Workers, Retire(w) \/ SeesNothing(w) \/ ReportDone(w) \/ ReportGaveUp(w) PROVE NoNewSends /\ NoNewClaims
  BY <1>2, <1>4, <1>13 DEF Retire, SeesNothing, ReportDone, ReportGaveUp
<1>14. ASSUME NEW w \in Workers, Idle(w) \/ ReportFailed(w) \/ Dequeue(w) PROVE NoNewSends /\ NoNewClaims
  BY <1>3, <1>14 DEF Idle, ReportFailed, Dequeue
<1>15. ASSUME NEW w \in Workers, Claims(w) PROVE NoNewSends /\ \E v \in Workers : Claims(v)
  BY <1>5, <1>15
<1>16. ASSUME NEW w \in Workers, Claim(w) PROVE NoNewClaims /\ (NoNewSends \/ \E v \in Workers : Wins(v))
  BY <1>8, <1>16
<1> QED BY <1>6, <1>7, <1>9, <1>10, <1>11, <1>12, <1>13, <1>14, <1>15, <1>16 DEF Next, Work

-----------------------------------------------------------------------------
(* Who sends holds its attempt, alone. *)

\* What is held is not overdue.
LEMMA HeldIsNotDue ==
  ASSUME Typed, NEW a, NEW k, Held(a, k), Overdue(a, k)
  PROVE  FALSE
<1>1. CASE \E i \in 1 .. Len(topic) : Attempted(i, a, k) /\ topic[i].age >= LEASE
  <2>1. PICK i \in 1 .. Len(topic) : Attempted(i, a, k) /\ topic[i].age >= LEASE
    BY <1>1
  <2>2. topic[i] \in Events
    BY <2>1 DEF Typed
  <2>3. topic[i].age < LEASE
    BY <2>1 DEF Held
  <2> QED BY <2>1, <2>2, <2>3, LeaseIsTime DEF Events
<1>2. CASE \E i \in 1 .. Len(topic) : Is(i, "failed", a) /\ topic[i].n = k /\ topic[i].age >= Backoff(k)
  BY <1>2 DEF Held, Is, Published
<1> QED BY <1>1, <1>2 DEF Overdue

\* A claim that is still to be made is lost as long as an attempt is held.
LEMMA HeldIsTaken ==
  ASSUME Typed, WorkerInv, AttemptsInv, ClaimsAreDue, NEW w \in Workers, worker[w].pc = "claim", NEW k, Held(worker[w].act, k)
  PROVE  Published("attempting", worker[w].act, worker[w].n)
<1>a. PICK a, n : a = worker[w].act /\ n = worker[w].n
  OBVIOUS
<1> SUFFICES ASSUME ~Published("attempting", a, n) PROVE FALSE
  BY <1>a
<1>1. a \in Activities /\ n \in Nat
  BY <1>a, SenderTyped
<1>2. n >= 1 /\ (n > 1 => Published("attempting", a, n - 1)) /\ Held(a, k)
  BY <1>a, <1>1 DEF WorkerInv, Has, MayClaim
<1>3. \A m : Published("attempting", a, m) => m \in Nat /\ m < n
  BY <1>1, <1>2, NextIsLast DEF AttemptsInv
<1>5. Published("attempting", a, k) /\ \A m : Published("attempting", a, m) => m <= k
  BY <1>2 DEF Held, LastAttempt
<1>6. k \in Nat /\ k < n /\ k >= 1
  BY <1>3, <1>5 DEF AttemptsInv, AttemptsClosed
<1>7. n > 1
  BY <1>1, <1>6
<1>8. n - 1 <= k
  BY <1>2, <1>5, <1>7
<1>9. k = n - 1
  BY <1>1, <1>6, <1>8
<1>10. Overdue(a, k)
  BY <1>a, <1>7, <1>9 DEF ClaimsAreDue
<1> QED BY <1>2, <1>10, HeldIsNotDue

\* A claim that is won is of a delivery that nobody sends.
LEMMA WonAlone ==
  ASSUME Typed, WorkerInv, AttemptsInv, SendsHold, ClaimsAreDue, NEW w \in Workers, Wins(w), NEW v \in Workers, worker[v].pc \in Sending
  PROVE  worker[v].act # worker[w].act
<1>1. worker[w].pc = "claim" /\ ~Published("attempting", worker[w].act, worker[w].n)
  BY DEF Wins, Claim, At, Appends
<1>2. Held(worker[v].act, worker[v].n)
  BY DEF SendsHold, Sends
<1> QED BY <1>1, <1>2, HeldIsTaken

\* Every step keeps the senders holding their attempts, alone.
LEMMA SendsStep ==
  ASSUME Typed, WorkerInv, AttemptsInv, SendsHold, SendsAlone, ClaimsAreDue, PromptSend, [Next]_vars
  PROVE  SendsHold' /\ SendsAlone'
<1>1. ASSUME NEW w \in Workers, Wins(w) PROVE SendsHold' /\ SendsAlone'
  <2>1. worker'[w].act = worker[w].act /\ worker'[w].n = worker[w].n /\ Others(w)
    BY <1>1, OneSteps DEF Wins
  <2>2. worker[w].act \in Activities /\ worker[w].n \in Nat /\ Appends("attempting", worker[w].act, worker[w].n)
    BY <1>1, SenderTyped DEF Wins, Claim, At
  <2>3. ASSUME NEW v \in Workers, v # w, worker'[v].pc \in Sending
        PROVE  worker'[v] = worker[v] /\ worker'[v].act # worker'[w].act
    BY <1>1, <2>1, <2>3, WonAlone DEF Others
  <2>4. ASSUME NEW v \in Workers, NEW a, NEW n, Sends(v, a, n)' PROVE Held(a, n)'
    <3>1. CASE v = w
      <4>1. a = worker[w].act /\ n = worker[w].n
        BY <2>1, <2>4, <3>1 DEF Sends
      <4>2. Held(worker[w].act, worker[w].n)'
        BY <1>1, WonIsHeld DEF AttemptsInv
      <4>3. a = worker'[w].act /\ n = worker'[w].n
        BY <2>1, <4>1
      <4> QED BY <4>2, <4>3
    <3>2. CASE v # w
      <4>1. worker'[v] = worker[v] /\ worker'[v].act # worker'[w].act
        BY <2>3, <2>4, <3>2 DEF Sends
      <4>2. Sends(v, a, n) /\ a # worker[w].act
        BY <2>1, <2>4, <4>1 DEF Sends
      <4>3. Held(a, n)
        BY <4>2 DEF SendsHold
      <4> QED BY <2>2, <4>2, <4>3, HeldKept DEF Types
    <3> QED BY <3>1, <3>2
  <2> QED BY <2>3, <2>4 DEF SendsHold, SendsAlone
<1>2. ASSUME NoNewSends PROVE SendsAlone'
  BY <1>2 DEF NoNewSends, SendsAlone
<1>3. ASSUME NoNewSends, NEW v \in Workers, NEW a, NEW n, Sends(v, a, n)' PROVE Sends(v, a, n) /\ Held(a, n)
  <2>1. Sends(v, a, n)
    BY <1>3 DEF NoNewSends, Sends
  <2> QED BY <2>1 DEF SendsHold
<1>4. ASSUME NoNewSends, topic' = topic PROVE SendsHold'
  BY <1>3, <1>4, HeldStays DEF SendsHold
<1>5. ASSUME NoNewSends, Tick PROVE SendsHold'
  BY <1>3, <1>5, TickHolds DEF SendsHold
<1>6. ASSUME NoNewSends, NEW b \in Activities, NEW type \in {"queued", "gave_up", "done"}, Publishes(type, b, 0) PROVE SendsHold'
  <2>1. type \in Types /\ type \notin {"attempting", "failed"} /\ Appends(type, b, 0)
    BY <1>6 DEF Types, Publishes
  <2> QED BY <1>3, <1>6, <2>1, HeldKept DEF SendsHold
<1>7. ASSUME NEW w \in Workers, ReportFailed(w), Publishes("failed", worker[w].act, worker[w].n), NoNewSends PROVE SendsHold'
  <2>1. worker[w].act \in Activities /\ worker[w].n \in Nat /\ worker[w].pc \in Sending
    BY <1>7, SenderTyped DEF ReportFailed, At, Sending
  <2>2. ASSUME NEW v \in Workers, NEW a, NEW n, Sends(v, a, n)' PROVE Held(a, n)'
    <3>1. Sends(v, a, n) /\ Held(a, n)
      BY <1>3, <1>7, <2>2
    <3>2. v # w
      <4>1. worker'[w].pc = "look"
        <5>1. worker'[w] = Looking
          BY <1>7, OneChanges DEF ReportFailed, Look
        <5>2. Looking.pc = "look"
          BY DEF Looking, Off
        <5> QED BY <5>1, <5>2
      <4> QED BY <2>2, <4>1 DEF Sends, Sending
    <3>3. worker[w].act # a
      BY <2>1, <3>1, <3>2 DEF SendsAlone, Sends
    <3> QED BY <1>7, <2>1, <3>1, <3>3, HeldKept DEF Types, Publishes
  <2> QED BY <2>2 DEF SendsHold
<1>8. NoNewSends => SendsHold' \/ \E w \in Workers : Wins(w)
  BY <1>4, <1>5, <1>6, <1>7, PromptTopicStep
<1> QED BY <1>1, <1>2, <1>8, WorkersMove

\* What is about to be claimed stays due, and what begins to be is.
LEMMA ClaimsStep ==
  ASSUME Typed, TopicInv, TableInv, WorkerInv, RowsTimed, SendsHold, ClaimsAreDue, [Next]_vars
  PROVE  ClaimsAreDue'
<1> SUFFICES ASSUME NEW v \in Workers, worker'[v].pc = "claim", worker'[v].n > 1 PROVE Overdue(worker[v].act, worker[v].n - 1)'
  BY DEF ClaimsAreDue
<1>a. PICK a, n : a = worker'[v].act /\ n = worker'[v].n
  OBVIOUS
<1>1. ASSUME Overdue(a, n - 1)' PROVE Overdue(worker[v].act, worker[v].n - 1)'
  BY <1>1, <1>a DEF Overdue, Attempted, Is
<1>2. CASE worker[v].pc = "claim" /\ worker[v].act = a /\ worker[v].n = n
  <2>1. n \in Nat
    BY <1>2, SenderTyped
  <2>2. n > 1 /\ n - 1 \in Nat /\ n - 1 >= 1
    BY <1>a, <2>1
  <2>3. Overdue(a, n - 1)
    BY <1>2, <2>2 DEF ClaimsAreDue
  <2>4. Overdue(a, n - 1)'
    BY <2>2, <2>3, OverdueStays
  <2> QED BY <1>1, <2>4
<1>3. ASSUME NEW w \in Workers, Claims(w), v = w PROVE Overdue(a, n - 1)'
  <2> DEFINE r == [pc |-> "claim", act |-> Head1, n |-> queue[Head1].attempt + 1]
  <2>1. worker' = [worker EXCEPT ![w] = r] /\ HasHead /\ Decide(queue[Head1]) = "claim" /\ topic' = topic
    BY <1>3 DEF Claims
  <2>2. r.act = Head1 /\ r.n = queue[Head1].attempt + 1
    OBVIOUS
  <2> HIDE DEF r
  <2>3. worker'[w] = r
    BY <2>1, OneChanges
  <2>4. Head1 \in DOMAIN queue
    BY <2>1, HeadIsFirst DEF TableInv
  <2>5. queue[Head1].attempt \in Nat
    <3>1. queue[Head1] \in Rows
      BY <2>4 DEF Typed
    <3> QED BY <3>1 DEF Rows
  <2>6. a = Head1 /\ n - 1 = queue[Head1].attempt /\ queue[Head1].attempt # 0
    BY <1>3, <1>a, <2>2, <2>3, <2>5
  <2>7. Overdue(a, n - 1)
    BY <2>1, <2>4, <2>6, ClaimIsDue
  <2> QED BY <2>1, <2>7 DEF Overdue, Attempted, Is
<1>4. ASSUME NEW w \in Workers, Claims(w), v # w PROVE worker[v].pc = "claim" /\ worker[v].act = a /\ worker[v].n = n
  <2>1. worker'[v] = worker[v]
    BY <1>4, OneChanges DEF Claims, Others
  <2> QED BY <1>a, <2>1
<1>5. ASSUME NoNewClaims PROVE worker[v].pc = "claim" /\ worker[v].act = a /\ worker[v].n = n
  BY <1>5, <1>a DEF NoNewClaims
<1> QED BY <1>1, <1>2, <1>3, <1>4, <1>5, WorkersMove

-----------------------------------------------------------------------------
\* What a step publishes as a next attempt was due.
RetriesAreDue ==
    \A a \in Activities, n \in 1 .. Len(topic) :
       ~Published("attempting", a, n + 1) /\ Published("attempting", a, n + 1)' => Overdue(a, n)

\* An attempt that appears was about to be claimed.
LEMMA RetriesStep ==
  ASSUME Typed, WorkerInv, SendsHold, ClaimsAreDue, [Next]_vars
  PROVE  RetriesAreDue
<1> SUFFICES ASSUME NEW a \in Activities, NEW n \in 1 .. Len(topic), ~Published("attempting", a, n + 1), Published("attempting", a, n + 1)'
             PROVE  Overdue(a, n)
  BY DEF RetriesAreDue
<1>1. CASE topic' = topic
  BY <1>1 DEF Published
<1>2. CASE Tick
  BY <1>2, TickAges, AgedFacts
<1>3. ASSUME NEW b \in Activities, NEW type \in {"queued", "gave_up", "done"}, Publishes(type, b, 0) PROVE FALSE
  <2>1. type \in Types /\ type # "attempting" /\ Appends(type, b, 0)
    BY <1>3 DEF Types, Publishes
  <2>2. \A t, c, m : Published(t, c, m)' <=> (Published(t, c, m) \/ (t = type /\ c = b /\ m = 0))
    BY <2>1, AddedFacts
  <2> QED BY <2>1, <2>2
<1>4. ASSUME NEW w \in Workers, ReportFailed(w), Publishes("failed", worker[w].act, worker[w].n) PROVE FALSE
  <2>1. worker[w].act \in Activities /\ worker[w].n \in Nat /\ Appends("failed", worker[w].act, worker[w].n)
    BY <1>4, SenderTyped DEF ReportFailed, At, Publishes
  <2>2. \A t, c, m : Published(t, c, m)' <=> (Published(t, c, m) \/ (t = "failed" /\ c = worker[w].act /\ m = worker[w].n))
    BY <2>1, AddedFacts DEF Types
  <2> QED BY <2>2
<1>5. ASSUME NEW w \in Workers, Wins(w) PROVE Overdue(a, n)
  <2>1. worker[w].act \in Activities /\ worker[w].n \in Nat /\ Appends("attempting", worker[w].act, worker[w].n) /\ worker[w].pc = "claim"
    BY <1>5, SenderTyped DEF Wins, Claim, At
  <2>2. \A t, c, m : Published(t, c, m)' <=> (Published(t, c, m) \/ (t = "attempting" /\ c = worker[w].act /\ m = worker[w].n))
    BY <2>1, AddedFacts DEF Types
  <2>3. worker[w].act = a /\ worker[w].n = n + 1
    BY <2>2
  <2>4. worker[w].n > 1 /\ worker[w].n - 1 = n
    BY <2>3
  <2> QED BY <2>1, <2>3, <2>4 DEF ClaimsAreDue
<1> QED BY <1>1, <1>2, <1>3, <1>4, <1>5, PromptTopicStep

LEMMA PromptStep ==
  ASSUME IInv, PromptInv, PromptSend, [Next]_vars
  PROVE  PromptInv' /\ RetriesAreDue
<1>1. Typed /\ TopicInv /\ TableInv /\ WorkerInv /\ AttemptsInv /\ RowsTimed /\ SendsHold /\ SendsAlone /\ ClaimsAreDue
  BY DEF IInv, PromptInv
<1>2. Grows /\ Typed'
  <2>1. Grows
    BY <1>1, TopicInvStep
  <2>2. IInv'
    BY IInvStep
  <2> QED BY <2>1, <2>2 DEF IInv
<1>3. AttemptsInv' /\ RowsTimed'
  BY <1>1, <1>2, AttemptsStep, RowsStep
<1>4. SendsHold' /\ SendsAlone' /\ ClaimsAreDue' /\ RetriesAreDue
  BY <1>1, SendsStep, ClaimsStep, RetriesStep
<1> QED BY <1>3, <1>4 DEF PromptInv

LEMMA PromptInit == Init => PromptInv
<1> SUFFICES ASSUME Init PROVE PromptInv
  OBVIOUS
<1>1. topic = << >> /\ queue = << >> /\ worker = [w \in Workers |-> Off]
  BY DEF Init
<1>2. AttemptsInv
  BY <1>1 DEF AttemptsInv, AttemptsClosed, AttemptsAscend, FailedInTurn, StartedInTurn, Published
<1>3. \A w \in Workers : worker[w].pc = "off"
  BY <1>1 DEF Off
<1> QED BY <1>1, <1>2, <1>3 DEF PromptInv, RowsTimed, SendsHold, Sends, Sending, SendsAlone, ClaimsAreDue

-----------------------------------------------------------------------------
(* What was delivered is done. *)

\* A row of a delivery that is done, and that the projection has still to remove, is
\* stale: its attempt is under its lease, or an old one.
LEMMA DoneIsNotClaimed ==
  ASSUME Typed, TopicInv, RowsPublished, AttemptsInv, RowsTimed, DoneIsRemoved, DoneWasHeld,
         NEW a \in DOMAIN queue, Done(a), Decide(queue[a]) = "claim"
  PROVE  Published("attempting", a, queue[a].attempt + 1)
<1>a. PICK k : k = queue[a].attempt
  OBVIOUS
<1>1. k \in Nat
  <2>1. queue[a] \in Rows
    BY DEF Typed
  <2> QED BY <1>a, <2>1 DEF Rows
<1>2. PICK j \in 1 .. Len(topic) : topic[j].type = "done" /\ topic[j].act = a
  BY DEF Done, Published
<1>3. Len(topic) \in Nat /\ applied \in Nat
  BY DEF Typed
<1>4. j > applied
  BY <1>2, <1>3 DEF DoneIsRemoved, Is
<1>5. PICK n : Held(a, n)
  BY <1>2, <1>4 DEF DoneWasHeld
<1>6. Published("attempting", a, n) /\ \A m : Published("attempting", a, m) => m <= n
  BY <1>5 DEF Held, LastAttempt
<1>7. n \in Nat /\ n >= 1 /\ \A m \in 1 .. n : Published("attempting", a, m)
  <2>1. PICK i \in 1 .. Len(topic) : topic[i].n = n
    BY <1>6 DEF Published
  <2>2. topic[i] \in Events
    BY <2>1 DEF Typed
  <2> QED BY <1>6, <2>1, <2>2 DEF Events, AttemptsInv, AttemptsClosed
<1>8. k # 0 => k < n
  <2> SUFFICES ASSUME k # 0 PROVE k < n
    OBVIOUS
  <2>1. k <= n
    BY <1>a, <1>6 DEF RowsPublished
  <2>2. Overdue(a, k)
    BY <1>a, ClaimIsDue
  <2>3. k # n
    BY <1>5, <2>2, HeldIsNotDue
  <2> QED BY <1>1, <1>7, <2>1, <2>3
<1>9. k + 1 \in 1 .. n
  BY <1>1, <1>7, <1>8
<1> QED BY <1>a, <1>7, <1>9

-----------------------------------------------------------------------------
(* The steps, without a restart. *)

\* What becomes done is what the worker that sent it reports.
LEMMA NewlyDone ==
  ASSUME Typed, WorkerInv, SendsHold, [Next]_vars, NEW a, Done(a)', ~Done(a)
  PROVE  \E w \in Workers : ReportDone(w) /\ worker[w].act = a
<1>1. ASSUME topic' = topic PROVE FALSE
  BY <1>1 DEF Done, Published
<1>2. ASSUME Tick PROVE FALSE
  BY <1>2, TickAges, AgedFacts DEF Done
<1>3. ASSUME NEW type \in Types, NEW b \in Activities, NEW n \in Nat, Appends(type, b, n)
      PROVE  type = "done" /\ b = a
  <2>1. \A t, c, m : Published(t, c, m)' <=> (Published(t, c, m) \/ (t = type /\ c = b /\ m = n))
    BY <1>3, AddedFacts
  <2> QED BY <2>1 DEF Done
<1>4. ASSUME NEW b \in Activities, Queue(b) PROVE FALSE
  <2>1. topic' = topic \/ Appends("queued", b, 0)
    BY <1>4 DEF Queue, Publish, Appends
  <2> QED BY <1>1, <1>3, <2>1 DEF Types, Done, Published
<1>5. ASSUME Apply \/ Start \/ Restart \/ UNCHANGED vars PROVE FALSE
  BY <1>1, <1>5 DEF Apply, Start, Restart, vars
<1>6. ASSUME NEW w \in Workers, Claims(w) \/ GivesUp(w) \/ SeesNothing(w) \/ Idle(w) \/ LookAgain(w) \/ Send(w) \/ Dequeue(w) \/ Retire(w)
      PROVE  topic' = topic
  BY <1>6 DEF Claims, GivesUp, SeesNothing, Idle, LookAgain, Send, Dequeue, Retire
<1>7. ASSUME NEW w \in Workers, Claim(w) PROVE topic' = topic
  <2>1. worker[w].act \in Activities /\ worker[w].n \in Nat
    BY <1>7, SenderTyped DEF Claim, At
  <2> QED BY <1>3, <1>7, <2>1, ClaimEffect DEF Wins, Types
<1>8. ASSUME NEW w \in Workers, ReportFailed(w) PROVE topic' = topic
  <2>1. worker[w].act \in Activities /\ worker[w].n \in Nat
    BY <1>8, SenderTyped DEF ReportFailed, At
  <2> QED BY <1>3, <1>8, <2>1, FailedEffect DEF Publishes, Types
<1>9. ASSUME NEW w \in Workers, ReportGaveUp(w) PROVE topic' = topic
  <2>1. At(w, "give_up") /\ Publish("gave_up", worker[w].act, 0)
    BY <1>9 DEF ReportGaveUp
  <2>2. worker[w].act \in Activities
    BY <2>1, SenderTyped DEF At
  <2>3. topic' = topic \/ Appends("gave_up", worker[w].act, 0)
    BY <2>1 DEF Publish, Appends
  <2> QED BY <1>3, <2>2, <2>3 DEF Types
<1>10. ASSUME NEW w \in Workers, ReportDone(w) PROVE topic' = topic \/ worker[w].act = a
  <2>1. worker[w].act \in Activities
    BY <1>10, SenderTyped DEF ReportDone, At
  <2> QED BY <1>3, <1>10, <2>1, DoneEffect DEF Publishes, Types
<1>11. topic' # topic /\ ~Tick
  BY <1>1, <1>2
<1> QED BY <1>4, <1>5, <1>6, <1>7, <1>8, <1>9, <1>10, <1>11 DEF Next, Work

\* A step of a worker is its own.
LEMMA OneActs ==
  ASSUME Typed, NEW w \in Workers, Work(w) \/ Retire(w) \/ Spawn(w)
  PROVE  Others(w)
<1>1. ASSUME NEW r, worker' = [worker EXCEPT ![w] = r] PROVE Others(w)
  BY <1>1, OneChanges
<1>2. Look(w) => Others(w)
  BY <1>1 DEF Look
<1>3. ASSUME NEW pc, Goto(w, pc) PROVE Others(w)
  BY <1>3, OneSteps
<1>4. Send(w) => \E pc : Goto(w, pc)
  BY DEF Send
<1> QED
  BY <1>1, <1>2, <1>3, <1>4 DEF Work, Retire, Spawn, Claims, GivesUp, SeesNothing, Idle, LookAgain, Claim, ReportDone, ReportFailed, ReportGaveUp, Dequeue

\* A worker that has sent goes on by reporting.
LEMMA SentStays ==
  ASSUME Typed, [Next]_vars, ~Restart, NEW v \in Workers, worker[v].pc = "sent"
  PROVE  worker'[v] = worker[v] \/ ReportDone(v)
<1>1. CASE worker' = worker
  BY <1>1
<1>2. ASSUME NEW w \in Workers, Work(w) \/ Retire(w) \/ Spawn(w) PROVE v # w => worker'[v] = worker[v]
  BY <1>2, OneActs DEF Others
<1>3. ~Retire(v) /\ ~Spawn(v) /\ (Work(v) => ReportDone(v))
  BY DEF Retire, Spawn, At, Work, Claims, GivesUp, SeesNothing, Idle, LookAgain, Claim, Send, ReportFailed, ReportGaveUp, Dequeue
<1>4. CASE Apply \/ Start
  BY <1>1, <1>2, <1>3, <1>4 DEF Apply, Start
<1>5. CASE Tick \/ (\E a \in Activities : Queue(a)) \/ UNCHANGED vars
  BY <1>1, <1>5 DEF Tick, Queue, vars
<1> QED BY <1>2, <1>3, <1>4, <1>5 DEF Next

\* Nobody works before the rebuild is over.
LEMMA UnstartedStep ==
  ASSUME Typed, Unstarted, [Next]_vars, ~Restart
  PROVE  Unstarted'
<1> SUFFICES ASSUME phase' = "rebuild" PROVE (\A w \in Workers : worker'[w] = Off) /\ \A i \in 1 .. Len(topic') : topic'[i].type = "queued"
  BY DEF Unstarted
<1>1. phase = "rebuild" /\ ~Start
  <2>1. ~Start
    BY DEF Start
  <2>2. ASSUME NEW w \in Workers, Work(w) \/ Retire(w) PROVE phase' = phase
    BY <2>2 DEF Work, Claims, GivesUp, SeesNothing, Idle, LookAgain, Claim, Send, ReportDone, ReportFailed, ReportGaveUp, Dequeue, Retire
  <2>3. CASE Tick \/ (\E a \in Activities : Queue(a)) \/ Apply \/ UNCHANGED vars
    BY <2>1, <2>3 DEF Tick, Queue, Apply, vars
  <2> QED BY <2>1, <2>2, <2>3 DEF Next
<1>2. (\A w \in Workers : worker[w] = Off) /\ \A i \in 1 .. Len(topic) : topic[i].type = "queued"
  BY <1>1 DEF Unstarted
<1>3. ASSUME NEW w \in Workers, Work(w) \/ Retire(w) PROVE FALSE
  <2>1. worker[w].pc = "off"
    BY <1>2 DEF Off
  <2> QED BY <1>3, <2>1 DEF At, Work, Claims, GivesUp, SeesNothing, Idle, LookAgain, Claim, Send, ReportDone, ReportFailed, ReportGaveUp, Dequeue, Retire
<1>4. CASE Tick
  <2>1. worker' = worker
    BY <1>4 DEF Tick
  <2>2. Len(topic') = Len(topic) /\ \A i \in 1 .. Len(topic) : topic'[i].type = topic[i].type
    BY <1>4, TickAges, AgedFacts
  <2> QED BY <1>2, <2>1, <2>2
<1>5. ASSUME NEW a \in Activities, Queue(a) PROVE worker' = worker /\ \A i \in 1 .. Len(topic') : topic'[i].type = "queued"
  <2>1. worker' = worker /\ Appends("queued", a, 0)
    BY <1>5 DEF Queue, Publish, Appends
  <2>2. /\ \A i \in 1 .. Len(topic) : topic'[i] = topic[i]
        /\ topic'[Len(topic) + 1].type = "queued"
        /\ \A i \in 1 .. Len(topic') : i \in 1 .. Len(topic) \/ i = Len(topic) + 1
    BY <2>1, AddedFacts DEF Types
  <2> QED BY <1>2, <2>1, <2>2
<1>6. CASE Apply
  BY <1>1, <1>2, <1>6 DEF Apply
<1>7. CASE UNCHANGED vars
  BY <1>2, <1>7 DEF vars
<1> QED BY <1>1, <1>2, <1>3, <1>4, <1>5, <1>6, <1>7 DEF Next

LEMMA DoneStays == ASSUME Typed, Grows, NEW a, Done(a) PROVE Done(a)'
BY PublishedStays DEF Done

\* A report, even a second one, leaves the delivery done.
LEMMA ReportedIsDone ==
  ASSUME Typed, Grows, NEW w \in Workers, ReportDone(w)
  PROVE  \A a : a = worker[w].act => Done(a)'
<1> SUFFICES ASSUME NEW a, a = worker[w].act PROVE Done(a)'
  OBVIOUS
<1>1. Publish("done", a, 0) /\ a \in Activities
  BY SenderTyped DEF ReportDone, At
<1>2. CASE Published("done", a, 0)
  BY <1>2, PublishedStays DEF Done
<1>3. CASE ~Published("done", a, 0)
  <2>1. Appends("done", a, 0)
    BY <1>1, <1>3 DEF Publish, Appends
  <2>2. \A t, c, m : Published(t, c, m)' <=> (Published(t, c, m) \/ (t = "done" /\ c = a /\ m = 0))
    BY <1>1, <2>1, AddedFacts DEF Types
  <2> QED BY <2>2 DEF Done
<1> QED BY <1>2, <1>3

\* What was delivered is not delivered again.
LEMMA SentStep ==
  ASSUME Typed, Grows, SendsAlone, SentIsReported, DoneIsDone, OkOnce, [Next]_vars, ~Restart
  PROVE  SentIsReported' /\ OkOnce'
<1>1. ASSUME NEW w \in Workers, Send(w) PROVE SentIsReported' /\ OkOnce'
  <2>1. PICK ok \in BOOLEAN : /\ sent' = Append(sent, [act |-> worker[w].act, n |-> worker[w].n, ok |-> ok])
                              /\ Goto(w, IF ok THEN "sent" ELSE "failed") /\ topic' = topic /\ At(w, "send")
    BY <1>1 DEF Send
  <2>2. worker[w].act \in Activities /\ worker[w].n \in Nat
    BY <2>1, SenderTyped DEF At
  <2> DEFINE r == [act |-> worker[w].act, n |-> worker[w].n, ok |-> ok]
  <2>3. r \in [act : Activities, n : Nat, ok : BOOLEAN] /\ r.act = worker[w].act /\ r.ok = ok /\ sent' = Append(sent, r)
    BY <2>1, <2>2
  <2> HIDE DEF r
  <2>4. sent \in Seq([act : Activities, n : Nat, ok : BOOLEAN]) /\ Len(sent) \in Nat
    BY DEF Typed
  <2>5. Len(sent') = Len(sent) + 1 /\ (\A i \in 1 .. Len(sent) : sent'[i] = sent[i]) /\ sent'[Len(sent) + 1] = r
    BY <2>3, <2>4
  <2>6. \A i \in 1 .. Len(sent') : i \in 1 .. Len(sent) \/ i = Len(sent) + 1
    BY <2>4, <2>5
  <2>7. ok => worker'[w].pc = "sent" /\ worker'[w].act = worker[w].act
    BY <2>1, OneSteps
  <2>8. ASSUME NEW i \in 1 .. Len(sent), sent[i].ok PROVE sent[i].act # worker[w].act
    <3>1. CASE Done(sent[i].act)
      BY <2>1, <3>1 DEF DoneIsDone, At, Sending
    <3>2. CASE \E v \in Workers : worker[v].pc = "sent" /\ worker[v].act = sent[i].act
      BY <2>1, <3>2 DEF SendsAlone, At, Sending
    <3> QED BY <2>8, <3>1, <3>2 DEF SentIsReported
  <2>9. ASSUME NEW i \in 1 .. Len(sent'), sent'[i].ok
        PROVE  Done(sent[i].act)' \/ \E v \in Workers : worker'[v].pc = "sent" /\ worker'[v].act = sent'[i].act
    <3>1. CASE i \in 1 .. Len(sent)
      <4>1. sent'[i] = sent[i] /\ sent[i].ok
        BY <2>5, <2>9, <3>1
      <4>2. CASE Done(sent[i].act)
        BY <2>1, <4>1, <4>2 DEF Done, Published
      <4>3. CASE \E v \in Workers : worker[v].pc = "sent" /\ worker[v].act = sent[i].act
        <5>1. PICK v \in Workers : worker[v].pc = "sent" /\ worker[v].act = sent[i].act
          BY <4>3
        <5>2. worker'[v] = worker[v]
          <6>1. v # w
            BY <2>1, <5>1 DEF At
          <6> QED BY <2>1, <6>1, OneSteps DEF Others
        <5> QED BY <4>1, <5>1, <5>2
      <4> QED BY <3>1, <4>1, <4>2, <4>3 DEF SentIsReported
    <3>2. CASE i = Len(sent) + 1
      BY <2>3, <2>5, <2>7, <2>9, <3>2
    <3> QED BY <2>6, <3>1, <3>2
  <2>10. OkOnce'
    BY <2>3, <2>5, <2>6, <2>8 DEF OkOnce
  <2> QED BY <2>9, <2>10 DEF SentIsReported
<1>2. ASSUME sent' = sent PROVE SentIsReported' /\ OkOnce'
  <2>1. ASSUME NEW i \in 1 .. Len(sent), sent[i].ok PROVE Done(sent[i].act)' \/ \E v \in Workers : worker'[v].pc = "sent" /\ worker'[v].act = sent[i].act
    <3>a. PICK a : a = sent[i].act
      OBVIOUS
    <3>1. CASE Done(a)
      <4>1. Done(a)'
        BY <3>1, DoneStays
      <4> QED BY <1>2, <3>a, <4>1 DEF Done, Published
    <3>2. CASE \E v \in Workers : worker[v].pc = "sent" /\ worker[v].act = a
      <4>1. PICK v \in Workers : worker[v].pc = "sent" /\ worker[v].act = a
        BY <3>2
      <4>2. CASE worker'[v] = worker[v]
        BY <3>a, <4>1, <4>2
      <4>3. CASE ReportDone(v)
        <5>1. Done(a)'
          BY <4>1, <4>3, ReportedIsDone
        <5> QED BY <1>2, <3>a, <5>1 DEF Done, Published
      <4> QED BY <4>1, <4>2, <4>3, SentStays
    <3> QED BY <2>1, <3>a, <3>1, <3>2 DEF SentIsReported
  <2> QED BY <1>2, <2>1 DEF SentIsReported, OkOnce
<1>3. CASE sent' = sent \/ \E w \in Workers : Send(w)
  BY <1>1, <1>2, <1>3
<1>4. ASSUME NEW w \in Workers, Work(w) \/ Retire(w), ~Send(w) PROVE sent' = sent
  BY <1>4 DEF Work, Claims, GivesUp, SeesNothing, Idle, LookAgain, Claim, ReportDone, ReportFailed, ReportGaveUp, Dequeue, Retire
<1>5. CASE Tick \/ (\E a \in Activities : Queue(a)) \/ Apply \/ Start \/ UNCHANGED vars
  BY <1>2, <1>5 DEF Tick, Queue, Apply, Start, vars
<1> QED BY <1>3, <1>4, <1>5 DEF Next

\* Nobody sends what is done, or wins a claim of it.
LEMMA DoneIsDoneStep ==
  ASSUME Typed, TopicInv, TableInv, WorkerInv, PromptInv, DoneIsDone, DoneIsRemoved, DoneWasHeld, Grows, [Next]_vars
  PROVE  DoneIsDone'
<1> SUFFICES ASSUME NEW w \in Workers, Done(worker[w].act)'
             PROVE  worker'[w].pc \notin Sending /\ (worker'[w].pc = "claim" => Published("attempting", worker[w].act, worker[w].n)')
  BY DEF DoneIsDone
<1>a. PICK a, n : a = worker'[w].act /\ n = worker'[w].n
  OBVIOUS
<1>b. Done(a)'
  BY <1>a DEF Done, Published
<1> SUFFICES worker'[w].pc \notin Sending /\ (worker'[w].pc = "claim" => Published("attempting", a, n)')
  BY <1>a DEF Published
<1>1. AttemptsInv /\ RowsTimed /\ SendsHold /\ SendsAlone /\ ClaimsAreDue /\ RowsPublished
  BY DEF PromptInv, TableInv
<1>2. CASE Done(a)
  <2>1. worker'[w].pc \notin Sending
    <3>1. ASSUME NoNewSends PROVE worker'[w].pc \notin Sending
      BY <1>2, <1>a, <3>1 DEF NoNewSends, DoneIsDone
    <3>2. ASSUME NEW v \in Workers, Wins(v) PROVE worker'[w].pc \notin Sending
      <4>1. worker'[v].act = worker[v].act /\ worker'[v].n = worker[v].n /\ Others(v)
        BY <3>2, OneSteps DEF Wins
      <4>2. CASE v = w
        <5>1. worker[w].pc = "claim" /\ worker[w].act = a /\ ~Published("attempting", worker[w].act, worker[w].n)
          BY <1>a, <3>2, <4>1, <4>2 DEF Wins, Claim, At, Appends
        <5> QED BY <1>2, <5>1 DEF DoneIsDone
      <4>3. CASE v # w
        <5>1. worker'[w] = worker[w]
          BY <4>1, <4>3 DEF Others
        <5> QED BY <1>2, <1>a, <5>1 DEF DoneIsDone
      <4> QED BY <4>2, <4>3
    <3> QED BY <3>1, <3>2, WorkersMove
  <2>2. ASSUME worker'[w].pc = "claim" PROVE Published("attempting", a, n)
    <3>1. CASE worker[w].pc = "claim" /\ worker[w].act = a /\ worker[w].n = n
      BY <1>2, <3>1 DEF DoneIsDone
    <3>2. ASSUME NoNewClaims PROVE worker[w].pc = "claim" /\ worker[w].act = a /\ worker[w].n = n
      BY <1>a, <2>2, <3>2 DEF NoNewClaims
    <3>3. ASSUME NEW v \in Workers, Claims(v), v # w PROVE worker[w].pc = "claim" /\ worker[w].act = a /\ worker[w].n = n
      <4>1. worker'[w] = worker[w]
        BY <3>3, OneActs DEF Others, Work
      <4> QED BY <1>a, <2>2, <4>1
    <3>4. ASSUME NEW v \in Workers, Claims(v), v = w PROVE Published("attempting", a, n)
      <4> DEFINE r == [pc |-> "claim", act |-> Head1, n |-> queue[Head1].attempt + 1]
      <4>1. worker' = [worker EXCEPT ![w] = r] /\ HasHead /\ Decide(queue[Head1]) = "claim"
        BY <3>4 DEF Claims
      <4>2. r.act = Head1 /\ r.n = queue[Head1].attempt + 1
        OBVIOUS
      <4> HIDE DEF r
      <4>3. worker'[w] = r
        BY <4>1, OneChanges
      <4>4. Head1 \in DOMAIN queue /\ a = Head1 /\ n = queue[Head1].attempt + 1
        BY <1>1, <1>a, <4>1, <4>2, <4>3, HeadIsFirst
      <4>5. Done(Head1)
        BY <1>2, <4>4
      <4> QED BY <1>1, <4>1, <4>4, <4>5, DoneIsNotClaimed
    <3> QED BY <3>1, <3>2, <3>3, <3>4, WorkersMove
  <2>3. Published("attempting", a, n) => Published("attempting", a, n)'
    BY PublishedStays
  <2> QED BY <2>1, <2>2, <2>3
<1>3. CASE ~Done(a)
  <2>1. PICK v \in Workers : ReportDone(v) /\ worker[v].act = a
    BY <1>1, <1>3, <1>b, NewlyDone
  <2>2. worker[v].pc = "sent" /\ worker'[v].pc = "dequeue" /\ Others(v)
    BY <2>1, OneSteps DEF ReportDone, At
  <2>3. CASE w = v
    BY <2>2, <2>3 DEF Sending
  <2>4. CASE w # v
    <3>1. worker'[w] = worker[w]
      BY <2>2, <2>4 DEF Others
    <3>2. worker[w].act = a /\ worker[w].n = n
      BY <1>a, <3>1
    <3>3. worker[w].pc \notin Sending
      BY <1>1, <2>1, <2>2, <2>4, <3>2 DEF SendsAlone, Sending
    <3>4. Held(a, worker[v].n)
      BY <1>1, <2>1, <2>2 DEF SendsHold, Sends, Sending
    <3>5. worker[w].pc = "claim" => Published("attempting", a, n)
      BY <1>1, <3>2, <3>4, HeldIsTaken
    <3>6. Published("attempting", a, n) => Published("attempting", a, n)'
      BY PublishedStays
    <3> QED BY <3>1, <3>3, <3>5, <3>6
  <2> QED BY <2>3, <2>4
<1> QED BY <1>2, <1>3

\* The table has no row of what it knows to be done.
LEMMA DoneIsRemovedStep ==
  ASSUME Typed, TopicInv, AttemptsInv, DoneIsRemoved, Grows, Len(topic') \in Nat, [Next]_vars, ~Restart
  PROVE  DoneIsRemoved'
<1>1. /\ applied \in Nat /\ applied <= Len(topic) /\ head_pos \in Nat /\ Len(topic) \in Nat /\ Len(topic) <= Len(topic')
      /\ \A i \in 1 .. Len(topic) : i \in 1 .. Len(topic') /\ topic'[i].type = topic[i].type /\ topic'[i].act = topic[i].act
  BY DEF Typed, Grows, Same
<1>2. ASSUME DOMAIN queue' \subseteq DOMAIN queue, applied' \in 0 .. applied PROVE DoneIsRemoved'
  <2>1. \A j \in 1 .. applied' : j \in 1 .. applied /\ j \in 1 .. Len(topic)
    BY <1>1, <1>2
  <2> QED BY <1>1, <1>2, <2>1 DEF DoneIsRemoved, Is
<1>3. applied \in 0 .. applied
  BY <1>1
<1>4. CASE Apply
  <2>a. PICK m : m = applied + 1
    OBVIOUS
  <2>1. topic' = topic /\ applied' = applied + 1 /\ applied < Len(topic) /\ queue' = Project(queue, applied + 1)
    BY <1>4 DEF Apply
  <2>2. m \in 1 .. Len(topic) /\ m - 1 = applied /\ queue' = Project(queue, m)
    BY <1>1, <2>a, <2>1
  <2>3. \A j \in 1 .. m : j \in 1 .. applied \/ j = m
    BY <1>1, <2>2
  <2>4. \A a \in DOMAIN queue' : a \in DOMAIN queue \/ Is(m, "queued", a)
    BY <2>2, ProjectFacts
  <2>5. ASSUME NEW a \in DOMAIN queue', Is(m, "done", a) PROVE FALSE
    <3>1. queue' = Without(queue, a)
      BY <2>2, <2>5 DEF Project, Is
    <3> QED BY <2>5, <3>1 DEF Without
  <2>6. ASSUME NEW a \in DOMAIN queue', NEW j \in 1 .. applied, Is(j, "done", a) PROVE FALSE
    <3>1. CASE a \in DOMAIN queue
      BY <2>6, <3>1 DEF DoneIsRemoved
    <3>2. CASE Is(m, "queued", a)
      <4>1. j \in 1 .. Len(topic) /\ j < m
        BY <1>1, <2>2
      <4>2. PICK q \in 1 .. j - 1 : Is(q, "queued", a)
        BY <2>6, <4>1 DEF AttemptsInv, StartedInTurn, Is
      <4>3. q \in 1 .. Len(topic) /\ q < m
        BY <1>1, <2>2, <4>1
      <4>4. q = m
        BY <2>2, <3>2, <4>2, <4>3 DEF TopicInv, QueuedOnce, Queued, Is
      <4> QED BY <2>2, <4>3, <4>4
    <3> QED BY <2>4, <3>1, <3>2
  <2>7. \A a \in DOMAIN queue' : \A j \in 1 .. m : ~Is(j, "done", a)
    BY <2>3, <2>5, <2>6
  <2> QED BY <2>a, <2>1, <2>7 DEF DoneIsRemoved, Is
<1>5. CASE Start
  <2>1. queue' = queue /\ (applied' = applied \/ (applied' = applied - 1 /\ applied > head_pos))
    BY <1>5 DEF Start
  <2>2. applied' \in 0 .. applied
    BY <1>1, <2>1
  <2> QED BY <1>2, <2>1, <2>2
<1>6. ASSUME NEW w \in Workers, Work(w) \/ Retire(w) PROVE DOMAIN queue' \subseteq DOMAIN queue /\ applied' = applied
  <2>1. Dequeue(w) => DOMAIN queue' \subseteq DOMAIN queue /\ applied' = applied
    BY DEF Dequeue, Without
  <2>2. Retire(w) => queue' = queue /\ applied' = applied
    BY DEF Retire
  <2>3. Work(w) => Dequeue(w) \/ (queue' = queue /\ applied' = applied)
    BY DEF Work, Claims, GivesUp, SeesNothing, Idle, LookAgain, Claim, Send, ReportDone, ReportFailed, ReportGaveUp
  <2> QED BY <1>6, <2>1, <2>2, <2>3
<1>7. CASE Tick \/ (\E a \in Activities : Queue(a)) \/ UNCHANGED vars
  BY <1>2, <1>3, <1>7 DEF Tick, Queue, vars
<1> QED BY <1>2, <1>3, <1>4, <1>5, <1>6, <1>7 DEF Next

\* What is done, and is not known to be yet, is under its lease: time waits for the table.
LEMMA DoneWasHeldStep ==
  ASSUME Typed, TopicInv, WorkerInv, PromptInv, Unstarted, DoneIsDone, DoneWasHeld, PromptApply, [Next]_vars, ~Restart
  PROVE  DoneWasHeld'
<1>1. AttemptsInv /\ SendsHold /\ SendsAlone
  BY DEF PromptInv
<1>2. applied \in Nat /\ Len(topic) \in Nat /\ applied <= Len(topic) /\ phase \in {"rebuild", "live"}
  BY DEF Typed
<1>3. phase = "rebuild" => \A j \in 1 .. Len(topic) : topic[j].type # "done"
  BY DEF Unstarted
<1>4. applied' \in Nat /\ (phase = "live" => applied <= applied')
  <2>1. CASE applied' = applied
    BY <1>2, <2>1
  <2>2. CASE Apply
    BY <1>2, <2>2 DEF Apply
  <2>3. CASE Start
    <3>1. phase = "rebuild" /\ head_pos \in Nat /\ (applied' = applied \/ (applied' = applied - 1 /\ applied > head_pos))
      BY <2>3 DEF Start, Typed
    <3> QED BY <1>2, <3>1
  <2>4. ASSUME NEW w \in Workers, Work(w) \/ Retire(w) PROVE applied' = applied
    BY <2>4 DEF Work, Claims, GivesUp, SeesNothing, Idle, LookAgain, Claim, Send, ReportDone, ReportFailed, ReportGaveUp, Dequeue, Retire
  <2>5. CASE Tick \/ (\E a \in Activities : Queue(a)) \/ UNCHANGED vars
    BY <2>1, <2>5 DEF Tick, Queue, vars
  <2> QED BY <2>1, <2>2, <2>3, <2>4, <2>5 DEF Next
\* An event that is not the failure or the next attempt of what is done.
<1>5. ASSUME NEW type \in Types, NEW b \in Activities, NEW m \in Nat, Appends(type, b, m),
             type \in {"attempting", "failed"} => ~Done(b),
             type = "done" => \E n : Held(b, n)
      PROVE  DoneWasHeld'
  <2>1. /\ Len(topic') = Len(topic) + 1
        /\ \A i \in 1 .. Len(topic) : topic'[i] = topic[i]
        /\ topic'[Len(topic) + 1].type = type /\ topic'[Len(topic) + 1].act = b
        /\ \A i \in 1 .. Len(topic') : i \in 1 .. Len(topic) \/ i = Len(topic) + 1
    BY <1>5, AddedFacts
  <2> SUFFICES ASSUME NEW j \in 1 .. Len(topic'), topic'[j].type = "done", j > applied' PROVE \E n : Held(topic[j].act, n)'
    BY DEF DoneWasHeld
  <2>a. PICK a : a = topic'[j].act
    OBVIOUS
  <2>2. ASSUME NEW n, Held(a, n)' PROVE \E k : Held(topic[j].act, k)'
    <3>1. Held(topic[j].act, n)'
      BY <2>2, <2>a DEF Held, LastAttempt, Published, Attempted
    <3> QED BY <3>1
  <2>3. CASE j \in 1 .. Len(topic)
    <3>1. topic[j].type = "done" /\ topic[j].act = a
      BY <2>1, <2>3, <2>a
    <3>2. Done(a)
      BY <2>3, <3>1 DEF TopicInv, Unnumbered, Done, Published
    <3>3. j > applied
      <4>1. phase = "live"
        BY <1>2, <1>3, <2>3, <3>1
      <4> QED BY <1>2, <1>4, <2>3, <4>1
    <3>4. PICK n : Held(a, n)
      BY <2>3, <3>1, <3>3 DEF DoneWasHeld
    <3>5. ~(b = a /\ type \in {"attempting", "failed"})
      BY <1>5, <3>2
    <3>6. Held(a, n)'
      BY <1>5, <3>4, <3>5, HeldKept
    <3> QED BY <2>2, <3>6
  <2>4. CASE j = Len(topic) + 1
    <3>1. type = "done" /\ a = b
      BY <2>1, <2>4, <2>a
    <3>2. PICK n : Held(a, n)
      BY <1>5, <3>1
    <3>3. Held(a, n)'
      BY <1>5, <3>1, <3>2, HeldKept
    <3> QED BY <2>2, <3>3
  <2> QED BY <2>1, <2>3, <2>4
<1>6. CASE topic' = topic
  <2> SUFFICES ASSUME NEW j \in 1 .. Len(topic), topic[j].type = "done", j > applied' PROVE \E n : Held(topic[j].act, n)'
    BY <1>6 DEF DoneWasHeld
  <2>1. j > applied
    <3>1. phase = "live"
      BY <1>2, <1>3
    <3> QED BY <1>2, <1>4, <3>1
  <2>2. PICK n : Held(topic[j].act, n)
    BY <2>1 DEF DoneWasHeld
  <2>3. Held(topic[j].act, n)'
    BY <1>6, <2>2 DEF Held, LastAttempt, Published, Attempted
  <2> QED BY <2>3
<1>7. CASE Tick
  <2>1. Len(topic') = Len(topic) /\ \A i \in 1 .. Len(topic) : topic'[i].type = topic[i].type
    BY <1>7, TickAges, AgedFacts
  <2>2. applied' = applied /\ (phase = "live" => applied = Len(topic))
    BY <1>7 DEF Tick
  <2>3. ASSUME NEW j \in 1 .. Len(topic'), topic'[j].type = "done", j > applied' PROVE FALSE
    <3>1. topic[j].type = "done" /\ j \in 1 .. Len(topic)
      BY <2>1, <2>3
    <3>2. phase = "live"
      BY <1>2, <1>3, <3>1
    <3> QED BY <1>2, <2>2, <2>3, <3>1, <3>2
  <2> QED BY <2>3 DEF DoneWasHeld
<1>8. ASSUME NEW b \in Activities, NEW type \in {"queued", "gave_up"}, Publishes(type, b, 0) PROVE DoneWasHeld'
  <2>1. type \in Types /\ type \notin {"attempting", "failed", "done"} /\ Appends(type, b, 0)
    BY <1>8 DEF Types, Publishes
  <2> QED BY <1>5, <2>1
<1>9. ASSUME NEW b \in Activities, Publishes("done", b, 0) PROVE DoneWasHeld'
  <2>1. Appends("done", b, 0)
    BY <1>9 DEF Publishes
  <2>2. Done(b)' /\ ~Done(b)
    <3>1. \A t, c, m : Published(t, c, m)' <=> (Published(t, c, m) \/ (t = "done" /\ c = b /\ m = 0))
      BY <2>1, AddedFacts DEF Types
    <3> QED BY <2>1, <3>1 DEF Done, Appends
  <2>3. PICK w \in Workers : ReportDone(w) /\ worker[w].act = b
    BY <1>1, <2>2, NewlyDone
  <2>4. Held(b, worker[w].n)
    BY <1>1, <2>3 DEF ReportDone, At, SendsHold, Sends, Sending
  <2> QED BY <1>5, <2>1, <2>4 DEF Types
<1>10. ASSUME NEW w \in Workers, ReportFailed(w), Publishes("failed", worker[w].act, worker[w].n) PROVE DoneWasHeld'
  <2>1. worker[w].act \in Activities /\ worker[w].n \in Nat /\ worker[w].pc \in Sending
    BY <1>10, SenderTyped DEF ReportFailed, At, Sending
  <2>2. ~Done(worker[w].act)
    BY <2>1 DEF DoneIsDone
  <2> QED BY <1>5, <1>10, <2>1, <2>2 DEF Types, Publishes
<1>11. ASSUME NEW w \in Workers, Wins(w) PROVE DoneWasHeld'
  <2>1. worker[w].act \in Activities /\ worker[w].n \in Nat /\ worker[w].pc = "claim" /\ Appends("attempting", worker[w].act, worker[w].n)
    BY <1>11, SenderTyped DEF Wins, Claim, At
  <2>2. ~Done(worker[w].act)
    BY <2>1 DEF DoneIsDone, Appends
  <2> QED BY <1>5, <2>1, <2>2 DEF Types
<1> QED BY <1>1, <1>6, <1>7, <1>8, <1>9, <1>10, <1>11, PromptTopicStep

-----------------------------------------------------------------------------
LEMMA CalmInit == Init => CalmInv
<1> SUFFICES ASSUME Init PROVE CalmInv
  OBVIOUS
<1>1. topic = << >> /\ queue = << >> /\ worker = [w \in Workers |-> Off] /\ sent = << >> /\ applied = 0
  BY DEF Init
<1>2. \A a : ~Done(a)
  BY <1>1 DEF Done, Published
<1> QED BY <1>1, <1>2 DEF CalmInv, Unstarted, SentIsReported, DoneIsDone, DoneIsRemoved, DoneWasHeld, OkOnce

LEMMA CalmStep ==
  ASSUME IInv, PromptInv, CalmInv, PromptSend, [Next]_vars
  PROVE  CalmInv'
<1> SUFFICES ASSUME Calm' PROVE (Unstarted /\ SentIsReported /\ DoneIsDone /\ DoneIsRemoved /\ DoneWasHeld /\ OkOnce)'
  BY DEF CalmInv
<1>1. Typed /\ TopicInv /\ TableInv /\ WorkerInv /\ AttemptsInv /\ SendsAlone
  BY DEF IInv, PromptInv
<1>2. PromptApply /\ restarts' = 0
  BY DEF Calm
<1>3. ~Restart
  BY <1>1, <1>2 DEF Restart, Typed
<1>4. restarts' = restarts
  <2>1. ASSUME NEW w \in Workers, Work(w) \/ Retire(w) PROVE restarts' = restarts
    BY <2>1 DEF Work, Claims, GivesUp, SeesNothing, Idle, LookAgain, Claim, Send, ReportDone, ReportFailed, ReportGaveUp, Dequeue, Retire
  <2>2. CASE Tick \/ (\E a \in Activities : Queue(a)) \/ Apply \/ Start \/ UNCHANGED vars
    BY <2>2 DEF Tick, Queue, Apply, Start, vars
  <2> QED BY <1>3, <2>1, <2>2 DEF Next
<1>5. Unstarted /\ SentIsReported /\ DoneIsDone /\ DoneIsRemoved /\ DoneWasHeld /\ OkOnce
  BY <1>2, <1>4 DEF CalmInv, Calm
<1>6. Grows /\ Len(topic') \in Nat
  <2>1. Grows
    BY <1>1, TopicInvStep
  <2>2. IInv'
    BY IInvStep
  <2> QED BY <2>1, <2>2 DEF IInv, Typed
<1>7. Unstarted'
  BY <1>1, <1>3, <1>5, UnstartedStep
<1>8. SentIsReported' /\ OkOnce'
  BY <1>1, <1>3, <1>5, <1>6, SentStep
<1>9. DoneIsDone' /\ DoneIsRemoved' /\ DoneWasHeld'
  BY <1>1, <1>2, <1>3, <1>5, <1>6, DoneIsDoneStep, DoneIsRemovedStep, DoneWasHeldStep
<1> QED BY <1>7, <1>8, <1>9

\* With sends that are reported before their lease expires, no attempt is claimed before
\* the one before has failed and waited for its backoff, or lost its lease; and as long
\* as the projection keeps up and the process does not end, nothing is delivered twice.
THEOREM DistributorOnceAndInTime == ASSUME PromptSend PROVE Spec => OnceAndInTime
<1>1. Init => IInv /\ PromptInv /\ CalmInv
  BY IInvInit, PromptInit, CalmInit
<1>2. IInv /\ PromptInv /\ CalmInv /\ [Next]_vars => (IInv /\ PromptInv /\ CalmInv)'
  BY IInvStep, PromptStep, CalmStep
<1>3. IInv /\ PromptInv /\ [Next]_vars =>
        [ \A a \in Activities, n \in 1 .. Len(topic) :
            ~Published("attempting", a, n + 1) /\ Published("attempting", a, n + 1)' =>
               \/ \E i \in 1 .. Len(topic) : /\ topic[i].type = "attempting" /\ topic[i].act = a
                                             /\ topic[i].n = n /\ topic[i].age >= LEASE
               \/ \E i \in 1 .. Len(topic) : /\ topic[i].type = "failed" /\ topic[i].act = a
                                             /\ topic[i].n = n /\ topic[i].age >= Backoff(n) ]_vars
  <2> SUFFICES ASSUME IInv, PromptInv, [Next]_vars PROVE RetriesAreDue
    BY DEF RetriesAreDue, Overdue, Attempted, Is
  <2> QED BY PromptStep
<1>4. CalmInv => DeliveredOnce
  BY DEF CalmInv, Calm, DeliveredOnce, OkOnce
<1> QED BY <1>1, <1>2, <1>3, <1>4, PTL DEF Spec, OnceAndInTime, RetryIsDue
=============================================================================
