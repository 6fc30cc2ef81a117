-------------------------- MODULE DeliveryDistributor --------------------------
(***************************************************************************)
(* The delivery of activities to one recipient (recipients share nothing   *)
(* but the topic): the topic "deliveries", the queue table that is         *)
(* projected from it, and the worker tasks that claim, send, report and    *)
(* retry.                                                                  *)
(*                                                                         *)
(* Several workers can serve the recipient: an idle worker leaves the      *)
(* registry, sleeps and goes on when it finds work, while a new "queued"   *)
(* event has spawned another one. The process can end at any step; the     *)
(* queue is then rebuilt from the topic.                                   *)
(*                                                                         *)
(* Time: an event of the topic ages, saturating at Cap. The timestamps in  *)
(* a row of the queue are the emitted_at of events, so they are kept as    *)
(* positions in the topic. A publish is one step here: Publisher and       *)
(* Subscriber say what the topic does below that.                          *)
(***************************************************************************)
EXTENDS Integers, Sequences, FiniteSets

CONSTANTS Activities,     \* activities queued for the recipient
          Workers,        \* task slots
          NoWorker,
          LEASE, INITIAL_RETRY, MAX_RETRY, MAX_TOTAL,  \* config, in ticks
          PromptSend,     \* TRUE: a send is reported before its lease expires
          PromptApply,    \* TRUE: the projection has caught up before time passes
          MaxRestarts     \* bound: restarts of the process

ASSUME DistributorAssumption ==
    /\ LEASE \in Nat \ {0} /\ INITIAL_RETRY \in Nat \ {0}
    /\ MAX_RETRY \in Nat /\ MAX_TOTAL \in Nat
    /\ {PromptSend, PromptApply} \subseteq BOOLEAN /\ MaxRestarts \in Nat
    /\ NoWorker \notin Workers

VARIABLES topic,     \* events of "deliveries": [type, act, n, age]
          queue,     \* the table: activity -> [attempt, attempt_at, failed_at, first_attempt_at]
          applied,   \* position of the projection
          phase,     \* "rebuild" or "live"
          head_pos,  \* end of the topic when the rebuild started
          registry,  \* _registry[recipient]
          worker,    \* per slot: [pc, act, n]
          restarts,
          sent       \* history: sends in their order, [act, n, ok]

vars == <<topic, queue, applied, phase, head_pos, registry, worker, restarts, sent>>

MaxOf(a, b) == IF a >= b THEN a ELSE b
MinOf(a, b) == IF a <= b THEN a ELSE b
Cap == MaxOf(LEASE, MaxOf(MAX_RETRY, MAX_TOTAL)) + 1

Off == [pc |-> "off", act |-> NoWorker, n |-> 0]
At(w, pc) == worker[w].pc = pc
Goto(w, pc) == worker' = [worker EXCEPT ![w].pc = pc]
Looking == [Off EXCEPT !.pc = "look"]
Look(w) == worker' = [worker EXCEPT ![w] = Looking]

Published(type, a, n) == \E i \in 1 .. Len(topic) :
                            topic[i].type = type /\ topic[i].act = a /\ topic[i].n = n
Event(type, a, n) == [type |-> type, act |-> a, n |-> n, age |-> 0]

\* A publish with a message_id: the event, unless the topic has it.
Publish(type, a, n) ==
    topic' = IF Published(type, a, n) THEN topic ELSE Append(topic, Event(type, a, n))

QueuedAt(a) == CHOOSE i \in 1 .. Len(topic) : topic[i].type = "queued" /\ topic[i].act = a
Ended(a) == \E type \in {"done", "gave_up"} : Published(type, a, 0)

-----------------------------------------------------------------------------
(* storage: the queue table *)
NewRow == [attempt |-> 0, attempt_at |-> 0, failed_at |-> 0, first_attempt_at |-> 0]
Without(q, a) == [x \in DOMAIN q \ {a} |-> q[x]]

Enqueue(q, a) == IF a \in DOMAIN q THEN q ELSE [x \in DOMAIN q \cup {a} |->
                                                  IF x = a THEN NewRow ELSE q[x]]
NMarkAttempting(q, a, n, pos) ==           \* mutant: counts the claim once more
    IF a \notin DOMAIN q THEN q
    ELSE [q EXCEPT ![a] = [attempt |-> n + 1, attempt_at |-> pos, failed_at |-> 0,
                           first_attempt_at |-> IF q[a].first_attempt_at = 0 THEN pos
                                                ELSE q[a].first_attempt_at]]
MarkAttempting(q, a, n, pos) ==
    IF a \notin DOMAIN q THEN q
    ELSE [q EXCEPT ![a] = [attempt |-> n, attempt_at |-> pos, failed_at |-> 0,
                           first_attempt_at |-> IF q[a].first_attempt_at = 0 THEN pos
                                                ELSE q[a].first_attempt_at]]
MarkFailed(q, a, pos) == IF a \notin DOMAIN q THEN q ELSE [q EXCEPT ![a].failed_at = pos]

\* What the projection makes of the event at a position.
Project(q, pos) ==
    LET e == topic[pos]
    IN CASE e.type = "queued" -> Enqueue(q, e.act)
         [] e.type = "attempting" -> MarkAttempting(q, e.act, e.n, pos)
         [] e.type = "failed" -> MarkFailed(q, e.act, pos)
         [] OTHER -> Without(q, e.act)

HasHead == DOMAIN queue # {}
MHead1 ==                                  \* mutant: newest first
    CHOOSE a \in DOMAIN queue : \A b \in DOMAIN queue : QueuedAt(a) >= QueuedAt(b)
Head1 == CHOOSE a \in DOMAIN queue : \A b \in DOMAIN queue : QueuedAt(a) <= QueuedAt(b)

-----------------------------------------------------------------------------
(* http/retry and _decide *)
AgeOf(pos) == topic[pos].age
Backoff(n) == MinOf(INITIAL_RETRY * 2 ^ (n - 1), MAX_RETRY)

Exhausted(row) == row.first_attempt_at # 0 /\ AgeOf(row.first_attempt_at) > MAX_TOTAL
MLeased(row) == FALSE                      \* mutant: no lease
Leased(row) == row.attempt_at # 0 /\ AgeOf(row.attempt_at) < LEASE
Due(row) == AgeOf(row.failed_at) >= Backoff(row.attempt)

Decide(row) ==
    IF row.attempt = 0 THEN "claim"
    ELSE IF Exhausted(row) THEN "give_up"
    ELSE IF row.failed_at # 0 THEN (IF Due(row) THEN "claim" ELSE "wait")
    ELSE IF Leased(row) THEN "wait" ELSE "claim"

-----------------------------------------------------------------------------
(* the rest of the system *)
\* delivery_splitter queues a delivery, once.
Queue(a) ==
    /\ ~Published("queued", a, 0)
    /\ Publish("queued", a, 0)
    /\ UNCHANGED <<queue, applied, phase, head_pos, registry, worker, restarts, sent>>

\* A worker holds a claim from its publish until the local dequeue.
Holding(w) == worker[w].pc \in {"send", "sent", "failed", "dequeue"}
ClaimPos(w) == CHOOSE i \in 1 .. Len(topic) :
                  /\ topic[i].type = "attempting"
                  /\ topic[i].act = worker[w].act /\ topic[i].n = worker[w].n

Older(e) == IF e.type \in {"attempting", "failed"}
            THEN [e EXCEPT !.age = MinOf(e.age + 1, Cap)] ELSE e
Tick ==
    /\ PromptSend => \A w \in Workers : Holding(w) => AgeOf(ClaimPos(w)) + 1 < LEASE
    /\ PromptApply /\ phase = "live" => applied = Len(topic)
    /\ topic' = [i \in 1 .. Len(topic) |-> Older(topic[i])]
    /\ topic' # topic
    /\ UNCHANGED <<queue, applied, phase, head_pos, registry, worker, restarts, sent>>

-----------------------------------------------------------------------------
(* the projection, and the registry of tasks *)
\* _spawn
Spawn(w) == /\ At(w, "off")
            /\ Look(w)
            /\ registry' = w

Apply ==
    /\ applied < Len(topic)
    /\ applied' = applied + 1
    /\ queue' = Project(queue, applied + 1)
    /\ IF phase = "live" /\ topic[applied + 1].type = "queued" /\ registry = NoWorker
       THEN \E w \in Workers : Spawn(w)        \* ensure_task
       ELSE UNCHANGED <<worker, registry>>
    /\ UNCHANGED <<topic, phase, head_pos, restarts, sent>>

\* The rebuild has caught up: start() serves the recipient if it has work. The drain
\* may have been cancelled in the dispatch of an event behind the head, which
\* handle_events then dispatches again.
Start ==
    /\ phase = "rebuild" /\ applied >= head_pos
    /\ phase' = "live"
    /\ IF HasHead THEN \E w \in Workers : Spawn(w) ELSE UNCHANGED <<worker, registry>>
    /\ applied' \in {applied} \cup (IF applied > head_pos THEN {applied - 1} ELSE {})
    /\ UNCHANGED <<topic, queue, head_pos, restarts, sent>>

Restart ==
    /\ restarts < MaxRestarts
    /\ restarts' = restarts + 1
    /\ phase' = "rebuild" /\ head_pos' = Len(topic) /\ applied' = 0
    /\ queue' = << >>
    /\ registry' = NoWorker /\ worker' = [w \in Workers |-> Off]
    /\ UNCHANGED <<topic, sent>>

-----------------------------------------------------------------------------
(* the worker: one action per await of _run *)
\* storage.head and _decide; "wait" and an empty queue are sleeps without effect.
Claims(w) ==
    /\ At(w, "look") /\ HasHead /\ Decide(queue[Head1]) = "claim"
    /\ worker' = [worker EXCEPT ![w] = [pc |-> "claim", act |-> Head1,
                                        n |-> queue[Head1].attempt + 1]]
    /\ UNCHANGED <<topic, queue, applied, phase, head_pos, registry, restarts, sent>>

GivesUp(w) ==
    /\ At(w, "look") /\ HasHead /\ Decide(queue[Head1]) = "give_up"
    /\ worker' = [worker EXCEPT ![w] = [pc |-> "give_up", act |-> Head1,
                                        n |-> queue[Head1].attempt]]
    /\ UNCHANGED <<topic, queue, applied, phase, head_pos, registry, restarts, sent>>

\* The queue is read before an await, so a delivery can be queued until the worker
\* acts on having seen none: it sleeps and looks again, or, after IDLE_LIMIT looks,
\* leaves the registry, sleeps, and looks once more.
SeesNothing(w) ==
    /\ At(w, "look") /\ ~HasHead
    /\ Goto(w, "idle")
    /\ UNCHANGED <<topic, queue, applied, phase, head_pos, registry, restarts, sent>>

Idle(w) ==
    /\ At(w, "idle")
    /\ Look(w)
    /\ UNCHANGED <<topic, queue, applied, phase, head_pos, registry, restarts, sent>>

Retire(w) ==
    /\ At(w, "idle")
    /\ registry' = IF registry = w THEN NoWorker ELSE registry
    /\ Goto(w, "retired")
    /\ UNCHANGED <<topic, queue, applied, phase, head_pos, restarts, sent>>

MLookAgain(w) ==                           \* mutant: ends without looking again
    /\ At(w, "retired")
    /\ worker' = [worker EXCEPT ![w] = Off]
    /\ UNCHANGED <<topic, queue, applied, phase, head_pos, registry, restarts, sent>>

LookAgain(w) ==
    /\ At(w, "retired")
    /\ worker' = [worker EXCEPT ![w] = IF HasHead THEN Looking ELSE Off]
    /\ UNCHANGED <<topic, queue, applied, phase, head_pos, registry, restarts, sent>>

MClaim(w) ==                               \* mutant: ignores that the claim is lost
    LET a == worker[w].act
        n == worker[w].n
    IN /\ At(w, "claim")
       /\ Publish("attempting", a, n)
       /\ Goto(w, "send")
       /\ UNCHANGED <<queue, applied, phase, head_pos, registry, restarts, sent>>

\* _claim: won if the publish writes a row, lost if the attempt is claimed already.
Claim(w) ==
    LET a == worker[w].act
        n == worker[w].n
    IN /\ At(w, "claim")
       /\ Publish("attempting", a, n)
       /\ IF Published("attempting", a, n) THEN Look(w) ELSE Goto(w, "send")
       /\ UNCHANGED <<queue, applied, phase, head_pos, registry, restarts, sent>>

\* _deliver, to a remote inbox or to local_delivery: it succeeds or it does not.
Send(w) ==
    /\ At(w, "send")
    /\ \E ok \in BOOLEAN :
          /\ sent' = Append(sent, [act |-> worker[w].act, n |-> worker[w].n, ok |-> ok])
          /\ Goto(w, IF ok THEN "sent" ELSE "failed")
    /\ UNCHANGED <<topic, queue, applied, phase, head_pos, registry, restarts>>

\* The message ids of "done" and "gave_up" leave the attempt out.
ReportDone(w) ==
    /\ At(w, "sent")
    /\ Publish("done", worker[w].act, 0)
    /\ Goto(w, "dequeue")
    /\ UNCHANGED <<queue, applied, phase, head_pos, registry, restarts, sent>>

ReportFailed(w) ==
    /\ At(w, "failed")
    /\ Publish("failed", worker[w].act, worker[w].n)
    /\ Look(w)
    /\ UNCHANGED <<queue, applied, phase, head_pos, registry, restarts, sent>>

ReportGaveUp(w) ==
    /\ At(w, "give_up")
    /\ Publish("gave_up", worker[w].act, 0)
    /\ Goto(w, "forget")
    /\ UNCHANGED <<queue, applied, phase, head_pos, registry, restarts, sent>>

Dequeue(w) ==
    /\ At(w, "dequeue") \/ At(w, "forget")
    /\ queue' = Without(queue, worker[w].act)
    /\ Look(w)
    /\ UNCHANGED <<topic, applied, phase, head_pos, registry, restarts, sent>>

Work(w) == \/ Claims(w) \/ GivesUp(w) \/ SeesNothing(w) \/ Idle(w) \/ LookAgain(w)
           \/ Claim(w) \/ Send(w)
           \/ ReportDone(w) \/ ReportFailed(w) \/ ReportGaveUp(w) \/ Dequeue(w)

Init == /\ topic = << >> /\ queue = << >> /\ applied = 0
        /\ phase = "rebuild" /\ head_pos = 0
        /\ registry = NoWorker /\ worker = [w \in Workers |-> Off]
        /\ restarts = 0 /\ sent = << >>

Next == \/ \E a \in Activities : Queue(a)
        \/ Tick \/ Apply \/ Start \/ Restart
        \/ \E w \in Workers : Work(w) \/ Retire(w)

Spec == Init /\ [][Next]_vars

\* Tasks and the projection keep running, and time passes.
FairSpec == Spec /\ WF_vars(Tick) /\ WF_vars(Apply) /\ WF_vars(Start)
                 /\ \A w \in Workers : WF_vars(Work(w))
-----------------------------------------------------------------------------
TypeOK ==
    /\ \A i \in 1 .. Len(topic) :
          topic[i] \in [type : {"queued", "attempting", "failed", "done", "gave_up"},
                        act : Activities, n : Nat, age : 0 .. Cap]
    /\ DOMAIN queue \subseteq Activities
    /\ \A a \in DOMAIN queue :
          /\ queue[a].attempt \in Nat
          /\ {queue[a].attempt_at, queue[a].failed_at, queue[a].first_attempt_at}
                \subseteq 0 .. Len(topic)
    /\ applied \in 0 .. Len(topic) /\ head_pos \in 0 .. Len(topic)
    /\ phase \in {"rebuild", "live"} /\ registry \in Workers \cup {NoWorker}
    /\ \A w \in Workers : worker[w].pc \in {"off", "look", "idle", "retired", "claim", "send", "sent",
                                            "failed", "dequeue", "give_up", "forget"}

\* However many workers compete for the recipient, before and after restarts, each
\* attempt at a delivery is sent at most once.
AttemptSentOnce ==
    \A i, j \in 1 .. Len(sent) :
       i # j => <<sent[i].act, sent[i].n>> # <<sent[j].act, sent[j].n>>

\* Attempts are numbered without holes, so the backoff and the give-up count what
\* really happened, although rows are read stale and claims are lost.
AttemptsContiguous ==
    \A i \in 1 .. Len(topic) :
       topic[i].type = "attempting" /\ topic[i].n > 1 =>
          \E j \in 1 .. i - 1 : /\ topic[j].type = "attempting" /\ topic[j].act = topic[i].act
                                /\ topic[j].n = topic[i].n - 1

\* A recipient gets its deliveries in the order in which they were queued: one is
\* started only when every earlier one has ended, in the topic, not only in a table.
FirstInFirstOut ==
    \A i \in 1 .. Len(topic) :
       topic[i].type = "attempting" =>
          \A k \in 1 .. QueuedAt(topic[i].act) - 1 :
             topic[k].type = "queued" =>
                \E j \in 1 .. i - 1 : /\ topic[j].type \in {"done", "gave_up"}
                                      /\ topic[j].act = topic[k].act

\* As long as sends are prompt and the process does not end, no recipient gets an
\* activity twice: the lease keeps the other worker away until "done" is seen.
DeliveredOnce ==
    PromptSend /\ PromptApply /\ restarts = 0 =>
       \A i, j \in 1 .. Len(sent) : i # j /\ sent[i].ok /\ sent[j].ok => sent[i].act # sent[j].act

\* A later attempt is claimed only when the one before has failed and its backoff is
\* over, or when its lease has expired.
RetryIsDue ==
    [][ \A a \in Activities, n \in 1 .. Len(topic) :
          ~Published("attempting", a, n + 1) /\ Published("attempting", a, n + 1)' =>
             \/ \E i \in 1 .. Len(topic) : /\ topic[i].type = "attempting" /\ topic[i].act = a
                                           /\ topic[i].n = n /\ topic[i].age >= LEASE
             \/ \E i \in 1 .. Len(topic) : /\ topic[i].type = "failed" /\ topic[i].act = a
                                           /\ topic[i].n = n /\ topic[i].age >= Backoff(n) ]_vars

\* Every queued delivery is done or given up in the end, across idle workers that
\* retire, lost claims, restarts and a recipient that never answers.
EveryDeliveryEnds ==
    \A a \in Activities : Published("queued", a, 0) ~> Ended(a)

\* With prompt sends: nothing is delivered twice, and no attempt comes before it is due.
OnceAndInTime == []DeliveredOnce /\ RetryIsDue
=============================================================================
