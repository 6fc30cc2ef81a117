----------------------------- MODULE PreviewProofs -----------------------------
(***************************************************************************)
(* For any objects, media, tasks and limits: what preview_activities       *)
(* forwards names no preview that does not exist; and as long as no work   *)
(* arrives for a key whose idle task is leaving (~Overlap), one task works *)
(* on a key, nothing is dropped, and an object's creation and updates keep *)
(* their order, across any number of restarts.                             *)
(*                                                                         *)
(* The argument goes along the way of an activity: the queue of its key,   *)
(* the activity held by the step, the topic. On each stretch the positions *)
(* ascend, and what is forwarded of a key is the beginning of that key.    *)
(***************************************************************************)
EXTENDS PreviewActivities, TLAPS

Slots == [at : States, key : Keys, idle : 0 .. IDLE_LIMIT]
Verbs == {"Create", "Update", "Delete"}
Positions == 1 .. MaxActivity
Acts == [verb : Verbs, obj : Objects]
Entries == [pos : Positions, claims : SUBSET Previews]

WorkersTyped == registry \in [Keys -> Tasks \cup {NoTask}] /\ task \in [Tasks -> Slots]

Typed ==
    /\ WorkersTyped /\ queue \in [Keys -> Seq(Positions)]
    /\ activities \in Seq(Acts) /\ Len(activities) <= MaxActivity
    /\ position \in 0 .. Len(activities)
    /\ pending \in [Keys -> 0 .. MaxActivity] /\ failed \in [Positions -> SUBSET Previews]
    /\ hand \in [Tasks -> 0 .. MaxActivity] /\ plan \in [Tasks -> Previews \cup {Delay, Publishing}]
    /\ noted \subseteq made /\ made \subseteq Previews
    /\ forwarded \in Seq(Entries)
    /\ \A j \in 1 .. Len(forwarded) : forwarded[j].pos <= Len(activities)

\* Who is registered for a key is at work on it.
Registered == \A k \in Keys : registry[k] # NoTask => Runs(registry[k], k)

\* Everything on its way was read and belongs to the key it waits for.
Of(i, k) == i \in 1 .. position /\ ObjectKey(activities[i]) = k
Traced ==
    /\ \A k \in Keys : \A n \in 1 .. Len(queue[k]) : Of(queue[k][n], k)
    /\ \A k \in Keys : pending[k] # 0 => Of(pending[k], k)
    /\ \A t \in Tasks : /\ hand[t] # 0 => InStep(t) /\ Of(hand[t], task[t].key)
                        /\ plan[t] # Delay => hand[t] # 0

\* A queue ascends, beyond the activity held and the one a task is at.
Ascending ==
    /\ \A k \in Keys : \A m, n \in 1 .. Len(queue[k]) : m < n => queue[k][m] < queue[k][n]
    /\ \A k \in Keys : \A n \in 1 .. Len(queue[k]) : pending[k] < queue[k][n]
    /\ \A t \in Tasks : \A n \in 1 .. Len(queue[task[t].key]) : hand[t] < queue[task[t].key][n]

\* Who is about to forward has found every preview, or has struck it out.
Verified == \A t \in Tasks : plan[t] = Publishing => WithoutFailed(hand[t]) \subseteq noted

\* Holds whenever work arrives.
Always == Typed /\ Registered /\ Traced /\ Ascending /\ Verified /\ ClaimsAreTrue

Busy(t, k) == Runs(t, k) \/ Leaves(t, k)
Exclusive == \A k \in Keys, s, t \in Tasks : Busy(s, k) /\ Busy(t, k) => s = t
RunnersRegistered == \A k \in Keys, t \in Tasks : Runs(t, k) => registry[k] = t
HandIsPending == \A t \in Tasks : hand[t] # 0 => pending[task[t].key] = hand[t]

SameKey(i, j) == ObjectKey(activities[i]) = ObjectKey(activities[j])
\* What is forwarded of a key is a beginning of it, in order.
BeginningForwarded ==
    \A j \in 1 .. Len(forwarded) : \A i \in 1 .. Len(activities) :
       i <= forwarded[j].pos /\ SameKey(i, forwarded[j].pos) => IsForwarded(i)
InKeyOrder ==
    \A a, b \in 1 .. Len(forwarded) :
       a < b /\ SameKey(forwarded[a].pos, forwarded[b].pos) => forwarded[a].pos < forwarded[b].pos

\* Holds while no work arrives for a key whose task is leaving.
Alone == /\ Exclusive /\ RunnersRegistered /\ HandIsPending
         /\ NothingDropped /\ BeginningForwarded /\ InKeyOrder

IInv == Always /\ (~Overlap => Alone)
-----------------------------------------------------------------------------
(* The workers: what a step of theirs does to the registry. *)
LEMMA FreeIsSlot == Free \in Slots
<1>1. Keys # {}
  <2>1. PICK o \in Objects : TRUE
    BY PreviewAssumption
  <2>2. <<o, "object">> \in Keys
    BY PreviewAssumption
  <2> QED BY <2>2
<1>2. (CHOOSE k \in Keys : TRUE) \in Keys
  BY <1>1
<1>3. IDLE_LIMIT \in Nat
  BY WorkersAssumption
<1> QED BY <1>2, <1>3 DEF Free, Slots, States

\* A task that returns from its step is out of it, keeps its key unless it is free, and
\* touches the slot of no other task.
LEMMA ReturnFrees ==
  ASSUME WorkersTyped, Registered, NEW t \in Tasks, NEW worked \in BOOLEAN, Return(t, worked)
  PROVE  /\ WorkersTyped' /\ Registered' /\ InStep(t) /\ ~InStep(t)'
         /\ task'[t].at # "free" => task'[t].key = task[t].key
         /\ \A s \in Tasks : s # t => task'[s] = task[s]
<1>1. IDLE_LIMIT \in Nat \ {0} /\ NoTask \notin Tasks
  BY WorkersAssumption
<1>2. task \in [Tasks -> Slots] /\ registry \in [Keys -> Tasks \cup {NoTask}]
  BY DEF WorkersTyped
<1>3. task[t] \in Slots /\ task[t].key \in Keys /\ task[t].idle \in 0 .. IDLE_LIMIT
  BY <1>2 DEF Slots
<1>4. Idle(t, worked) \in Nat
  BY <1>1, <1>3 DEF Idle
<1>5. ASSUME NEW at \in States, NEW idle \in 0 .. IDLE_LIMIT,
             task' = [task EXCEPT ![t].at = at, ![t].idle = idle], at \notin {"step", "look"}
      PROVE  /\ task' \in [Tasks -> Slots] /\ ~InStep(t)'
             /\ task'[t].at = at /\ task'[t].key = task[t].key
             /\ \A s \in Tasks : s # t => task'[s] = task[s]
  <2>1. task' \in [Tasks -> Slots]
    BY <1>2, <1>5 DEF Slots
  <2>2. task'[t].at = at /\ task'[t].key = task[t].key
    BY <1>2, <1>5 DEF Slots
  <2>3. \A s \in Tasks : s # t => task'[s] = task[s]
    BY <1>2, <1>5
  <2> QED BY <1>5, <2>1, <2>2, <2>3 DEF InStep
<1>6. CASE StaysInLoop(t, worked)
  <2>1. Idle(t, worked) \in 0 .. IDLE_LIMIT
    BY <1>1, <1>4, <1>6 DEF StaysInLoop
  <2>2. /\ task' \in [Tasks -> Slots] /\ ~InStep(t)'
        /\ task'[t].at = "sleep" /\ task'[t].key = task[t].key
        /\ \A s \in Tasks : s # t => task'[s] = task[s]
    BY <1>5, <1>6, <2>1 DEF StaysInLoop, States
  <2> QED BY <1>2, <1>6, <2>2 DEF StaysInLoop, WorkersTyped, Registered, Runs, InStep
<1>7. CASE LeavesRegistry(t, worked) \/ FoundWork(t)
  <2> DEFINE at == IF LeavesRegistry(t, worked) THEN "leave" ELSE "sleep"
  <2>1. /\ task' \in [Tasks -> Slots] /\ ~InStep(t)'
        /\ task'[t].at = at /\ task'[t].key = task[t].key
        /\ \A s \in Tasks : s # t => task'[s] = task[s]
    <3>1. CASE LeavesRegistry(t, worked)
      <4>1. task' = [task EXCEPT ![t].at = "leave", ![t].idle = IDLE_LIMIT] /\ "leave" \in States
        BY <3>1 DEF LeavesRegistry, States
      <4> HIDE DEF at
      <4>2. at = "leave" /\ IDLE_LIMIT \in 0 .. IDLE_LIMIT
        BY <1>1, <3>1 DEF at
      <4> QED BY <1>5, <4>1, <4>2
    <3>2. CASE FoundWork(t)
      <4>1. task' = [task EXCEPT ![t].at = "sleep", ![t].idle = 0] /\ "sleep" \in States
        BY <3>2 DEF FoundWork, States
      <4>2. ~LeavesRegistry(t, worked)
        BY <3>2 DEF FoundWork, LeavesRegistry
      <4> HIDE DEF at
      <4>3. at = "sleep" /\ 0 \in 0 .. IDLE_LIMIT
        BY <1>1, <4>2 DEF at
      <4> QED BY <1>5, <4>1, <4>3
    <3> QED BY <1>7, <3>1, <3>2
  <2>2. CASE LeavesRegistry(t, worked)
    <3>1. registry' = [registry EXCEPT ![task[t].key] = NoTask] /\ InStep(t)
      BY <2>2 DEF LeavesRegistry, InStep
    <3>2. Registered'
      BY <1>2, <1>3, <2>1, <3>1 DEF Registered, Runs
    <3> QED BY <1>2, <2>1, <3>1, <3>2 DEF WorkersTyped
  <2>3. CASE FoundWork(t)
    <3>1. registry' = [registry EXCEPT ![task[t].key] = t] /\ InStep(t) /\ at = "sleep" /\ task[t].at = "look"
      BY <2>3 DEF FoundWork, InStep, LeavesRegistry
    <3>2. Registered'
      BY <1>2, <1>3, <2>1, <3>1 DEF Registered, Runs
    <3> QED BY <1>2, <2>1, <3>1, <3>2 DEF WorkersTyped
  <2> QED BY <1>7, <2>2, <2>3
<1>8. CASE Ends(t)
  BY <1>1, <1>2, <1>3, <1>8, FreeIsSlot DEF Ends, WorkersTyped, Registered, Runs, InStep, Free
<1> QED BY <1>6, <1>7, <1>8 DEF Return

\* Nor does it let a second task work on its key.
LEMMA ReturnKeepsAlone ==
  ASSUME WorkersTyped, Registered, Exclusive, RunnersRegistered,
         NEW t \in Tasks, NEW worked \in BOOLEAN, Return(t, worked)
  PROVE  Exclusive' /\ RunnersRegistered'
<1>1. task \in [Tasks -> Slots] /\ registry \in [Keys -> Tasks \cup {NoTask}] /\ task[t].key \in Keys
  BY DEF WorkersTyped, Slots
<1>2. \A s \in Tasks : s # t => task'[s] = task[s]
  BY ReturnFrees
<1>3. InStep(t) /\ (task'[t].at # "free" => task'[t].key = task[t].key)
  BY ReturnFrees
<1>4. \A s \in Tasks, k \in Keys : Busy(s, k)' => Busy(s, k)
  BY <1>1, <1>2, <1>3 DEF Busy, Runs, Leaves, InStep, Return, Ends, Free
<1>5. Exclusive'
  BY <1>4 DEF Exclusive
<1>6. \A s \in Tasks : s # t => ~Busy(s, task[t].key)
  BY <1>1, <1>3 DEF Exclusive, Busy, Runs, Leaves, InStep
<1>7. \A k \in Keys : k # task[t].key => registry'[k] = registry[k]
  BY <1>1 DEF Return, StaysInLoop, LeavesRegistry, FoundWork, Ends
<1>8. Runs(t, task[t].key)' => registry'[task[t].key] = t
  <2>1. CASE StaysInLoop(t, worked)
    BY <1>1, <2>1 DEF StaysInLoop, RunnersRegistered, Runs
  <2>2. CASE LeavesRegistry(t, worked)
    BY <1>1, <2>2 DEF LeavesRegistry, Runs
  <2>3. CASE FoundWork(t)
    BY <1>1, <2>3 DEF FoundWork
  <2>4. CASE Ends(t)
    BY <1>1, <2>4 DEF Ends, Free, Runs
  <2> QED BY <2>1, <2>2, <2>3, <2>4 DEF Return
<1>9. RunnersRegistered'
  <2> SUFFICES ASSUME NEW k \in Keys, NEW s \in Tasks, Runs(s, k)' PROVE registry'[k] = s
    BY DEF RunnersRegistered
  <2>1. CASE s = t
    BY <1>3, <1>8, <2>1 DEF Runs
  <2>2. CASE s # t
    <3>1. Runs(s, k)
      BY <1>2, <2>2 DEF Runs
    <3>2. k # task[t].key
      BY <1>6, <2>2, <3>1 DEF Busy
    <3> QED BY <1>7, <3>1, <3>2 DEF RunnersRegistered
  <2> QED BY <2>1, <2>2
<1> QED BY <1>5, <1>9

\* An activity that is submitted is put behind the others of its key, and a task is
\* started for it when none is registered.
LEMMA SubmitFacts ==
  ASSUME Typed, Registered, NEW k \in Keys, NEW i \in Positions, Submit(k, i)
  PROVE  /\ queue' \in [Keys -> Seq(Positions)]
         /\ \A l \in Keys : l # k => queue'[l] = queue[l]
         /\ Len(queue'[k]) = Len(queue[k]) + 1 /\ queue'[k][Len(queue[k]) + 1] = i
         /\ \A n \in 1 .. Len(queue[k]) : queue'[k][n] = queue[k][n]
         /\ WorkersTyped' /\ Registered'
         /\ \A t \in Tasks : task'[t] # task[t] =>
               /\ task[t].at = "free" /\ task'[t].key = k
               /\ registry[k] = NoTask /\ registry' = [registry EXCEPT ![k] = t]
               /\ \A s \in Tasks : s # t => task'[s] = task[s]
<1>1. queue \in [Keys -> Seq(Positions)] /\ queue[k] \in Seq(Positions)
  BY DEF Typed
<1>2. queue' = [queue EXCEPT ![k] = Append(queue[k], i)] /\ Append(queue[k], i) \in Seq(Positions)
  BY <1>1 DEF Submit
<1>3. queue' \in [Keys -> Seq(Positions)] /\ \A l \in Keys : l # k => queue'[l] = queue[l]
  BY <1>1, <1>2
<1>4. queue'[k] = Append(queue[k], i)
  BY <1>1, <1>2
<1>5. /\ Len(queue'[k]) = Len(queue[k]) + 1 /\ queue'[k][Len(queue[k]) + 1] = i
      /\ \A n \in 1 .. Len(queue[k]) : queue'[k][n] = queue[k][n]
  BY <1>1, <1>4
<1>6. task \in [Tasks -> Slots] /\ registry \in [Keys -> Tasks \cup {NoTask}] /\ NoTask \notin Tasks
  BY WorkersAssumption DEF Typed, WorkersTyped
<1>7. CASE registry[k] # NoTask
  BY <1>3, <1>5, <1>7 DEF Submit, EnsureTask, Typed, WorkersTyped, Registered, Runs
<1>8. CASE registry[k] = NoTask
  <2>1. PICK t \in Tasks : /\ task[t].at = "free" /\ registry' = [registry EXCEPT ![k] = t]
                           /\ task' = [task EXCEPT ![t] = [at |-> "step", key |-> k, idle |-> 0]]
    BY <1>8 DEF Submit, EnsureTask
  <2>2. [at |-> "step", key |-> k, idle |-> 0] \in Slots
    BY WorkersAssumption DEF Slots, States
  <2>3. WorkersTyped'
    BY <1>6, <2>1, <2>2 DEF WorkersTyped
  <2>4. Registered'
    BY <1>6, <2>1 DEF Registered, Runs
  <2>5. task'[t].key = k /\ \A s \in Tasks : s # t => task'[s] = task[s]
    BY <1>6, <2>1
  <2>6. \A s \in Tasks : task'[s] # task[s] =>
           /\ task[s].at = "free" /\ task'[s].key = k
           /\ registry[k] = NoTask /\ registry' = [registry EXCEPT ![k] = s]
           /\ \A x \in Tasks : x # s => task'[x] = task[x]
    <3>1. ASSUME NEW s \in Tasks, task'[s] # task[s]
          PROVE  s = t
      BY <2>5, <3>1
    <3> QED BY <1>8, <2>1, <2>5, <3>1
  <2> QED BY <1>3, <1>5, <2>3, <2>4, <2>6
<1> QED BY <1>7, <1>8
-----------------------------------------------------------------------------
(* What always holds, action by action. *)

\* No preview is taken for one of the two other plans.
LEMMA PlansDiffer == Delay # Publishing /\ {Delay, Publishing} \cap Previews = {}
<1>1. Delay # Publishing
  BY DEF Delay, Publishing
<1>2. Delay \notin Previews
  BY PreviewAssumption DEF Delay, Previews
<1>3. Publishing \notin Previews
  BY PreviewAssumption DEF Publishing, Previews
<1> QED BY <1>1, <1>2, <1>3

\* The key of an activity is a key, and it wants previews.
LEMMA ActivityFacts ==
  ASSUME Typed, NEW i \in 1 .. Len(activities)
  PROVE  /\ activities[i].verb \in Verbs /\ activities[i].obj \in Objects
         /\ ObjectKey(activities[i]) \in Keys /\ Wanted(activities[i]) \subseteq Previews
<1>1. activities[i] \in Acts
  BY DEF Typed
<1>2. Attached[activities[i].obj] \subseteq Media
  BY <1>1, PreviewAssumption DEF Acts
<1> QED BY <1>1, <1>2, PreviewAssumption DEF Acts, ObjectKey, Wanted, Previews

LEMMA AlwaysAtFirst == Init => Always
<1> SUFFICES ASSUME Init PROVE Always
  OBVIOUS
<1>1. IDLE_LIMIT \in Nat /\ MaxActivity \in Nat
  BY WorkersAssumption, PreviewAssumption
<1>2. Typed
  BY <1>1, FreeIsSlot DEF Init, WorkersInit, Typed, WorkersTyped, Positions
<1>3. Registered
  BY DEF Init, WorkersInit, Registered
<1>4. Traced /\ Ascending /\ Verified /\ ClaimsAreTrue
  <2>1. /\ queue = [k \in Keys |-> << >>] /\ forwarded = << >> /\ \A t \in Tasks : task[t].key \in Keys
        /\ hand = [t \in Tasks |-> 0] /\ plan = [t \in Tasks |-> Delay] /\ pending = [k \in Keys |-> 0]
    BY FreeIsSlot DEF Init, WorkersInit, Slots
  <2> QED BY <2>1, PlansDiffer DEF Traced, Ascending, Verified, ClaimsAreTrue
<1> QED BY <1>2, <1>3, <1>4 DEF Always

\* A new activity changes nothing about the earlier ones.
LEMMA TopicGrows ==
  ASSUME Typed, NEW verb \in Verbs, NEW o \in Objects, Activity(verb, o)
  PROVE  /\ activities' \in Seq(Acts)
         /\ Len(activities') = Len(activities) + 1 /\ Len(activities') <= MaxActivity
         /\ \A i \in 1 .. Len(activities) : activities'[i] = activities[i]
<1>1. activities \in Seq(Acts) /\ MaxActivity \in Nat
  BY PreviewAssumption DEF Typed
<1>2. activities' = Append(activities, [verb |-> verb, obj |-> o]) /\ Len(activities) < MaxActivity
  BY DEF Activity
<1>3. [verb |-> verb, obj |-> o] \in Acts
  BY DEF Acts
<1> QED BY <1>1, <1>2, <1>3

LEMMA AlwaysActivity ==
  ASSUME Always, NEW verb \in Verbs, NEW o \in Objects, Activity(verb, o)
  PROVE  Always'
<1>1. Typed /\ Len(activities) \in Nat /\ position \in 0 .. Len(activities)
  BY DEF Always, Typed
<1>2. /\ activities' \in Seq(Acts)
      /\ Len(activities') = Len(activities) + 1 /\ Len(activities') <= MaxActivity
      /\ \A i \in 1 .. Len(activities) : activities'[i] = activities[i]
  BY <1>1, TopicGrows
<1>3. UNCHANGED <<workerVars, position, pendVars, hand, plan, mediaVars, forwarded>>
  BY DEF Activity
<1>4. Typed'
  <2>1. position' \in 0 .. Len(activities') /\ \A j \in 1 .. Len(forwarded') : forwarded'[j].pos <= Len(activities')
    <3>1. \A j \in 1 .. Len(forwarded) : forwarded[j] \in Entries /\ forwarded[j].pos <= Len(activities)
      BY <1>1 DEF Typed
    <3> QED BY <1>1, <1>2, <1>3, <3>1 DEF Positions, Entries
  <2> QED BY <1>1, <1>2, <1>3, <2>1 DEF Typed, WorkersTyped, workerVars, pendVars, mediaVars
<1>5. Registered' /\ Ascending' /\ ClaimsAreTrue'
  BY <1>3 DEF Always, Registered, Runs, Ascending, ClaimsAreTrue, workerVars, pendVars, mediaVars
<1>6. \A i, k : Of(i, k) => Of(i, k)'
  BY <1>1, <1>2, <1>3 DEF Of
<1>7. Traced'
  BY <1>3, <1>6 DEF Always, Traced, InStep, workerVars, pendVars
<1>8. Verified'
  <2> SUFFICES ASSUME NEW t \in Tasks, plan[t] = Publishing
               PROVE  WithoutFailed(hand[t])' \subseteq noted
    BY <1>3 DEF Verified, mediaVars
  <2>1. hand[t] \in 1 .. position
    BY PlansDiffer DEF Always, Traced, Of
  <2>2. activities'[hand[t]] = activities[hand[t]]
    BY <1>1, <1>2, <2>1
  <2> QED BY <1>3, <2>2 DEF Always, Verified, WithoutFailed, pendVars
<1> QED BY <1>4, <1>5, <1>7, <1>8 DEF Always
\* Positions are numbers, and nothing on its way lies beyond the last one read.
LEMMA OnTheWay ==
  ASSUME Always
  PROVE  /\ Typed /\ WorkersTyped /\ Registered /\ MaxActivity \in Nat
         /\ Len(activities) \in Nat /\ Len(activities) <= MaxActivity /\ position \in 0 .. Len(activities)
         /\ position \in Nat /\ position <= MaxActivity
         /\ \A k \in Keys : /\ pending[k] \in 0 .. position /\ Len(queue[k]) \in Nat
                            /\ \A n \in 1 .. Len(queue[k]) : queue[k][n] \in 1 .. position
         /\ \A t \in Tasks : hand[t] \in 0 .. position
<1>1. Typed /\ WorkersTyped /\ Registered /\ Traced
  BY DEF Always, Typed
<1>2. Len(activities) \in Nat /\ Len(activities) <= MaxActivity /\ position \in 0 .. Len(activities)
  BY <1>1 DEF Typed
<1>3. \A k \in Keys : Len(queue[k]) \in Nat
  BY <1>1 DEF Typed
<1>4. position \in Nat /\ MaxActivity \in Nat /\ position <= MaxActivity
  <2>1. MaxActivity \in Nat
    BY PreviewAssumption
  <2> QED BY <1>2, <2>1
<1>5. \A k \in Keys : pending[k] \in 0 .. MaxActivity
  BY <1>1 DEF Typed
<1>6. \A k \in Keys : pending[k] \in 0 .. position
  <2> SUFFICES ASSUME NEW k \in Keys PROVE pending[k] \in 0 .. position
    OBVIOUS
  <2>1. pending[k] # 0 => pending[k] \in 1 .. position
    BY <1>1 DEF Traced, Of
  <2> QED BY <1>4, <2>1
<1>7. \A t \in Tasks : hand[t] \in 0 .. MaxActivity
  BY <1>1 DEF Typed
<1>8. \A t \in Tasks : hand[t] \in 0 .. position
  BY <1>1, <1>4, <1>7 DEF Traced, Of
<1>9. \A k \in Keys : \A n \in 1 .. Len(queue[k]) : queue[k][n] \in 1 .. position
  BY <1>1 DEF Traced, Of
<1> QED BY <1>1, <1>2, <1>3, <1>4, <1>6, <1>8, <1>9

LEMMA AlwaysRead == ASSUME Always, Read PROVE Always'
<1>1. /\ Typed /\ Registered /\ MaxActivity \in Nat /\ Len(activities) <= MaxActivity
      /\ Len(activities) \in Nat /\ position \in 0 .. Len(activities)
  BY OnTheWay
<1>2. PICK i \in Positions : i = position + 1 /\ i \in 1 .. Len(activities) /\ position' = i
  BY <1>1 DEF Read, Positions
<1>3. PICK k \in Keys : k = ObjectKey(activities[i])
  BY <1>1, <1>2, ActivityFacts
<1>4. Submit(k, i) /\ UNCHANGED <<activities, pendVars, hand, plan, mediaVars, forwarded>>
  BY <1>2, <1>3 DEF Read
<1>5. /\ queue' \in [Keys -> Seq(Positions)]
      /\ \A l \in Keys : l # k => queue'[l] = queue[l]
      /\ Len(queue'[k]) = Len(queue[k]) + 1 /\ queue'[k][Len(queue[k]) + 1] = i
      /\ \A n \in 1 .. Len(queue[k]) : queue'[k][n] = queue[k][n]
      /\ WorkersTyped' /\ Registered'
      /\ \A t \in Tasks : task'[t] # task[t] => task[t].at = "free"
  BY <1>1, <1>2, <1>3, <1>4, SubmitFacts
<1>6. Typed'
  BY <1>1, <1>2, <1>4, <1>5 DEF Typed, pendVars, mediaVars
<1>7. \A j, l : Of(j, l) => Of(j, l)'
  BY <1>1, <1>2, <1>4 DEF Of
<1>8. Of(i, k)'
  BY <1>1, <1>2, <1>3, <1>4 DEF Of
<1>9. \A t \in Tasks : hand[t] # 0 => task'[t] = task[t]
  BY <1>5 DEF Always, Traced, InStep
<1>10. \A l \in Keys : Len(queue[l]) \in Nat
  BY <1>1 DEF Typed
<1>11. \A l \in Keys : \A n \in 1 .. Len(queue[l])' :
          \/ n \in 1 .. Len(queue[l]) /\ queue'[l][n] = queue[l][n]
          \/ l = k /\ n = Len(queue[k]) + 1 /\ queue'[l][n] = i
  BY <1>3, <1>5, <1>10
<1>12. Traced'
  <2>1. \A l \in Keys : \A n \in 1 .. Len(queue[l])' : Of(queue[l][n], l)'
    <3> SUFFICES ASSUME NEW l \in Keys, NEW n \in 1 .. Len(queue[l])' PROVE Of(queue[l][n], l)'
      OBVIOUS
    <3>1. CASE n \in 1 .. Len(queue[l]) /\ queue'[l][n] = queue[l][n]
      <4>1. Of(queue[l][n], l)
        BY <3>1 DEF Always, Traced
      <4> QED BY <1>1, <1>2, <1>4, <3>1, <4>1 DEF Of
    <3>2. CASE l = k /\ queue'[l][n] = i
      BY <1>8, <3>2 DEF Of
    <3> QED BY <1>11, <3>1, <3>2
  <2>2. \A l \in Keys : pending'[l] # 0 => Of(pending[l], l)'
    BY <1>4, <1>7 DEF Always, Traced, pendVars
  <2>3. \A t \in Tasks : hand'[t] # 0 => InStep(t)' /\ Of(hand[t], task[t].key)'
    BY <1>4, <1>7, <1>9 DEF Always, Traced, InStep
  <2> QED BY <1>4, <2>1, <2>2, <2>3 DEF Always, Traced
<1>13. \A l \in Keys : /\ pending[l] \in Nat /\ pending[l] < i
                       /\ \A n \in 1 .. Len(queue[l]) : queue[l][n] \in Nat /\ queue[l][n] < i
  BY <1>1, <1>2, OnTheWay
<1>14. \A t \in Tasks : hand[t] \in Nat /\ hand[t] < i
  BY <1>1, <1>2, OnTheWay
<1>15. Ascending'
  <2>1. \A l \in Keys : \A m, n \in 1 .. Len(queue[l])' : m < n => queue'[l][m] < queue'[l][n]
    <3> SUFFICES ASSUME NEW l \in Keys, NEW m \in 1 .. Len(queue[l])', NEW n \in 1 .. Len(queue[l])', m < n
                 PROVE  queue'[l][m] < queue'[l][n]
      OBVIOUS
    <3>1. m \in 1 .. Len(queue[l]) /\ queue'[l][m] = queue[l][m]
      BY <1>5, <1>10, <1>11
    <3> QED BY <1>11, <1>13, <3>1 DEF Always, Ascending
  <2>2. \A l \in Keys : \A n \in 1 .. Len(queue[l])' : pending'[l] < queue'[l][n]
    BY <1>4, <1>11, <1>13 DEF Always, Ascending, pendVars
  <2>3. ASSUME NEW t \in Tasks, NEW n \in 1 .. Len(queue[task[t].key])'
        PROVE  hand'[t] < queue'[task'[t].key][n]
    <3>1. task'[t].key \in Keys
      BY <1>5 DEF WorkersTyped, Slots
    <3>2. CASE hand[t] = 0
      <4>1. queue'[task'[t].key][n] \in Positions
        BY <1>5, <2>3, <3>1
      <4> QED BY <1>4, <3>2, <4>1 DEF Positions
    <3>3. CASE hand[t] # 0
      BY SMTT(30), <1>4, <1>9, <1>11, <1>14, <2>3, <3>1, <3>3 DEF Always, Ascending
    <3> QED BY <3>2, <3>3
  <2> QED BY <2>1, <2>2, <2>3 DEF Ascending
<1>16. Verified' /\ ClaimsAreTrue'
  BY <1>4 DEF Always, Verified, WithoutFailed, ClaimsAreTrue, pendVars, mediaVars
<1> QED BY <1>5, <1>6, <1>12, <1>15, <1>16 DEF Always
\* A task that ends its step puts its activity down; what was struck out stays so.
LEMMA PutsDown ==
  ASSUME Always, NEW t \in Tasks, NEW worked \in BOOLEAN, Done(t, worked),
         UNCHANGED <<queue, activities, position, noted>>,
         pending' = pending \/ pending' = [pending EXCEPT ![task[t].key] = 0],
         failed' \in [Positions -> SUBSET Previews], \A i \in Positions : failed[i] \subseteq failed'[i]
  PROVE  /\ WorkersTyped' /\ Registered' /\ Traced' /\ Ascending' /\ Verified'
         /\ pending' \in [Keys -> 0 .. MaxActivity] /\ hand' \in [Tasks -> 0 .. MaxActivity]
         /\ plan' \in [Tasks -> Previews \cup {Delay, Publishing}]
<1>1. Typed /\ WorkersTyped /\ Registered /\ MaxActivity \in Nat /\ Return(t, worked)
  BY OnTheWay DEF Done
<1>2. /\ WorkersTyped' /\ Registered' /\ InStep(t)
      /\ \A s \in Tasks : s # t => task'[s] = task[s]
  BY <1>1, ReturnFrees
<1>3. hand' = [hand EXCEPT ![t] = 0] /\ plan' = [plan EXCEPT ![t] = Delay]
  BY DEF Done
<1>4. /\ pending' \in [Keys -> 0 .. MaxActivity] /\ hand' \in [Tasks -> 0 .. MaxActivity]
      /\ plan' \in [Tasks -> Previews \cup {Delay, Publishing}]
  <2>1. /\ pending \in [Keys -> 0 .. MaxActivity] /\ hand \in [Tasks -> 0 .. MaxActivity]
        /\ plan \in [Tasks -> Previews \cup {Delay, Publishing}] /\ 0 \in 0 .. MaxActivity
    BY <1>1 DEF Typed
  <2>2. pending' \in [Keys -> 0 .. MaxActivity]
    BY <2>1
  <2>3. hand' \in [Tasks -> 0 .. MaxActivity]
    BY <1>3, <2>1
  <2>4. plan' \in [Tasks -> Previews \cup {Delay, Publishing}]
    BY <1>3, <2>1
  <2> QED BY <2>2, <2>3, <2>4
<1>5. \A s \in Tasks : \/ s = t /\ hand'[s] = 0 /\ plan'[s] = Delay
                       \/ s # t /\ hand'[s] = hand[s] /\ plan'[s] = plan[s] /\ task'[s] = task[s]
  BY <1>1, <1>2, <1>3 DEF Typed
<1>6. \A k \in Keys : pending'[k] = pending[k] \/ pending'[k] = 0
  BY <1>1 DEF Typed
<1>7. Traced'
  BY <1>5, <1>6 DEF Always, Traced, Of, InStep
<1>8. Ascending'
  <2>1. \A k \in Keys : \A n \in 1 .. Len(queue[k]) : queue[k][n] \in Nat /\ 0 < queue[k][n]
    BY <1>1 DEF Always, Traced, Of, Typed
  <2>2. \A k \in Keys : \A n \in 1 .. Len(queue[k]) : pending'[k] < queue[k][n]
    BY <1>6, <2>1 DEF Always, Ascending
  <2>3. ASSUME NEW s \in Tasks, NEW n \in 1 .. Len(queue'[task'[s].key])
        PROVE  hand'[s] < queue'[task'[s].key][n]
    <3>1. task'[s].key \in Keys
      BY <1>2 DEF WorkersTyped, Slots
    <3>2. CASE s = t
      BY <1>5, <2>1, <2>3, <3>1, <3>2
    <3>3. CASE s # t
      BY <1>5, <2>3, <3>3 DEF Always, Ascending
    <3> QED BY <3>2, <3>3
  <2> QED BY <2>2, <2>3 DEF Always, Ascending
<1>9. Verified'
  <2> SUFFICES ASSUME NEW s \in Tasks, plan'[s] = Publishing
               PROVE  WithoutFailed(hand[s])' \subseteq noted
    BY DEF Verified
  <2>1. hand'[s] = hand[s] /\ plan[s] = Publishing
    BY <1>5, PlansDiffer
  <2>2. hand[s] \in Positions
    BY <1>1, <2>1, PlansDiffer DEF Always, Typed, Traced, Of, Positions
  <2> QED BY <2>1, <2>2 DEF Always, Verified, WithoutFailed
<1> QED BY <1>2, <1>4, <1>7, <1>8, <1>9
\* So does a step that ends without a word about the topics.
LEMMA AlwaysEndsStep ==
  ASSUME Always, NEW t \in Tasks, NotReady(t) \/ Break(t) \/ CannotProduce(t) \/ Produced(t)
  PROVE  Always'
<1>1. Typed /\ MaxActivity \in Nat
  BY OnTheWay
<1>2. PICK worked \in BOOLEAN : Done(t, worked)
  BY DEF NotReady, Break, CannotProduce, Produced
<1>3. UNCHANGED <<queue, activities, position, noted, pending, forwarded>>
  BY DEF NotReady, Break, CannotProduce, Produced, pendVars, mediaVars
<1>4. made \subseteq made' /\ made' \subseteq Previews
  BY <1>1 DEF NotReady, Break, CannotProduce, Produced, mediaVars, Typed
<1>5. failed' \in [Positions -> SUBSET Previews] /\ \A i \in Positions : failed[i] \subseteq failed'[i]
  <2>1. CASE failed' = failed
    BY <1>1, <2>1 DEF Typed
  <2>2. CASE CannotProduce(t)
    BY <1>1, <2>2 DEF Typed, CannotProduce
  <2> QED BY <2>1, <2>2 DEF NotReady, Break, Produced, pendVars
<1>6. /\ WorkersTyped' /\ Registered' /\ Traced' /\ Ascending' /\ Verified'
      /\ pending' \in [Keys -> 0 .. MaxActivity] /\ hand' \in [Tasks -> 0 .. MaxActivity]
      /\ plan' \in [Tasks -> Previews \cup {Delay, Publishing}]
  BY <1>2, <1>3, <1>5, PutsDown
<1>7. Typed'
  BY <1>1, <1>3, <1>4, <1>5, <1>6 DEF Typed
<1>8. ClaimsAreTrue'
  BY <1>3, <1>4 DEF Always, ClaimsAreTrue
<1> QED BY <1>6, <1>7, <1>8 DEF Always

\* What a step adds to the topic is the activity at hand, unless it was forwarded before.
LEMMA ForwardFacts ==
  ASSUME Always, NEW t \in Tasks, Forward(t)
  PROVE  /\ hand[t] \in 1 .. position
         /\ forwarded' \in Seq(Entries) /\ Len(forwarded) \in Nat
         /\ \A j \in 1 .. Len(forwarded) : forwarded[j] \in Entries
         /\ \/ IsForwarded(hand[t]) /\ forwarded' = forwarded
            \/ /\ ~IsForwarded(hand[t]) /\ Len(forwarded') = Len(forwarded) + 1
               /\ \A j \in 1 .. Len(forwarded) : forwarded'[j] = forwarded[j]
               /\ forwarded'[Len(forwarded) + 1] = [pos |-> hand[t], claims |-> WithoutFailed(hand[t])]
<1>1. /\ Typed /\ hand[t] \in 0 .. position /\ position \in 0 .. Len(activities) /\ position \in Nat
      /\ Len(activities) \in Nat /\ Len(activities) <= MaxActivity /\ MaxActivity \in Nat
  BY OnTheWay
<1>2. hand[t] \in 1 .. position /\ hand[t] \in 1 .. Len(activities) /\ hand[t] \in Positions
  BY <1>1 DEF Forward, Positions
<1>3. WithoutFailed(hand[t]) \in SUBSET Previews
  BY <1>1, <1>2, ActivityFacts DEF WithoutFailed
<1> DEFINE entry == [pos |-> hand[t], claims |-> WithoutFailed(hand[t])]
<1>4. entry \in Entries
  BY <1>2, <1>3 DEF Entries
<1>5. forwarded' = IF IsForwarded(hand[t]) THEN forwarded ELSE Append(forwarded, entry)
  BY DEF Forward
<1>6. forwarded \in Seq(Entries)
  BY <1>1 DEF Typed
<1> HIDE DEF entry
<1>7. Len(forwarded) \in Nat /\ \A j \in 1 .. Len(forwarded) : forwarded[j] \in Entries
  BY <1>6
<1>8. /\ Append(forwarded, entry) \in Seq(Entries)
      /\ Len(Append(forwarded, entry)) = Len(forwarded) + 1
      /\ \A j \in 1 .. Len(forwarded) : Append(forwarded, entry)[j] = forwarded[j]
      /\ Append(forwarded, entry)[Len(forwarded) + 1] = entry
  BY <1>4, <1>6
<1> QED BY <1>2, <1>5, <1>6, <1>7, <1>8 DEF entry

LEMMA AlwaysForward == ASSUME Always, NEW t \in Tasks, Forward(t) PROVE Always'
<1>1. Typed /\ MaxActivity \in Nat /\ Len(activities) \in Nat /\ position \in 0 .. Len(activities)
  BY OnTheWay
<1>2. PICK worked \in BOOLEAN : Done(t, worked)
  BY DEF Forward
<1>3. UNCHANGED <<queue, failed, activities, position, mediaVars>>
  BY DEF Forward
<1>4. pending' = [pending EXCEPT ![task[t].key] = 0] /\ plan[t] = Publishing
  BY DEF Forward
<1>5. /\ hand[t] \in 1 .. position
      /\ forwarded' \in Seq(Entries) /\ Len(forwarded) \in Nat
      /\ \A j \in 1 .. Len(forwarded) : forwarded[j] \in Entries
      /\ \/ IsForwarded(hand[t]) /\ forwarded' = forwarded
         \/ /\ ~IsForwarded(hand[t]) /\ Len(forwarded') = Len(forwarded) + 1
            /\ \A j \in 1 .. Len(forwarded) : forwarded'[j] = forwarded[j]
            /\ forwarded'[Len(forwarded) + 1] = [pos |-> hand[t], claims |-> WithoutFailed(hand[t])]
  BY ForwardFacts
<1>6. failed' \in [Positions -> SUBSET Previews] /\ \A i \in Positions : failed[i] \subseteq failed'[i]
  BY <1>1, <1>3 DEF Typed
<1>7. /\ WorkersTyped' /\ Registered' /\ Traced' /\ Ascending' /\ Verified'
      /\ pending' \in [Keys -> 0 .. MaxActivity] /\ hand' \in [Tasks -> 0 .. MaxActivity]
      /\ plan' \in [Tasks -> Previews \cup {Delay, Publishing}]
  BY <1>2, <1>3, <1>4, <1>6, PutsDown DEF mediaVars
<1>8. \A j \in 1 .. Len(forwarded') : forwarded'[j].pos <= Len(activities') /\ forwarded'[j].claims \subseteq made'
  <2>1. WithoutFailed(hand[t]) \subseteq made
    BY <1>1, <1>4 DEF Always, Verified, Typed
  <2>2. \A j \in 1 .. Len(forwarded) : forwarded[j].pos <= Len(activities) /\ forwarded[j].claims \subseteq made
    BY <1>1 DEF Always, ClaimsAreTrue, Typed
  <2>3. CASE forwarded' = forwarded
    BY <1>3, <2>2, <2>3 DEF mediaVars
  <2>4. CASE Len(forwarded') = Len(forwarded) + 1
    <3> SUFFICES ASSUME NEW j \in 1 .. Len(forwarded) + 1
                 PROVE  forwarded'[j].pos <= Len(activities) /\ forwarded'[j].claims \subseteq made
      BY <1>3, <2>4 DEF mediaVars
    <3>1. CASE j \in 1 .. Len(forwarded)
      BY <1>5, <2>2, <2>4, <3>1
    <3>2. CASE j = Len(forwarded) + 1
      BY <1>1, <1>5, <2>1, <2>4, <3>2
    <3> QED BY <1>5, <3>1, <3>2
  <2> QED BY <1>5, <2>3, <2>4
<1>9. Typed'
  BY <1>1, <1>3, <1>5, <1>6, <1>7, <1>8 DEF Typed, mediaVars
<1> QED BY <1>7, <1>8, <1>9 DEF Always, ClaimsAreTrue
\* A step takes up the activity held for its key, or else the first of the queue.
LEMMA HeldFacts ==
  ASSUME Always, NEW t \in Tasks, Held(t)
  PROVE  \E k \in Keys :
           /\ k = task[t].key /\ InStep(t) /\ hand[t] = 0 /\ pending'[k] # 0
           /\ hand' = [hand EXCEPT ![t] = pending'[k]] /\ plan' = [plan EXCEPT ![t] = Delay]
           /\ \/ pending[k] # 0 /\ UNCHANGED <<pending, queue, failed>>
              \/ /\ pending[k] = 0 /\ Len(queue[k]) > 0 /\ queue[k][1] \in Positions
                 /\ pending' = [pending EXCEPT ![k] = queue[k][1]]
                 /\ failed' = [failed EXCEPT ![queue[k][1]] = {}]
                 /\ queue' \in [Keys -> Seq(Positions)]
                 /\ \A l \in Keys : l # k => queue'[l] = queue[l]
                 /\ Len(queue'[k]) = Len(queue[k]) - 1
                 /\ \A n \in 1 .. Len(queue'[k]) : queue'[k][n] = queue[k][n + 1]
<1>1. Typed /\ task[t].key \in Keys
  <2>1. task \in [Tasks -> Slots] /\ Typed
    BY OnTheWay DEF WorkersTyped
  <2> QED BY <2>1 DEF Slots
<1>2. PICK k \in Keys : k = task[t].key
  BY <1>1
<1>3. queue \in [Keys -> Seq(Positions)] /\ queue[k] \in Seq(Positions)
  BY <1>1 DEF Typed
<1>4. CASE Takes(k)
  <2>1. queue[k] # << >> /\ pending[k] = 0
    BY <1>4 DEF Takes
  <2>2. /\ Len(queue[k]) > 0 /\ Head(queue[k]) = queue[k][1] /\ queue[k][1] \in Positions
        /\ Tail(queue[k]) \in Seq(Positions) /\ Len(Tail(queue[k])) = Len(queue[k]) - 1
        /\ \A n \in 1 .. Len(queue[k]) - 1 : Tail(queue[k])[n] = queue[k][n + 1]
    BY <1>3, <2>1
  <2>3. /\ pending' = [pending EXCEPT ![k] = Head(queue[k])] /\ queue' = [queue EXCEPT ![k] = Tail(@)]
        /\ failed' = [failed EXCEPT ![Head(queue[k])] = {}]
    BY <1>2, <1>4 DEF Held
  <2>4. pending'[k] # 0
    BY <1>1, <2>2, <2>3 DEF Typed, Positions
  <2>5. queue'[k] = Tail(queue[k]) /\ queue' \in [Keys -> Seq(Positions)] /\ \A l \in Keys : l # k => queue'[l] = queue[l]
    BY <1>3, <2>2, <2>3
  <2> QED BY <1>2, <2>1, <2>2, <2>3, <2>4, <2>5 DEF Held
<1>5. CASE ~Takes(k)
  BY <1>2, <1>5 DEF Held, Takes
<1> QED BY <1>4, <1>5

LEMMA AlwaysHeld == ASSUME Always, NEW t \in Tasks, Held(t) PROVE Always'
<1>1. /\ Typed /\ MaxActivity \in Nat /\ position \in Nat /\ position <= MaxActivity
      /\ \A l \in Keys : /\ pending[l] \in 0 .. position /\ Len(queue[l]) \in Nat
                         /\ \A n \in 1 .. Len(queue[l]) : queue[l][n] \in 1 .. position
      /\ \A s \in Tasks : hand[s] \in 0 .. position
  BY OnTheWay
<1>2. PICK k \in Keys :
           /\ k = task[t].key /\ InStep(t) /\ hand[t] = 0 /\ pending'[k] # 0
           /\ hand' = [hand EXCEPT ![t] = pending'[k]] /\ plan' = [plan EXCEPT ![t] = Delay]
           /\ \/ pending[k] # 0 /\ UNCHANGED <<pending, queue, failed>>
              \/ /\ pending[k] = 0 /\ Len(queue[k]) > 0 /\ queue[k][1] \in Positions
                 /\ pending' = [pending EXCEPT ![k] = queue[k][1]]
                 /\ failed' = [failed EXCEPT ![queue[k][1]] = {}]
                 /\ queue' \in [Keys -> Seq(Positions)]
                 /\ \A l \in Keys : l # k => queue'[l] = queue[l]
                 /\ Len(queue'[k]) = Len(queue[k]) - 1
                 /\ \A n \in 1 .. Len(queue'[k]) : queue'[k][n] = queue[k][n + 1]
  BY HeldFacts
<1>3. UNCHANGED <<registry, task, activities, position, mediaVars, forwarded>>
  BY DEF Held
<1>4. /\ pending \in [Keys -> 0 .. MaxActivity] /\ failed \in [Positions -> SUBSET Previews]
      /\ hand \in [Tasks -> 0 .. MaxActivity] /\ plan \in [Tasks -> Previews \cup {Delay, Publishing}]
      /\ queue \in [Keys -> Seq(Positions)]
  BY <1>1 DEF Typed
<1>5. /\ pending' \in [Keys -> 0 .. MaxActivity] /\ failed' \in [Positions -> SUBSET Previews]
      /\ queue' \in [Keys -> Seq(Positions)]
  <2>1. CASE pending[k] # 0
    BY <1>2, <1>4, <2>1
  <2>2. CASE pending[k] = 0
    <3>1. queue[k][1] \in Positions /\ pending' = [pending EXCEPT ![k] = queue[k][1]]
      BY <1>2, <2>2
    <3>2. queue[k][1] \in 0 .. MaxActivity
      BY <1>1, <3>1 DEF Positions
    <3>3. pending' \in [Keys -> 0 .. MaxActivity]
      BY <1>4, <3>1, <3>2
    <3>4. failed' \in [Positions -> SUBSET Previews] /\ queue' \in [Keys -> Seq(Positions)]
      BY <1>2, <1>4, <2>2
    <3> QED BY <3>3, <3>4
  <2> QED BY <2>1, <2>2
<1>6. /\ hand' \in [Tasks -> 0 .. MaxActivity] /\ plan' \in [Tasks -> Previews \cup {Delay, Publishing}]
  BY <1>2, <1>4, <1>5
<1>7. Typed'
  BY <1>1, <1>3, <1>5, <1>6 DEF Typed, WorkersTyped, mediaVars
<1>8. \A s \in Tasks : \/ s = t /\ hand'[s] = pending'[k] /\ plan'[s] = Delay
                       \/ s # t /\ hand'[s] = hand[s] /\ plan'[s] = plan[s]
  BY <1>2, <1>4
<1>9. \A l \in Keys : \A n \in 1 .. Len(queue'[l]) :
         \E m \in 1 .. Len(queue[l]) : queue'[l][n] = queue[l][m] /\ (queue' # queue /\ l = k => m > 1)
  <2> SUFFICES ASSUME NEW l \in Keys, NEW n \in 1 .. Len(queue'[l])
               PROVE  \E m \in 1 .. Len(queue[l]) :
                        queue'[l][n] = queue[l][m] /\ (queue' # queue /\ l = k => m > 1)
    OBVIOUS
  <2>1. CASE queue' = queue
    BY <2>1
  <2>2. CASE queue' # queue /\ l = k
    <3>1. n + 1 \in 1 .. Len(queue[k]) /\ n + 1 > 1 /\ queue'[k][n] = queue[k][n + 1]
      BY <1>1, <1>2, <2>2
    <3> QED BY <2>2, <3>1
  <2>3. CASE queue' # queue /\ l # k
    BY <1>2, <2>3
  <2> QED BY <2>1, <2>2, <2>3
<1>10. Of(pending'[k], k)
  <2>1. CASE pending'[k] = pending[k]
    BY <1>2, <2>1 DEF Always, Traced
  <2>2. CASE pending[k] = 0 /\ Len(queue[k]) > 0 /\ pending' = [pending EXCEPT ![k] = queue[k][1]]
    <3>1. 1 \in 1 .. Len(queue[k]) /\ pending'[k] = queue[k][1]
      BY <1>1, <1>4, <2>2
    <3> QED BY <3>1 DEF Always, Traced
  <2> QED BY <1>2, <2>1, <2>2
<1>11. Traced'
  <2>1. \A l \in Keys : \A n \in 1 .. Len(queue'[l]) : Of(queue'[l][n], l)
    BY <1>9 DEF Always, Traced
  <2>2. \A l \in Keys : pending'[l] # 0 => Of(pending'[l], l)
    BY <1>2, <1>4, <1>10 DEF Always, Traced
  <2>3. \A s \in Tasks : hand'[s] # 0 => InStep(s) /\ Of(hand'[s], task[s].key)
    BY <1>2, <1>8, <1>10 DEF Always, Traced
  <2>4. \A s \in Tasks : plan'[s] # Delay => hand'[s] # 0
    BY <1>8 DEF Always, Traced
  <2> QED BY <1>3, <2>1, <2>2, <2>3, <2>4 DEF Traced, Of, InStep
<1>12. \A l \in Keys : \A n \in 1 .. Len(queue'[l]) : pending'[l] < queue'[l][n]
  <2> SUFFICES ASSUME NEW l \in Keys, NEW n \in 1 .. Len(queue'[l]) PROVE pending'[l] < queue'[l][n]
    OBVIOUS
  <2>1. PICK m \in 1 .. Len(queue[l]) : queue'[l][n] = queue[l][m] /\ (queue' # queue /\ l = k => m > 1)
    BY <1>9
  <2>2. pending[l] < queue[l][m]
    BY DEF Always, Ascending
  <2>3. CASE pending'[l] = pending[l]
    BY <2>1, <2>2, <2>3
  <2>4. CASE pending'[l] # pending[l]
    <3>1. l = k /\ pending'[l] = queue[k][1] /\ Len(queue[k]) > 0
      BY <1>2, <1>4, <2>4
    <3>2. queue' # queue
      BY <1>1, <1>2, <2>4, <3>1
    <3>3. 1 \in 1 .. Len(queue[k]) /\ 1 < m
      BY <1>1, <2>1, <3>1, <3>2
    <3> QED BY <2>1, <3>1, <3>3 DEF Always, Ascending
  <2> QED BY <2>3, <2>4
<1>13. Ascending'
  <2>1. \A l \in Keys : \A m, n \in 1 .. Len(queue'[l]) : m < n => queue'[l][m] < queue'[l][n]
    <3> SUFFICES ASSUME NEW l \in Keys, NEW m \in 1 .. Len(queue'[l]), NEW n \in 1 .. Len(queue'[l]), m < n
                 PROVE  queue'[l][m] < queue'[l][n]
      OBVIOUS
    <3>1. CASE queue'[l] = queue[l]
      BY <3>1 DEF Always, Ascending
    <3>2. CASE queue'[l] # queue[l]
      <4>1. /\ l = k /\ m + 1 \in 1 .. Len(queue[k]) /\ n + 1 \in 1 .. Len(queue[k]) /\ m + 1 < n + 1
            /\ queue'[k][m] = queue[k][m + 1] /\ queue'[k][n] = queue[k][n + 1]
        BY SMTT(30), <1>1, <1>2, <3>2
      <4> QED BY <4>1 DEF Always, Ascending
    <3> QED BY <3>1, <3>2
  <2>2. ASSUME NEW s \in Tasks, NEW n \in 1 .. Len(queue'[task[s].key])
        PROVE  hand'[s] < queue'[task[s].key][n]
    <3>1. task[s].key \in Keys
      <4>1. task \in [Tasks -> Slots]
        BY <1>1 DEF Typed, WorkersTyped
      <4> QED BY <4>1 DEF Slots
    <3>2. CASE s = t
      BY <1>2, <1>8, <1>12, <2>2, <3>2
    <3>3. CASE s # t
      <4>1. PICK m \in 1 .. Len(queue[task[s].key]) : queue'[task[s].key][n] = queue[task[s].key][m]
        BY <1>9, <2>2, <3>1
      <4> QED BY <1>8, <3>3, <4>1 DEF Always, Ascending
    <3> QED BY <3>2, <3>3
  <2> QED BY <1>3, <1>12, <2>1, <2>2 DEF Ascending
<1>14. Verified'
  <2> SUFFICES ASSUME NEW s \in Tasks, plan'[s] = Publishing
               PROVE  WithoutFailed(hand[s])' \subseteq noted
    BY <1>3 DEF Verified, mediaVars
  <2>1. s # t /\ hand'[s] = hand[s] /\ plan[s] = Publishing
    BY <1>8, PlansDiffer
  <2>2. hand[s] # 0 /\ Of(hand[s], task[s].key) /\ hand[s] \in Positions
    BY <1>1, <2>1, PlansDiffer DEF Always, Traced, Of, Positions
  <2>3. failed'[hand[s]] = failed[hand[s]]
    <3>1. CASE failed' = failed
      BY <3>1
    <3>2. CASE pending[k] = 0 /\ Len(queue[k]) > 0 /\ failed' = [failed EXCEPT ![queue[k][1]] = {}]
      <4>1. 1 \in 1 .. Len(queue[k])
        BY <1>1, <3>2
      <4>2. Of(queue[k][1], k) /\ (task[s].key = k => hand[s] < queue[k][1])
        BY <4>1 DEF Always, Traced, Ascending
      <4>3. hand[s] # queue[k][1]
        <5>1. queue[k][1] \in Nat /\ hand[s] \in Nat
          BY <1>1, <4>1
        <5>2. CASE task[s].key = k
          BY <4>2, <5>1, <5>2
        <5>3. CASE task[s].key # k
          BY <2>2, <4>2, <5>3 DEF Of
        <5> QED BY <5>2, <5>3
      <4> QED BY <1>4, <2>2, <3>2, <4>3
    <3> QED BY <1>2, <3>1, <3>2
  <2> QED BY <1>3, <2>1, <2>3 DEF Always, Verified, WithoutFailed
<1>15. ClaimsAreTrue' /\ Registered'
  BY <1>3 DEF Always, ClaimsAreTrue, Registered, Runs, mediaVars
<1> QED BY <1>7, <1>11, <1>13, <1>14, <1>15 DEF Always
\* The media are read, the previews announced and the plans made beside the queues.
LEMMA AlwaysBeside ==
  ASSUME Always,
         \/ \E m \in Media : Uploaded(m)
         \/ \E p \in Previews : VariantsAdded(p)
         \/ \E t \in Tasks : Ready(t)
  PROVE  Always'
<1>1. /\ UNCHANGED <<queue, registry, task, activities, position, pending, failed, hand, made, forwarded>>
      /\ noted \subseteq noted' /\ noted' \subseteq made
  BY DEF Uploaded, VariantsAdded, Ready, Always, Typed, workerVars, pendVars, mediaVars
<1>2. Registered' /\ Ascending' /\ ClaimsAreTrue'
  BY <1>1 DEF Always, Registered, Runs, Ascending, ClaimsAreTrue
<1>3. CASE plan' = plan
  BY <1>1, <1>2, <1>3 DEF Always, Typed, WorkersTyped, Traced, Of, InStep, Verified, WithoutFailed
<1>4. ASSUME NEW t \in Tasks, Ready(t) PROVE Always'
  <2>1. /\ Typed /\ hand[t] \in 0 .. position /\ position \in 0 .. Len(activities) /\ position \in Nat
        /\ Len(activities) \in Nat
    BY OnTheWay
  <2>2. hand[t] # 0 /\ hand[t] \in 1 .. Len(activities)
    BY <1>4, <2>1 DEF Ready
  <2> DEFINE new == IF Missing(hand[t]) = {} THEN Publishing ELSE CHOOSE p \in Missing(hand[t]) : TRUE
  <2>3. Missing(hand[t]) \subseteq Previews
    BY <2>2, <2>1, ActivityFacts DEF Missing
  <2>4. /\ new \in Previews \cup {Delay, Publishing}
        /\ new = Publishing => WithoutFailed(hand[t]) \subseteq noted
    <3>1. CASE Missing(hand[t]) = {}
      BY <3>1 DEF Missing, WithoutFailed
    <3>2. CASE Missing(hand[t]) # {}
      <4>1. new \in Missing(hand[t])
        BY <3>2
      <4> QED BY <2>3, <4>1, PlansDiffer
    <3> QED BY <3>1, <3>2
  <2> HIDE DEF new
  <2>5. plan' = [plan EXCEPT ![t] = new]
    BY <1>4 DEF Ready, new
  <2>6. plan' \in [Tasks -> Previews \cup {Delay, Publishing}]
    BY <2>1, <2>4, <2>5 DEF Typed
  <2>7. \A s \in Tasks : plan'[s] = IF s = t THEN new ELSE plan[s]
    BY <2>1, <2>5 DEF Typed
  <2>8. Typed'
    BY <1>1, <2>1, <2>6 DEF Typed, WorkersTyped
  <2>9. Traced'
    BY <1>1, <2>2, <2>7 DEF Always, Traced, Of, InStep
  <2>10. Verified'
    BY <1>1, <2>4, <2>7 DEF Always, Verified, WithoutFailed
  <2> QED BY <1>2, <2>8, <2>9, <2>10 DEF Always
<1> QED BY <1>3, <1>4 DEF Uploaded, VariantsAdded

\* A task that wakes up enters its step with nothing at hand.
LEMMA AlwaysWakes == ASSUME Always, NEW t \in Tasks, Wakes(t) PROVE Always'
<1>1. Typed /\ task \in [Tasks -> Slots]
  BY OnTheWay DEF WorkersTyped
<1>2. UNCHANGED <<queue, registry, activities, position, pending, failed, hand, plan, noted, made, forwarded>>
  BY DEF Wakes, WakeUp, pendVars, mediaVars
<1>3. PICK at \in {"step", "look"} : /\ task' = [task EXCEPT ![t].at = at]
                                     /\ task[t].at = IF at = "step" THEN "sleep" ELSE "leave"
  BY DEF Wakes, WakeUp
<1>4. task' \in [Tasks -> Slots]
  BY <1>1, <1>3 DEF Slots, States
<1>5. /\ task'[t].at = at /\ task'[t].key = task[t].key
      /\ \A s \in Tasks : s # t => task'[s] = task[s]
  BY <1>1, <1>3 DEF Slots
<1>6. \A s \in Tasks : task'[s].key = task[s].key /\ (InStep(s) => InStep(s)')
  BY <1>5 DEF InStep
<1>7. Typed' /\ Verified' /\ ClaimsAreTrue' /\ Ascending' /\ Traced'
  BY <1>1, <1>2, <1>4, <1>6 DEF Always, Typed, WorkersTyped, Verified, WithoutFailed, ClaimsAreTrue, Ascending, Traced, Of
<1>8. Registered'
  <2>1. \A s \in Tasks, k \in Keys : Runs(s, k) => Runs(s, k)'
    BY <1>3, <1>5 DEF Runs
  <2> QED BY <1>1, <1>2, <2>1 DEF Always, Registered, Typed, WorkersTyped
<1> QED BY <1>7, <1>8 DEF Always

\* A restart begins with nothing on its way; what was forwarded and made is in the topics.
LEMMA AlwaysRestart == ASSUME Always, Restart PROVE Always'
<1>1. Typed /\ Len(activities) \in Nat /\ MaxActivity \in Nat
  BY OnTheWay
<1>2. /\ queue' = [k \in Keys |-> << >>] /\ registry' = [k \in Keys |-> NoTask] /\ task' = [t \in Tasks |-> Free]
      /\ pending' = [k \in Keys |-> 0] /\ failed' = [i \in Positions |-> {}]
      /\ hand' = [t \in Tasks |-> 0] /\ plan' = [t \in Tasks |-> Delay]
      /\ position' = 0 /\ noted' = made /\ UNCHANGED <<activities, made, forwarded>>
  BY DEF Restart, WorkersLost, Positions
<1>3. Typed'
  BY <1>1, <1>2, FreeIsSlot DEF Typed, WorkersTyped
<1>4. Registered' /\ ClaimsAreTrue'
  BY <1>2 DEF Always, Registered, ClaimsAreTrue
<1>5. \A t \in Tasks : task'[t].key \in Keys
  BY <1>2, FreeIsSlot DEF Slots
<1>6. Traced' /\ Ascending' /\ Verified'
  BY <1>2, <1>5, PlansDiffer DEF Traced, Ascending, Verified
<1> QED BY <1>3, <1>4, <1>6 DEF Always

LEMMA AlwaysNothingHeld == ASSUME Always, NEW t \in Tasks, NothingHeld(t) PROVE Always'
<1>1. Typed /\ WorkersTyped /\ Registered /\ Return(t, FALSE) /\ hand[t] = 0
  BY OnTheWay DEF NothingHeld
<1>2. UNCHANGED <<queue, activities, position, pending, failed, hand, plan, noted, made, forwarded>>
  BY DEF NothingHeld, pendVars, mediaVars
<1>3. WorkersTyped' /\ Registered' /\ \A s \in Tasks : s # t => task'[s] = task[s]
  BY <1>1, ReturnFrees
<1>4. Typed' /\ Verified' /\ ClaimsAreTrue'
  BY <1>1, <1>2, <1>3 DEF Always, Typed, Verified, WithoutFailed, ClaimsAreTrue
<1>5. Traced'
  BY <1>1, <1>2, <1>3 DEF Always, Traced, Of, InStep
<1>6. Ascending'
  <2>1. \A k \in Keys : \A n \in 1 .. Len(queue[k]) : queue[k][n] \in Nat /\ 0 < queue[k][n]
    BY OnTheWay
  <2>2. ASSUME NEW s \in Tasks, NEW n \in 1 .. Len(queue[task'[s].key])
        PROVE  hand[s] < queue[task'[s].key][n]
    <3>1. task'[s].key \in Keys
      BY <1>3 DEF WorkersTyped, Slots
    <3> QED BY <1>1, <1>3, <2>1, <2>2, <3>1 DEF Always, Ascending
  <2> QED BY <1>2, <2>2 DEF Always, Ascending
<1> QED BY <1>3, <1>4, <1>5, <1>6 DEF Always

LEMMA AlwaysKept == ASSUME Always, [Next]_vars PROVE Always'
<1>1. CASE UNCHANGED vars
  BY <1>1 DEF vars, workerVars, pendVars, mediaVars, Always, Typed, WorkersTyped, Registered, Runs,
              Traced, Of, InStep, Ascending, Verified, WithoutFailed, ClaimsAreTrue
<1>2. ASSUME NEW t \in Tasks, Wakes(t) \/ Step(t) \/ Break(t) PROVE Always'
  BY <1>2, AlwaysWakes, AlwaysNothingHeld, AlwaysHeld, AlwaysEndsStep, AlwaysBeside, AlwaysForward DEF Step
<1> QED BY <1>1, <1>2, AlwaysActivity, AlwaysBeside, AlwaysRead, AlwaysRestart DEF Next, Verbs
-----------------------------------------------------------------------------
(* What holds while no work arrives for a key whose task is leaving. *)

\* What is forwarded stays forwarded and in order while the topics stay.
LEMMA ForwardedStays ==
  ASSUME UNCHANGED <<forwarded, activities>>, BeginningForwarded, InKeyOrder
  PROVE  BeginningForwarded' /\ InKeyOrder' /\ \A i : IsForwarded(i) => IsForwarded(i)'
BY DEF BeginningForwarded, InKeyOrder, SameKey, IsForwarded

LEMMA AloneAtFirst == Init => Alone
<1> SUFFICES ASSUME Init PROVE Alone
  OBVIOUS
<1>1. /\ registry = [k \in Keys |-> NoTask] /\ task = [t \in Tasks |-> Free] /\ position = 0
      /\ hand = [t \in Tasks |-> 0] /\ forwarded = << >>
  BY DEF Init, WorkersInit
<1>2. \A t \in Tasks, k \in Keys : ~Busy(t, k) /\ ~Runs(t, k)
  BY <1>1 DEF Busy, Runs, Leaves, Free
<1> QED BY <1>1, <1>2 DEF Alone, Exclusive, RunnersRegistered, HandIsPending, NothingDropped,
                         BeginningForwarded, InKeyOrder

LEMMA AloneActivity ==
  ASSUME Always, Alone, NEW verb \in Verbs, NEW o \in Objects, Activity(verb, o)
  PROVE  Alone'
<1>1. Typed /\ Len(activities) \in Nat /\ position \in 0 .. Len(activities)
  BY OnTheWay
<1>2. /\ Len(activities') = Len(activities) + 1
      /\ \A i \in 1 .. Len(activities) : activities'[i] = activities[i]
  BY <1>1, TopicGrows
<1>3. UNCHANGED <<queue, registry, task, position, pending, hand, forwarded>>
  BY DEF Activity, workerVars, pendVars
<1>4. Exclusive' /\ RunnersRegistered' /\ HandIsPending'
  BY <1>3 DEF Alone, Exclusive, Busy, Runs, Leaves, RunnersRegistered, HandIsPending
<1>5. \A i \in 1 .. Len(activities) : ObjectKey(activities'[i]) = ObjectKey(activities[i])
  BY <1>2
<1>6. \A i \in 1 .. position : i \in 1 .. Len(activities)
  BY <1>1
<1>7. NothingDropped'
  BY <1>3, <1>5, <1>6 DEF Alone, NothingDropped, IsForwarded
<1>8. \A j \in 1 .. Len(forwarded) : forwarded[j].pos \in 1 .. Len(activities)
  <2>1. \A j \in 1 .. Len(forwarded) : forwarded[j] \in Entries /\ forwarded[j].pos <= Len(activities)
    BY <1>1 DEF Typed
  <2> QED BY <1>1, <2>1 DEF Entries, Positions
<1>9. BeginningForwarded'
  <2> SUFFICES ASSUME NEW j \in 1 .. Len(forwarded), NEW i \in 1 .. Len(activities'),
                      i <= forwarded[j].pos, SameKey(i, forwarded[j].pos)'
               PROVE  IsForwarded(i)
    BY <1>3 DEF BeginningForwarded, IsForwarded
  <2>1. i \in 1 .. Len(activities)
    BY <1>1, <1>2, <1>8
  <2> QED BY <1>3, <1>5, <1>8, <2>1 DEF Alone, BeginningForwarded, SameKey
<1>10. InKeyOrder'
  BY <1>3, <1>5, <1>8 DEF Alone, InKeyOrder, SameKey
<1> QED BY <1>4, <1>7, <1>9, <1>10 DEF Alone

LEMMA AloneRead == ASSUME Always, Alone, ~Overlap, Read PROVE Alone'
<1>1. /\ Typed /\ Registered /\ MaxActivity \in Nat /\ Len(activities) <= MaxActivity
      /\ Len(activities) \in Nat /\ position \in 0 .. Len(activities)
      /\ \A l \in Keys : Len(queue[l]) \in Nat
  BY OnTheWay
<1>2. PICK i \in Positions : i = position + 1 /\ i \in 1 .. Len(activities) /\ position' = i
  BY <1>1 DEF Read, Positions
<1>3. PICK k \in Keys : k = ObjectKey(activities[i])
  BY <1>1, <1>2, ActivityFacts
<1>4. /\ Submit(k, i) /\ UNCHANGED <<activities, pending, hand, forwarded>>
      /\ \A t \in Tasks : ~Leaves(t, k)
  BY <1>2, <1>3 DEF Read, pendVars
<1>5. /\ \A l \in Keys : l # k => queue'[l] = queue[l]
      /\ Len(queue'[k]) = Len(queue[k]) + 1 /\ queue'[k][Len(queue[k]) + 1] = i
      /\ \A n \in 1 .. Len(queue[k]) : queue'[k][n] = queue[k][n]
      /\ \A t \in Tasks : task'[t] # task[t] =>
               /\ task[t].at = "free" /\ task'[t].key = k
               /\ registry[k] = NoTask /\ registry' = [registry EXCEPT ![k] = t]
               /\ \A s \in Tasks : s # t => task'[s] = task[s]
  BY <1>1, <1>2, <1>3, <1>4, SubmitFacts
<1>6. registry \in [Keys -> Tasks \cup {NoTask}] /\ NoTask \notin Tasks
  BY <1>1, WorkersAssumption DEF Typed, WorkersTyped
<1>7. ASSUME \E t \in Tasks : task'[t] # task[t] PROVE Exclusive' /\ RunnersRegistered'
  <2>1. PICK t \in Tasks : task'[t] # task[t]
    BY <1>7
  <2>2. \A s \in Tasks : ~Busy(s, k)
    BY <1>4, <1>5, <1>6, <2>1 DEF Alone, RunnersRegistered, Busy
  <2>3. \A s \in Tasks, l \in Keys : Busy(s, l)' => IF s = t THEN l = k ELSE Busy(s, l) /\ l # k
    BY <1>5, <2>1, <2>2 DEF Busy, Runs, Leaves
  <2>4. Exclusive'
    BY <2>3 DEF Alone, Exclusive
  <2>5. \A s \in Tasks, l \in Keys : Runs(s, l)' => IF s = t THEN l = k ELSE Runs(s, l) /\ l # k
    BY <1>5, <2>1, <2>2 DEF Busy, Runs, Leaves
  <2>6. registry' = [registry EXCEPT ![k] = t]
    BY <1>5, <2>1
  <2>7. RunnersRegistered'
    BY <1>6, <2>5, <2>6 DEF Alone, RunnersRegistered
  <2> QED BY <2>4, <2>7
<1>8. ASSUME ~\E t \in Tasks : task'[t] # task[t] PROVE Exclusive' /\ RunnersRegistered'
  <2>1. Exclusive'
    BY <1>8 DEF Alone, Exclusive, Busy, Runs, Leaves
  <2>2. \A l \in Keys : registry[l] # NoTask => registry'[l] = registry[l]
    BY <1>4, <1>6 DEF Submit, EnsureTask
  <2>3. RunnersRegistered'
    BY <1>6, <1>8, <2>2 DEF Alone, RunnersRegistered, Runs
  <2> QED BY <2>1, <2>3
<1>9. HandIsPending'
  <2>1. \A t \in Tasks : hand[t] # 0 => task'[t] = task[t]
    BY <1>5 DEF Always, Traced, InStep
  <2> QED BY <1>4, <2>1 DEF Alone, HandIsPending
<1>10. NothingDropped'
  <2> SUFFICES ASSUME NEW j \in 1 .. i, NEW l, l = ObjectKey(activities[j])
               PROVE  IsForwarded(j)' \/ pending[l] = j \/ \E n \in 1 .. Len(queue'[l]) : queue'[l][n] = j
    BY <1>2, <1>4 DEF NothingDropped
  <2>1. CASE j = i
    <3>1. Len(queue[k]) + 1 \in 1 .. Len(queue'[k]) /\ queue'[k][Len(queue[k]) + 1] = i /\ l = k
      BY <1>1, <1>3, <1>5, <2>1
    <3> QED BY <2>1, <3>1
  <2>2. CASE j # i
    <3>1. j \in 1 .. position /\ l \in Keys
      BY <1>1, <1>2, <2>2, ActivityFacts
    <3>2. CASE \E n \in 1 .. Len(queue[l]) : queue[l][n] = j
      <4>1. PICK n \in 1 .. Len(queue[l]) : queue[l][n] = j
        BY <3>2
      <4>2. n \in 1 .. Len(queue'[l]) /\ queue'[l][n] = queue[l][n]
        BY <1>1, <1>5, <3>1, <4>1
      <4> QED BY <4>1, <4>2
    <3> QED BY <1>4, <3>1, <3>2 DEF Alone, NothingDropped, IsForwarded
  <2> QED BY <2>1, <2>2
<1> QED BY <1>4, <1>7, <1>8, <1>9, <1>10, ForwardedStays DEF Alone
LEMMA AloneHeld == ASSUME Always, Alone, NEW t \in Tasks, Held(t) PROVE Alone'
<1>1. /\ Typed /\ \A l \in Keys : Len(queue[l]) \in Nat /\ queue[l] \in Seq(Positions)
      /\ position \in 0 .. Len(activities) /\ Len(activities) \in Nat
  BY OnTheWay DEF Typed
<1>2. PICK k \in Keys :
           /\ k = task[t].key /\ hand[t] = 0
           /\ hand' = [hand EXCEPT ![t] = pending'[k]]
           /\ \/ pending[k] # 0 /\ UNCHANGED <<pending, queue>>
              \/ /\ pending[k] = 0 /\ Len(queue[k]) > 0
                 /\ pending' = [pending EXCEPT ![k] = queue[k][1]]
                 /\ \A l \in Keys : l # k => queue'[l] = queue[l]
                 /\ Len(queue'[k]) = Len(queue[k]) - 1
                 /\ \A n \in 1 .. Len(queue'[k]) : queue'[k][n] = queue[k][n + 1]
  BY HeldFacts
<1>3. UNCHANGED <<registry, task, activities, position, forwarded>>
  BY DEF Held
<1>4. pending \in [Keys -> 0 .. MaxActivity] /\ hand \in [Tasks -> 0 .. MaxActivity]
  BY <1>1 DEF Typed
<1>5. Exclusive' /\ RunnersRegistered'
  BY <1>3 DEF Alone, Exclusive, RunnersRegistered, Busy, Runs, Leaves
<1>6. \A l \in Keys : pending[l] # 0 => pending'[l] = pending[l]
  BY <1>2, <1>4
<1>7. HandIsPending'
  <2> SUFFICES ASSUME NEW s \in Tasks, hand'[s] # 0 PROVE pending'[task[s].key] = hand'[s]
    BY <1>3 DEF HandIsPending
  <2>1. CASE s = t
    BY <1>2, <1>4, <2>1
  <2>2. CASE s # t
    <3>1. hand[s] # 0 /\ hand'[s] = hand[s] /\ pending[task[s].key] = hand[s]
      BY <1>2, <1>4, <2>2 DEF Alone, HandIsPending
    <3>2. task[s].key \in Keys
      <4>1. task \in [Tasks -> Slots]
        BY <1>1 DEF Typed, WorkersTyped
      <4> QED BY <4>1 DEF Slots
    <3> QED BY <1>6, <3>1, <3>2
  <2> QED BY <2>1, <2>2
<1>8. NothingDropped'
  <2> SUFFICES ASSUME NEW j \in 1 .. position, NEW l \in Keys, l = ObjectKey(activities[j])
               PROVE  IsForwarded(j) \/ pending'[l] = j \/ \E n \in 1 .. Len(queue'[l]) : queue'[l][n] = j
    <3>1. \A j \in 1 .. position : ObjectKey(activities[j]) \in Keys
      BY <1>1, ActivityFacts
    <3> QED BY <1>3, <3>1 DEF NothingDropped, IsForwarded
  <2>1. CASE pending[l] = j
    BY <1>6, <2>1
  <2>2. CASE \E n \in 1 .. Len(queue[l]) : queue[l][n] = j
    <3>1. PICK n \in 1 .. Len(queue[l]) : queue[l][n] = j
      BY <2>2
    <3>2. CASE queue'[l] = queue[l]
      BY <3>1, <3>2
    <3>3. CASE queue'[l] # queue[l] /\ n = 1
      <4>1. l = k /\ pending'[k] = queue[k][1]
        BY <1>2, <1>4, <3>3
      <4> QED BY <3>1, <3>3, <4>1
    <3>4. CASE queue'[l] # queue[l] /\ n # 1
      <4>1. l = k /\ Len(queue'[k]) = Len(queue[k]) - 1 /\ \A m \in 1 .. Len(queue'[k]) : queue'[k][m] = queue[k][m + 1]
        BY <1>2, <3>4
      <4>2. n - 1 \in 1 .. Len(queue'[l]) /\ (n - 1) + 1 = n
        BY <1>1, <3>4, <4>1
      <4>3. queue'[l][n - 1] = queue[l][n]
        BY <4>1, <4>2
      <4> QED BY <3>1, <4>2, <4>3
    <3> QED BY <3>2, <3>3, <3>4
  <2>3. CASE IsForwarded(j)
    BY <2>3
  <2> QED BY <2>1, <2>2, <2>3 DEF Alone, NothingDropped
<1> QED BY <1>3, <1>5, <1>7, <1>8, ForwardedStays DEF Alone

\* A step that ends without forwarding leaves its activity held.
LEMMA AloneEndsStep ==
  ASSUME Always, Alone, NEW t \in Tasks,
         NotReady(t) \/ Break(t) \/ CannotProduce(t) \/ Produced(t) \/ NothingHeld(t)
  PROVE  Alone'
<1>1. WorkersTyped /\ Registered /\ hand \in [Tasks -> 0 .. MaxActivity]
  BY OnTheWay DEF Typed
<1>2. PICK worked \in BOOLEAN : Return(t, worked)
  BY DEF NotReady, Break, CannotProduce, Produced, NothingHeld, Done
<1>3. UNCHANGED <<queue, activities, position, pending, forwarded>>
  BY DEF NotReady, Break, CannotProduce, Produced, NothingHeld, pendVars
<1>4. hand' = [hand EXCEPT ![t] = 0]
  BY <1>1 DEF NotReady, Break, CannotProduce, Produced, NothingHeld, Done
<1>5. Exclusive' /\ RunnersRegistered'
  BY <1>1, <1>2, ReturnKeepsAlone DEF Alone
<1>6. \A s \in Tasks : s # t => task'[s] = task[s]
  BY <1>1, <1>2, ReturnFrees
<1>7. HandIsPending'
  BY <1>1, <1>3, <1>4, <1>6 DEF Alone, HandIsPending
<1>8. NothingDropped'
  BY <1>3 DEF Alone, NothingDropped, IsForwarded
<1> QED BY <1>3, <1>5, <1>7, <1>8, ForwardedStays DEF Alone

\* What is forwarded is the one activity held for its key, and the next of that key.
LEMMA AloneForward == ASSUME Always, Alone, NEW t \in Tasks, Forward(t) PROVE Alone'
<1>1. /\ Typed /\ WorkersTyped /\ Registered /\ position \in 0 .. Len(activities) /\ Len(activities) \in Nat
      /\ pending \in [Keys -> 0 .. MaxActivity] /\ hand \in [Tasks -> 0 .. MaxActivity]
      /\ \A l \in Keys : \A n \in 1 .. Len(queue[l]) : queue[l][n] \in 1 .. position
  BY OnTheWay DEF Typed
<1>2. PICK worked \in BOOLEAN : Done(t, worked)
  BY DEF Forward
<1>3. PICK i \in 1 .. position : i = hand[t]
  BY ForwardFacts
<1>4. /\ forwarded' \in Seq(Entries) /\ Len(forwarded) \in Nat
      /\ \A j \in 1 .. Len(forwarded) : forwarded[j] \in Entries
      /\ \/ IsForwarded(i) /\ forwarded' = forwarded
         \/ /\ ~IsForwarded(i) /\ Len(forwarded') = Len(forwarded) + 1
            /\ \A j \in 1 .. Len(forwarded) : forwarded'[j] = forwarded[j]
            /\ forwarded'[Len(forwarded) + 1].pos = i
  <2>1. /\ forwarded' \in Seq(Entries) /\ Len(forwarded) \in Nat
        /\ \A j \in 1 .. Len(forwarded) : forwarded[j] \in Entries
        /\ \/ IsForwarded(hand[t]) /\ forwarded' = forwarded
           \/ /\ ~IsForwarded(hand[t]) /\ Len(forwarded') = Len(forwarded) + 1
              /\ \A j \in 1 .. Len(forwarded) : forwarded'[j] = forwarded[j]
              /\ forwarded'[Len(forwarded) + 1] = [pos |-> hand[t], claims |-> WithoutFailed(hand[t])]
    BY ForwardFacts
  <2>2. IsForwarded(hand[t]) = IsForwarded(i)
    BY <1>3
  <2> QED BY <1>3, <2>1, <2>2
<1>5. PICK k \in Keys : k = task[t].key
  BY <1>1 DEF WorkersTyped, Slots
<1>6. /\ pending' = [pending EXCEPT ![k] = 0] /\ InStep(t)
      /\ UNCHANGED <<queue, activities, position>>
  BY <1>5 DEF Forward
<1>7. Return(t, worked) /\ hand' = [hand EXCEPT ![t] = 0]
  BY <1>2 DEF Done
<1>8. Exclusive' /\ RunnersRegistered'
  BY <1>1, <1>7, ReturnKeepsAlone DEF Alone
<1>9. \A s \in Tasks : s # t => task'[s] = task[s]
  BY <1>1, <1>7, ReturnFrees
<1>10. HandIsPending'
  <2> SUFFICES ASSUME NEW s \in Tasks, hand'[s] # 0 PROVE pending'[task'[s].key] = hand'[s]
    BY DEF HandIsPending
  <2>1. s # t /\ hand'[s] = hand[s] /\ task'[s] = task[s]
    BY <1>1, <1>7, <1>9
  <2>2. InStep(s) /\ task[s].key \in Keys
    BY <1>1, <2>1 DEF Always, Traced, WorkersTyped, Slots
  <2>3. task[s].key # k
    BY <1>5, <1>6, <2>1, <2>2 DEF Alone, Exclusive, Busy, Runs, Leaves, InStep
  <2> QED BY <1>1, <1>6, <2>1, <2>2, <2>3 DEF Alone, HandIsPending
<1>11. IsForwarded(i)' /\ \A j : IsForwarded(j) => IsForwarded(j)'
  <2>1. CASE forwarded' = forwarded
    BY <1>4, <2>1 DEF IsForwarded
  <2>2. CASE Len(forwarded') = Len(forwarded) + 1
    BY <1>4, <2>2 DEF IsForwarded
  <2> QED BY <1>4, <2>1, <2>2
<1>12. pending[k] = i /\ ObjectKey(activities[i]) = k
  BY <1>1, <1>3, <1>5 DEF Alone, HandIsPending, Always, Traced, Of
<1>13. NothingDropped'
  <2> SUFFICES ASSUME NEW j \in 1 .. position, NEW l \in Keys, l = ObjectKey(activities[j])
               PROVE  IsForwarded(j)' \/ pending'[l] = j \/ \E n \in 1 .. Len(queue[l]) : queue[l][n] = j
    <3>1. \A j \in 1 .. position : ObjectKey(activities[j]) \in Keys
      BY <1>1, ActivityFacts
    <3> QED BY <1>6, <3>1 DEF NothingDropped
  <2>1. CASE pending[l] = j
    BY <1>1, <1>6, <1>11, <1>12, <2>1
  <2> QED BY <1>11, <2>1 DEF Alone, NothingDropped
<1>14. CASE IsForwarded(i)
  BY <1>4, <1>6, <1>8, <1>10, <1>13, <1>14, ForwardedStays DEF Alone
<1>15. CASE ~IsForwarded(i)
  <2>1. \A j \in 1 .. Len(forwarded') :
           \/ j \in 1 .. Len(forwarded) /\ forwarded'[j] = forwarded[j]
           \/ j = Len(forwarded) + 1 /\ forwarded'[j].pos = i
    BY <1>4, <1>15
  <2>2. \A j \in 1 .. Len(activities) : j < i /\ ObjectKey(activities[j]) = k => IsForwarded(j)
    <3> SUFFICES ASSUME NEW j \in 1 .. Len(activities), j < i, ObjectKey(activities[j]) = k PROVE IsForwarded(j)
      OBVIOUS
    <3>1. j \in 1 .. position /\ j # i
      BY <1>1, <1>3
    <3>2. \A n \in 1 .. Len(queue[k]) : i < queue[k][n]
      BY <1>12 DEF Always, Ascending
    <3>3. \A n \in 1 .. Len(queue[k]) : queue[k][n] # j
      BY <1>1, <1>3, <3>1, <3>2
    <3> QED BY <1>12, <3>1, <3>3 DEF Alone, NothingDropped
  <2>3. \A j \in 1 .. Len(forwarded) : forwarded[j].pos \in 1 .. Len(activities)
    <3>1. \A j \in 1 .. Len(forwarded) : forwarded[j].pos <= Len(activities)
      BY <1>1 DEF Typed
    <3> QED BY <1>1, <1>4, <3>1 DEF Entries, Positions
  <2>4. BeginningForwarded'
    <3> SUFFICES ASSUME NEW j \in 1 .. Len(forwarded'), NEW m \in 1 .. Len(activities),
                        m <= forwarded'[j].pos, SameKey(m, forwarded'[j].pos)
                 PROVE  IsForwarded(m)'
      BY <1>6 DEF BeginningForwarded, SameKey
    <3>1. CASE j \in 1 .. Len(forwarded) /\ forwarded'[j] = forwarded[j]
      BY <1>11, <3>1 DEF Alone, BeginningForwarded
    <3>2. CASE forwarded'[j].pos = i
      <4>1. CASE m = i
        BY <1>11, <4>1
      <4>2. CASE m # i
        BY <1>1, <1>3, <1>11, <1>12, <2>2, <3>2, <4>2 DEF SameKey
      <4> QED BY <4>1, <4>2
    <3> QED BY <2>1, <3>1, <3>2
  <2>5. InKeyOrder'
    <3> SUFFICES ASSUME NEW a \in 1 .. Len(forwarded'), NEW b \in 1 .. Len(forwarded'), a < b,
                        SameKey(forwarded'[a].pos, forwarded'[b].pos)
                 PROVE  forwarded'[a].pos < forwarded'[b].pos
      BY <1>6 DEF InKeyOrder, SameKey
    <3>1. a \in 1 .. Len(forwarded) /\ forwarded'[a] = forwarded[a]
      BY <1>4, <1>15, <2>1
    <3>2. CASE b \in 1 .. Len(forwarded) /\ forwarded'[b] = forwarded[b]
      BY <3>1, <3>2 DEF Alone, InKeyOrder
    <3>3. CASE forwarded'[b].pos = i
      <4>1. ~ i <= forwarded[a].pos
        BY <1>1, <1>3, <1>15, <3>1, <3>3 DEF Alone, BeginningForwarded, SameKey
      <4> QED BY <1>3, <2>3, <3>1, <3>3, <4>1
    <3> QED BY <2>1, <3>2, <3>3
  <2> QED BY <1>8, <1>10, <1>13, <2>4, <2>5 DEF Alone
<1> QED BY <1>14, <1>15

LEMMA AloneElse ==
  ASSUME Always, Alone,
         \/ \E m \in Media : Uploaded(m)
         \/ \E p \in Previews : VariantsAdded(p)
         \/ \E t \in Tasks : Ready(t) \/ Wakes(t)
         \/ Restart \/ UNCHANGED vars
  PROVE  Alone'
<1>1. CASE \E t \in Tasks : Wakes(t)
  <2>1. PICK t \in Tasks : Wakes(t)
    BY <1>1
  <2>2. task \in [Tasks -> Slots]
    BY OnTheWay DEF WorkersTyped
  <2>3. UNCHANGED <<queue, registry, activities, position, pending, hand, forwarded>>
    BY <2>1 DEF Wakes, WakeUp, pendVars
  <2>4. PICK at \in {"step", "look"} : /\ task' = [task EXCEPT ![t].at = at]
                                       /\ task[t].at = IF at = "step" THEN "sleep" ELSE "leave"
    BY <2>1 DEF Wakes, WakeUp
  <2>5. /\ task'[t].at = at /\ task'[t].key = task[t].key
        /\ \A s \in Tasks : s # t => task'[s] = task[s]
    BY <2>2, <2>4 DEF Slots
  <2>6. \A s \in Tasks, k \in Keys : (Runs(s, k)' => Runs(s, k)) /\ (Leaves(s, k)' => Leaves(s, k))
    BY <2>4, <2>5 DEF Runs, Leaves
  <2>7. \A s \in Tasks : task'[s].key = task[s].key
    BY <2>5
  <2>8. Exclusive' /\ RunnersRegistered' /\ HandIsPending'
    BY <2>3, <2>6, <2>7 DEF Alone, Exclusive, RunnersRegistered, Busy, HandIsPending
  <2>9. NothingDropped'
    BY <2>3 DEF Alone, NothingDropped, IsForwarded
  <2> QED BY <2>3, <2>8, <2>9, ForwardedStays DEF Alone
<1>2. CASE Restart
  <2>1. /\ task' = [t \in Tasks |-> Free] /\ hand' = [t \in Tasks |-> 0] /\ position' = 0
        /\ UNCHANGED <<activities, forwarded>>
    BY <1>2 DEF Restart, WorkersLost
  <2>2. \A t \in Tasks, k \in Keys : ~Busy(t, k)' /\ ~Runs(t, k)'
    BY <2>1 DEF Busy, Runs, Leaves, Free
  <2>3. Exclusive' /\ RunnersRegistered' /\ HandIsPending' /\ NothingDropped'
    BY <2>1, <2>2 DEF Exclusive, RunnersRegistered, HandIsPending, NothingDropped
  <2> QED BY <2>1, <2>3, ForwardedStays DEF Alone
<1>3. CASE UNCHANGED <<queue, registry, task, activities, position, pending, hand, forwarded>>
  BY <1>3, ForwardedStays DEF Alone, Exclusive, RunnersRegistered, HandIsPending, NothingDropped,
                              IsForwarded, Busy, Runs, Leaves
<1> QED BY <1>1, <1>2, <1>3 DEF Uploaded, VariantsAdded, Ready, vars, workerVars, pendVars

LEMMA AloneKept == ASSUME Always, Alone, ~Overlap, [Next]_vars PROVE Alone'
<1>1. ASSUME NEW t \in Tasks, Wakes(t) \/ Step(t) \/ Break(t) PROVE Alone'
  BY <1>1, AloneEndsStep, AloneHeld, AloneForward, AloneElse DEF Step
<1> QED BY <1>1, AloneActivity, AloneRead, AloneElse DEF Next, Verbs
-----------------------------------------------------------------------------
\* The invariant of the whole, inductive for either value of Overlap.
THEOREM InvariantHolds == Spec => []IInv
<1>1. Init => IInv
  BY AlwaysAtFirst, AloneAtFirst DEF IInv
<1>2. IInv /\ [Next]_vars => IInv'
  BY AlwaysKept, AloneKept DEF IInv
<1> QED BY <1>1, <1>2, PTL DEF Spec

\* The types of preview_activities, however work arrives.
THEOREM PreviewTypes == Spec => []TypeOK
<1>1. IInv => TypeOK
  <2> SUFFICES ASSUME IInv PROVE TypeOK
    OBVIOUS
  <2>1. Always /\ Typed
    BY DEF IInv, Always
  <2>2. WorkersTypeOK
    BY <2>1 DEF Always, Typed, WorkersTyped, Registered, WorkersTypeOK, Slots
  <2>3. \A t \in Tasks : hand[t] # 0 => InStep(t) /\ ObjectKey(Item(t)) = task[t].key
    BY <2>1 DEF Always, Traced, Of, Item
  <2> QED BY <2>1, <2>2, <2>3, OnTheWay DEF TypeOK, Typed
<1> QED BY <1>1, InvariantHolds, PTL

\* A forwarded activity names no preview that does not exist, even when two tasks
\* work on one key: what was struck out stays struck out while the activity is on its way.
THEOREM ForwardedClaimsAreTrue == Spec => []ClaimsAreTrue
<1>1. IInv => ClaimsAreTrue
  BY DEF IInv, Always
<1> QED BY <1>1, InvariantHolds, PTL

\* Without overlap, the registry keeps a key to one task, however often its task leaves
\* the registry, finds work in its last look and enters it again.
THEOREM OneTaskOnly == ASSUME ~Overlap PROVE Spec => []OneTaskPerKey
<1>1. IInv => OneTaskPerKey
  BY DEF IInv, Alone, Exclusive, Busy, OneTaskPerKey
<1> QED BY <1>1, InvariantHolds, PTL

\* Without overlap, what was passed on is queued, held or forwarded, and the creation and
\* the updates of an object are forwarded in order, across restarts.
THEOREM ForwardedAsRead == ASSUME ~Overlap PROVE Spec => []ForwardedFaithfully
<1>1. IInv => ForwardedFaithfully
  <2> SUFFICES ASSUME IInv PROVE NothingDropped /\ InOrder /\ ClaimsAreTrue
    BY DEF ForwardedFaithfully
  <2>1. Always /\ Alone
    BY DEF IInv
  <2>2. \A x, y \in Acts : x.obj = y.obj /\ "Delete" \notin {x.verb, y.verb} => ObjectKey(x) = ObjectKey(y)
    BY DEF ObjectKey
  <2>3. \A j \in 1 .. Len(forwarded) : activities[forwarded[j].pos] \in Acts
    <3>1. /\ activities \in Seq(Acts)
          /\ \A j \in 1 .. Len(forwarded) : forwarded[j] \in Entries /\ forwarded[j].pos <= Len(activities)
      BY <2>1 DEF Always, Typed
    <3>2. \A j \in 1 .. Len(forwarded) : forwarded[j].pos \in 1 .. Len(activities)
      BY <2>1, <3>1, OnTheWay DEF Entries, Positions
    <3> QED BY <3>1, <3>2
  <2>4. InOrder
    BY <2>1, <2>2, <2>3 DEF Alone, InKeyOrder, SameKey, InOrder
  <2> QED BY <2>1, <2>4 DEF Always, Alone
<1> QED BY <1>1, InvariantHolds, PTL
=============================================================================
