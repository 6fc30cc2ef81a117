--------------------------- MODULE PreviewActivities ---------------------------
(***************************************************************************)
(* preview_activities passes the topic "activities" on to                  *)
(* "deliverable_activities". An activity waits until the attachments of    *)
(* its object are in the projection of the topic "media" and have their    *)
(* previews, which the component produces; a preview that cannot be made   *)
(* is struck out. A keyed worker does this, one key per object. A deletion *)
(* names its object by a string and so gets a key of its own.              *)
(*                                                                         *)
(* The component remembers no position: at a restart the whole topic is    *)
(* read again, and what was forwarded before is dropped by its message id. *)
(***************************************************************************)
EXTENDS KeyedWorkers, FiniteSets

CONSTANTS Objects,
          Media, Attached,   \* Attached[o]: the local media of an object, uploaded before it
          Variants,          \* the previews wanted of a medium
          Overlap,     \* TRUE: work may arrive for a key whose idle task is leaving
          MediaInTime, \* TRUE: media are projected before the last look of a task that waits for them
          MaxActivity, MaxBreaks, MaxRestarts   \* bounds

ASSUME PreviewAssumption ==
    /\ Objects # {} /\ Keys = Objects \X {"object", "activity"}
    /\ "" \notin Variants
    /\ Attached \in [Objects -> SUBSET Media]
    /\ {Overlap, MediaInTime} \subseteq BOOLEAN
    /\ {MaxActivity, MaxBreaks, MaxRestarts} \subseteq Nat

VARIABLES activities,  \* topic: [verb, obj]
          position,    \* of handle_events in it
          pending,     \* key -> the activity held by the step, 0 for none
          failed,      \* activity held -> its previews that could not be made
          hand,        \* task -> the activity its step is at, 0 before it has one
          plan,        \* task -> Delay, Publishing or the preview it is going to make
          known,       \* projection of the media: those it has
          noted,       \* and the previews it has of them
          made,        \* media topic: the previews that exist
          forwarded,   \* topic deliverable_activities: [pos, claims]
          breaks, restarts

mediaVars == <<known, noted, made>>
pendVars == <<pending, failed>>
vars == <<workerVars, activities, position, pendVars, hand, plan, mediaVars, forwarded, breaks, restarts>>
bounds == <<breaks, restarts>>

Previews == Media \X Variants
Delay == <<"delay", "">>
Publishing == <<"forward", "">>
Wanted(a) == IF a.verb = "Delete" THEN {} ELSE Attached[a.obj] \X Variants
MObjectKey(a) == <<a.obj, IF a.verb = "Create" THEN "object" ELSE "activity">>   \* mutant: one more key
ObjectKey(a) == <<a.obj, IF a.verb = "Delete" THEN "activity" ELSE "object">>

Init == /\ WorkersInit
        /\ activities = << >> /\ position = 0
        /\ pending = [k \in Keys |-> 0] /\ failed = [i \in 1 .. MaxActivity |-> {}]
        /\ hand = [t \in Tasks |-> 0] /\ plan = [t \in Tasks |-> Delay]
        /\ known = {} /\ noted = {} /\ made = {}
        /\ forwarded = << >> /\ breaks = 0 /\ restarts = 0
-----------------------------------------------------------------------------
(* the topics *)
Happened(verb, o) == \E i \in 1 .. Len(activities) : activities[i] = [verb |-> verb, obj |-> o]

\* polish_activities: an object is created, updated while it is there, and deleted.
Activity(verb, o) ==
    /\ Len(activities) < MaxActivity
    /\ IF verb = "Create" THEN ~Happened("Create", o)
       ELSE Happened("Create", o) /\ ~Happened("Delete", o)
    /\ activities' = Append(activities, [verb |-> verb, obj |-> o])
    /\ UNCHANGED <<workerVars, position, pendVars, hand, plan, mediaVars, forwarded, bounds>>

Uploaded(m) ==
    /\ m \notin known /\ known' = known \cup {m}
    /\ UNCHANGED <<workerVars, activities, position, pendVars, hand, plan, noted, made, forwarded, bounds>>

VariantsAdded(p) ==
    /\ p \in made \ noted /\ p[1] \in known /\ noted' = noted \cup {p}
    /\ UNCHANGED <<workerVars, activities, position, pendVars, hand, plan, known, made, forwarded, bounds>>

\* handle_events
Read ==
    /\ position < Len(activities)
    /\ LET k == ObjectKey(activities[position + 1])
       IN /\ Overlap \/ \A t \in Tasks : ~Leaves(t, k)
          /\ Submit(k, position + 1)
    /\ position' = position + 1
    /\ UNCHANGED <<activities, pendVars, hand, plan, mediaVars, forwarded, bounds>>

Wakes(t) == /\ WakeUp(t)
            /\ UNCHANGED <<activities, position, pendVars, hand, plan, mediaVars, forwarded, bounds>>
-----------------------------------------------------------------------------
(* the step *)
NothingHeld(t) ==
    LET k == task[t].key IN
    /\ InStep(t) /\ hand[t] = 0
    /\ pending[k] = 0 /\ queue[k] = << >>
    /\ Return(t, FALSE)
    /\ UNCHANGED <<queue, activities, position, pendVars, hand, plan, mediaVars, forwarded, bounds>>

Takes(k) == pending[k] = 0 /\ queue[k] # << >>
Held(t) ==
    LET k == task[t].key IN
    /\ InStep(t) /\ hand[t] = 0 /\ (pending[k] # 0 \/ queue[k] # << >>)
    /\ IF Takes(k) THEN /\ pending' = [pending EXCEPT ![k] = Head(queue[k])]
                        /\ queue' = [queue EXCEPT ![k] = Tail(@)]
                        /\ failed' = [failed EXCEPT ![Head(queue[k])] = {}]
                   ELSE UNCHANGED <<pending, queue, failed>>
    /\ hand' = [hand EXCEPT ![t] = pending'[k]] /\ plan' = [plan EXCEPT ![t] = Delay]
    /\ UNCHANGED <<registry, task, activities, position, mediaVars, forwarded, bounds>>

\* The step ends, its task puts the activity down.
Done(t, worked) == /\ Return(t, worked)
                   /\ hand' = [hand EXCEPT ![t] = 0] /\ plan' = [plan EXCEPT ![t] = Delay]

Item(t) == activities[hand[t]]
Unknown(a) == {p[1] : p \in Wanted(a)} \ known
Missing(i) == Wanted(activities[i]) \ (noted \cup failed[i])

\* After the delay: outstanding
NotReady(t) ==
    /\ InStep(t) /\ hand[t] # 0 /\ plan[t] = Delay /\ Unknown(Item(t)) # {}
    /\ MediaInTime => task[t].at # "look"
    /\ Done(t, FALSE)
    /\ UNCHANGED <<queue, activities, position, pendVars, mediaVars, forwarded, bounds>>

Ready(t) ==
    /\ InStep(t) /\ hand[t] # 0 /\ plan[t] = Delay /\ Unknown(Item(t)) = {}
    /\ plan' = [plan EXCEPT ![t] = IF Missing(hand[t]) = {} THEN Publishing
                                   ELSE CHOOSE p \in Missing(hand[t]) : TRUE]
    /\ UNCHANGED <<workerVars, activities, position, pendVars, hand, mediaVars, forwarded, bounds>>

\* attempted
Produced(t) ==
    /\ InStep(t) /\ plan[t] \in Previews
    /\ made' = made \cup {plan[t]}
    /\ Done(t, TRUE)
    /\ UNCHANGED <<queue, activities, position, pendVars, known, noted, forwarded, bounds>>

CannotProduce(t) ==
    /\ InStep(t) /\ plan[t] \in Previews
    /\ failed' = [failed EXCEPT ![hand[t]] = @ \cup {plan[t]}]
    /\ Done(t, TRUE)
    /\ UNCHANGED <<queue, activities, position, pending, mediaVars, forwarded, bounds>>

IsForwarded(i) == \E j \in 1 .. Len(forwarded) : forwarded[j].pos = i
WithoutFailed(i) == Wanted(activities[i]) \ failed[i]

MForward(t) ==                             \* mutant: puts the activity down before its next step
    LET i == hand[t]
        k == task[t].key
    IN /\ InStep(t) /\ i # 0 /\ plan[t] = Publishing
       /\ forwarded' = IF IsForwarded(i) THEN forwarded
                       ELSE Append(forwarded, [pos |-> i, claims |-> WithoutFailed(i)])
       /\ Done(t, TRUE)
       /\ UNCHANGED <<queue, pendVars, activities, position, mediaVars, bounds>>
Forward(t) ==
    LET i == hand[t]
        k == task[t].key
    IN /\ InStep(t) /\ i # 0 /\ plan[t] = Publishing
       /\ forwarded' = IF IsForwarded(i) THEN forwarded
                       ELSE Append(forwarded, [pos |-> i, claims |-> WithoutFailed(i)])
       /\ pending' = [pending EXCEPT ![k] = 0]
       /\ Done(t, queue[k] # << >>)
       /\ UNCHANGED <<queue, failed, activities, position, mediaVars, bounds>>

\* The storage or the bus fails: the task logs it and goes on.
Break(t) ==
    /\ breaks < MaxBreaks /\ breaks' = breaks + 1
    /\ InStep(t) /\ hand[t] # 0 /\ plan[t] \in {Delay, Publishing}
    /\ Done(t, TRUE)
    /\ UNCHANGED <<queue, activities, position, pendVars, mediaVars, forwarded, restarts>>

\* The projection of the media is rebuilt before the first activity is read.
Restart ==
    /\ restarts < MaxRestarts /\ restarts' = restarts + 1
    /\ WorkersLost
    /\ pending' = [k \in Keys |-> 0] /\ failed' = [i \in 1 .. MaxActivity |-> {}]
    /\ hand' = [t \in Tasks |-> 0] /\ plan' = [t \in Tasks |-> Delay]
    /\ position' = 0
    /\ known' = Media /\ noted' = made
    /\ UNCHANGED <<activities, made, forwarded, breaks>>

Step(t) == \/ NothingHeld(t) \/ Held(t) \/ NotReady(t) \/ Ready(t)
           \/ Produced(t) \/ CannotProduce(t) \/ Forward(t)

Next == \/ \E verb \in {"Create", "Update", "Delete"}, o \in Objects : Activity(verb, o)
        \/ \E m \in Media : Uploaded(m)
        \/ \E p \in Previews : VariantsAdded(p)
        \/ Read \/ Restart
        \/ \E t \in Tasks : Wakes(t) \/ Step(t) \/ Break(t)

Spec == Init /\ [][Next]_vars

\* The event loop runs every task, the projections keep reading. That a preview can be
\* made sometimes, or ends as failed, is one fairness condition for both outcomes.
FairSpec == /\ Spec
            /\ WF_vars(Read)
            /\ \A m \in Media : WF_vars(Uploaded(m))
            /\ \A p \in Previews : WF_vars(VariantsAdded(p))
            /\ \A t \in Tasks : WF_vars(Wakes(t)) /\ WF_vars(Step(t))
-----------------------------------------------------------------------------
TypeOK ==
    /\ WorkersTypeOK
    /\ position \in 0 .. Len(activities)
    /\ \A k \in Keys : pending[k] \in 0 .. position
    /\ \A t \in Tasks : /\ hand[t] \in 0 .. position
                        /\ plan[t] \in Previews \cup {Delay, Publishing}
                        /\ hand[t] # 0 => InStep(t) /\ ObjectKey(Item(t)) = task[t].key
    /\ noted \subseteq made /\ made \subseteq Previews

\* What handle_events has passed on is queued, held, or forwarded: no activity is lost.
NothingDropped ==
    \A i \in 1 .. position :
       LET k == ObjectKey(activities[i])
       IN IsForwarded(i) \/ pending[k] = i \/ \E n \in 1 .. Len(queue[k]) : queue[k][n] = i

\* The creation and the updates of an object are forwarded in their order, however long
\* one of them waits, and also when a restart begins anew.
InOrder ==
    \A a, b \in 1 .. Len(forwarded) :
       LET x == activities[forwarded[a].pos]
           y == activities[forwarded[b].pos]
       IN a < b /\ x.obj = y.obj /\ "Delete" \notin {x.verb, y.verb} => forwarded[a].pos < forwarded[b].pos

\* A forwarded activity names no preview that does not exist.
ClaimsAreTrue == \A j \in 1 .. Len(forwarded) : forwarded[j].claims \subseteq made

\* What was passed on is forwarded once it can be, in order, with previews that exist.
ForwardedFaithfully == NothingDropped /\ InOrder /\ ClaimsAreTrue

\* Every activity is forwarded in the end.
EveryActivityIsForwarded ==
    \A i \in 1 .. MaxActivity : Len(activities) >= i ~> IsForwarded(i)
=============================================================================
