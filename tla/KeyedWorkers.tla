----------------------------- MODULE KeyedWorkers -----------------------------
(***************************************************************************)
(* The worker registry that several components share: a queue and at most  *)
(* one registered task per key. A task calls the step of its component,    *)
(* which returns a delay when it has worked and nothing when there was     *)
(* nothing to do; after IDLE_LIMIT calls of the second kind the task       *)
(* leaves the registry, sleeps, and looks once more before it ends.        *)
(*                                                                         *)
(* A step runs from the wake-up of its task to Return, which the modules   *)
(* of the components take at the end of theirs.                            *)
(***************************************************************************)
EXTENDS Naturals, Sequences

CONSTANTS Keys,
          Tasks,        \* task slots: asyncio tasks that may run at one time
          NoTask,
          IDLE_LIMIT

ASSUME WorkersAssumption == NoTask \notin Tasks /\ IDLE_LIMIT \in Nat \ {0}

VARIABLES queue,      \* _queues: key -> what was submitted
          registry,   \* _tasks: key -> task
          task        \* what a slot does: [at, key, idle]

workerVars == <<queue, registry, task>>

States == {"free", "step", "sleep", "leave", "look"}
Free == [at |-> "free", key |-> CHOOSE k \in Keys : TRUE, idle |-> 0]

WorkersInit == /\ queue = [k \in Keys |-> << >>]
               /\ registry = [k \in Keys |-> NoTask]
               /\ task = [t \in Tasks |-> Free]

\* A task that is in its loop, or has taken up work in its last look.
Runs(t, k) == task[t].key = k /\ task[t].at \in {"step", "sleep"}
Leaves(t, k) == task[t].key = k /\ task[t].at \in {"leave", "look"}
InStep(t) == task[t].at \in {"step", "look"}

EnsureTask(k) ==
    IF registry[k] # NoTask THEN UNCHANGED <<registry, task>>
    ELSE \E t \in Tasks :
            /\ task[t].at = "free"
            /\ registry' = [registry EXCEPT ![k] = t]
            /\ task' = [task EXCEPT ![t] = [at |-> "step", key |-> k, idle |-> 0]]

Submit(k, item) ==
    /\ queue' = [queue EXCEPT ![k] = Append(@, item)]
    /\ EnsureTask(k)

WakeUp(t) ==
    /\ \/ task[t].at = "sleep" /\ task' = [task EXCEPT ![t].at = "step"]
       \/ task[t].at = "leave" /\ task' = [task EXCEPT ![t].at = "look"]
    /\ UNCHANGED <<queue, registry>>

-----------------------------------------------------------------------------
(* The end of a step. The registry is changed without a look at who is in it. *)
Idle(t, worked) == IF worked THEN 0 ELSE task[t].idle + 1

StaysInLoop(t, worked) ==
    /\ task[t].at = "step" /\ Idle(t, worked) < IDLE_LIMIT
    /\ task' = [task EXCEPT ![t].at = "sleep", ![t].idle = Idle(t, worked)]
    /\ UNCHANGED registry

LeavesRegistry(t, worked) ==
    /\ task[t].at = "step" /\ Idle(t, worked) >= IDLE_LIMIT
    /\ task' = [task EXCEPT ![t].at = "leave", ![t].idle = IDLE_LIMIT]
    /\ registry' = [registry EXCEPT ![task[t].key] = NoTask]

MFoundWork(t) ==                           \* mutant: goes on without entering the registry
    /\ task[t].at = "look"
    /\ task' = [task EXCEPT ![t].at = "sleep", ![t].idle = 0]
    /\ UNCHANGED registry
FoundWork(t) ==
    /\ task[t].at = "look"
    /\ task' = [task EXCEPT ![t].at = "sleep", ![t].idle = 0]
    /\ registry' = [registry EXCEPT ![task[t].key] = t]

\* _retire removes a task that ends only while it is the registered one.
Ends(t) ==
    /\ task[t].at = "look"
    /\ task' = [task EXCEPT ![t] = Free]
    /\ registry' = [registry EXCEPT ![task[t].key] = IF @ = t THEN NoTask ELSE @]

Return(t, worked) ==
    \/ StaysInLoop(t, worked)
    \/ LeavesRegistry(t, worked)
    \/ worked /\ FoundWork(t)
    \/ ~worked /\ Ends(t)

\* The process ends: all of this is in memory.
WorkersLost == /\ queue' = [k \in Keys |-> << >>]
               /\ registry' = [k \in Keys |-> NoTask]
               /\ task' = [t \in Tasks |-> Free]
-----------------------------------------------------------------------------
WorkersTypeOK ==
    /\ DOMAIN queue = Keys
    /\ registry \in [Keys -> Tasks \cup {NoTask}]
    /\ task \in [Tasks -> [at : States, key : Keys, idle : 0 .. IDLE_LIMIT]]
    /\ \A k \in Keys : registry[k] # NoTask => Runs(registry[k], k)

\* A submit does not start a task for a key while another one is at work on it.
OneTaskPerKey == \A k \in Keys, s, t \in Tasks : Runs(s, k) /\ Runs(t, k) => s = t
=============================================================================
