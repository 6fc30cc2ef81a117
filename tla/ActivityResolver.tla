---------------------------- MODULE ActivityResolver ----------------------------
(***************************************************************************)
(* The activity_resolver, for one remote object: the translator that finds *)
(* references to it in incoming activities, the task that fetches it, the  *)
(* topic "resolution" with its projection, and the objects that are fed    *)
(* back as if they had been delivered.  References wait in memory; what    *)
(* was resolved is on the topic, and each of its events has an id made of  *)
(* object, referrer, attempt and state, so that it is published once.      *)
(*                                                                         *)
(* Versions are numbered; 0 is no version.  Windows and caches run out at  *)
(* any time.                                                               *)
(***************************************************************************)
EXTENDS Naturals, Sequences

CONSTANTS Referrers,          \* remote objects that refer to this one
          MaxReferences,      \* bound: activities that refer to it
          MaxVersion,         \* bound: edits of the object
          MaxAttempts,        \* max_attempts
          TombstoneThreshold, \* tombstone_threshold
          MaxStops            \* bound: restarts of the process

ASSUME ResolverAssumption == MaxVersion \in Nat /\ MaxAttempts \in Nat \ {0} /\ "none" \notin Referrers

Deleted == MaxVersion + 1     \* the version of a tombstone, later than any edit
NoRef == [referrer |-> "none", sought |-> 0]

VARIABLES incoming,  \* the references in incoming activities
          read,      \* position of the translator
          resolved,  \* those that are on resolved_activities
          queue,     \* references in memory
          task,      \* <<>>, or the task of the object
          events,    \* the topic "resolution"
          applied,   \* how many of them are in the table
          ended,     \* the last event whose window has passed, or 0
          expired,   \* the last event whose cache_end or tombstone has passed, or 0
          fed,       \* versions published to local_delivery
          remote,    \* version of the object at its server
          failed,    \* a task was ended by an exception
          restarts

rvars == <<incoming, read, resolved, queue, task, events, applied, ended, expired,
           fed, remote, failed, restarts>>

-----------------------------------------------------------------------------
(* The table: one row, or none.                                             *)

NoRow == [state |-> "none", version |-> 0, cached |-> 0, at |-> 0, attempt |-> 0, missing |-> 0]

\* record_process and record_version.
Record(row, i) ==
  LET e == events[i]
      process == [row EXCEPT !.state = e.state, !.at = i, !.attempt = e.attempt, !.missing = e.missing]
  IN IF e.state \notin {"succeeded", "tombstone"} THEN process
     ELSE IF e.version < row.version THEN row
     ELSE [process EXCEPT !.version = e.version, !.cached = i]

\* The row when the table has the first n events.
RowAfter[n \in 0..Len(events)] == IF n = 0 THEN NoRow ELSE Record(RowAfter[n - 1], n)
Row == RowAfter[applied]

Project ==
  /\ applied < Len(events)
  /\ applied' = applied + 1
  /\ UNCHANGED <<incoming, read, resolved, queue, task, events, ended, expired, fed, remote, failed, restarts>>

\* Time: the lease or the backoff of the last event ends; what is known of the
\* object is no longer fresh, at once if its server says so (max-age=0).  A
\* tombstone outlasts the attempts of a task.
WindowEnds ==
  /\ ended < Row.at /\ ended' = Row.at
  /\ UNCHANGED <<incoming, read, resolved, queue, task, events, applied, expired, fed, remote, failed, restarts>>

Expires ==
  /\ expired < Row.cached /\ (Row.state = "tombstone" => task = <<>>)
  /\ expired' = Row.cached
  /\ UNCHANGED <<incoming, read, resolved, queue, task, events, applied, ended, fed, remote, failed, restarts>>

-----------------------------------------------------------------------------
(* The translator.                                                          *)

Idle == [pc |-> "loop", ref |-> NoRef, attempt |-> 0, missing |-> 0, version |-> 0]

\* An activity refers to the object, or carries a copy of it: the version of
\* the copy is sought.
Refer ==
  /\ Len(incoming) < MaxReferences
  /\ \E r \in Referrers, s \in 0..remote : incoming' = Append(incoming, [referrer |-> r, sought |-> s])
  /\ UNCHANGED <<read, resolved, queue, task, events, applied, ended, expired, fed, remote, failed, restarts>>

\* enqueue and ensure_task.
Enqueue(ref) ==
  /\ queue' = Append(queue, ref)
  /\ task' = IF task = <<>> THEN <<Idle>> ELSE task

\* The references of an activity that has been forwarded before are not
\* looked at again.
Translate ==
  /\ read < Len(incoming)
  /\ read' = read + 1
  /\ IF read' \in resolved THEN UNCHANGED <<queue, task, resolved>>
     ELSE /\ Enqueue(incoming[read'])
          /\ resolved' = resolved \cup {read'}
  /\ UNCHANGED <<incoming, events, applied, ended, expired, fed, remote, failed, restarts>>

-----------------------------------------------------------------------------
(* The task.                                                                *)

\* Of the references that wait the last, if it has another referrer.
Absorb(ref) ==
  LET others == {i \in DOMAIN queue : ref = NoRef \/ queue[i].referrer # ref.referrer}
  IN IF others = {} THEN ref ELSE queue[CHOOSE i \in others : \A j \in others : j <= i]

MFresh(row, sought) == sought <= row.version   \* mutant: nothing sought, nothing to do

Fresh(row, sought) ==
  IF sought # 0 THEN sought <= row.version ELSE row.version # 0 /\ row.cached > expired

\* A version that is sought is text and the one that is known a time: to
\* compare them is an error.
Incomparable(row, sought) == sought # 0 /\ row.version # 0

Waiting(row) == row.state \in {"attempting", "failed", "not_found"} /\ row.at > ended

Published(r, a, state) == \E i \in DOMAIN events : <<events[i].referrer, events[i].attempt, events[i].state>> = <<r, a, state>>

Publish(r, a, state, version, missing) ==
  events' = IF Published(r, a, state) THEN events
            ELSE Append(events, [referrer |-> r, attempt |-> a, state |-> state,
                                 version |-> version, missing |-> missing])

Goes(pc, ref) == task' = <<[Idle EXCEPT !.pc = pc, !.ref = ref]>>

MNextAttempt(row) == row.attempt       \* mutant: attempts are not counted

NextAttempt(row) == row.attempt + 1

\* A round of the loop, up to the claim of an attempt.
Look ==
  /\ task # <<>> /\ task[1].pc = "loop" /\ (task[1].ref # NoRef \/ queue # <<>>)
  /\ queue' = <<>>
  /\ LET ref == Absorb(task[1].ref)
         fresh == ref # task[1].ref
         attempt == IF fresh THEN 1 ELSE NextAttempt(Row)
     IN \/ /\ Incomparable(Row, ref.sought)
           /\ task' = <<>> /\ failed' = TRUE /\ UNCHANGED events
        \/ /\ ~Incomparable(Row, ref.sought) /\ UNCHANGED failed
           /\ \/ Fresh(Row, ref.sought) /\ Goes("loop", NoRef) /\ UNCHANGED events
              \/ ~Fresh(Row, ref.sought) /\ Waiting(Row) /\ Goes("loop", ref) /\ UNCHANGED events
              \/ /\ ~Fresh(Row, ref.sought) /\ ~Waiting(Row)
                 /\ \/ attempt > MaxAttempts /\ Goes("loop", NoRef) /\ UNCHANGED events
                    \/ /\ attempt <= MaxAttempts
                       /\ Publish(ref.referrer, attempt, "attempting", 0, Row.missing)
                       /\ task' = <<[pc |-> IF events' = events THEN "loop" ELSE "fetching", ref |-> ref,
                                     attempt |-> attempt, missing |-> Row.missing, version |-> 0]>>
  /\ UNCHANGED <<incoming, read, resolved, applied, ended, expired, fed, remote, restarts>>

\* The answer of the server.  An object without a date takes the time of the
\* activity for its version, which cannot be published.
Fetched ==
  /\ task # <<>> /\ task[1].pc = "fetching"
  /\ LET t == task[1] IN
     \/ /\ Publish(t.ref.referrer, 0, "succeeded", remote, 0)
        /\ task' = <<[t EXCEPT !.pc = "feeding", !.version = remote]>> /\ UNCHANGED failed
     \/ task' = <<>> /\ failed' = TRUE /\ UNCHANGED events
     \/ /\ Publish(t.ref.referrer, 0, "tombstone", Deleted, 0)
        /\ Goes("loop", t.ref) /\ UNCHANGED failed
     \/ /\ IF t.missing + 1 >= TombstoneThreshold
           THEN Publish(t.ref.referrer, 0, "tombstone", Deleted, 0)
           ELSE Publish(t.ref.referrer, t.attempt, "not_found", 0, t.missing + 1)
        /\ Goes("loop", t.ref) /\ UNCHANGED failed
     \/ /\ Publish(t.ref.referrer, t.attempt, "failed", 0, t.missing)
        /\ Goes("loop", t.ref) /\ UNCHANGED failed
  /\ UNCHANGED <<incoming, read, resolved, queue, applied, ended, expired, fed, remote, restarts>>

Backfeed ==
  /\ task # <<>> /\ task[1].pc = "feeding"
  /\ fed' = fed \cup {task[1].version}
  /\ Goes("loop", task[1].ref)
  /\ UNCHANGED <<incoming, read, resolved, queue, events, applied, ended, expired, remote, failed, restarts>>

\* It has been idle for IDLE_LIMIT rounds.
TaskEnds ==
  /\ task # <<>> /\ task[1] = Idle /\ queue = <<>>
  /\ task' = <<>>
  /\ UNCHANGED <<incoming, read, resolved, queue, events, applied, ended, expired, fed, remote, failed, restarts>>

-----------------------------------------------------------------------------
Edited ==
  /\ remote < MaxVersion /\ remote' = remote + 1
  /\ UNCHANGED <<incoming, read, resolved, queue, task, events, applied, ended, expired, fed, failed, restarts>>

\* The table is rebuilt before the translator starts, from its beginning.
RestartResolver ==
  /\ restarts < MaxStops /\ restarts' = restarts + 1
  /\ queue' = <<>> /\ task' = <<>> /\ read' = 0 /\ applied' = Len(events)
  /\ UNCHANGED <<incoming, resolved, events, ended, expired, fed, remote, failed>>

ResolverInit ==
  /\ incoming = <<>> /\ read = 0 /\ resolved = {} /\ queue = <<>> /\ task = <<>>
  /\ events = <<>> /\ applied = 0 /\ ended = 0 /\ expired = 0 /\ fed = {}
  /\ remote = 1 /\ failed = FALSE /\ restarts = 0

ResolverNext ==
  \/ Project \/ WindowEnds \/ Expires \/ Refer \/ Translate \/ Look \/ Fetched \/ Backfeed
  \/ TaskEnds \/ Edited \/ RestartResolver

ResolverFairness ==
  /\ WF_rvars(Project) /\ WF_rvars(WindowEnds) /\ WF_rvars(Translate) /\ WF_rvars(Look)
  /\ WF_rvars(Fetched) /\ WF_rvars(Backfeed) /\ WF_rvars(TaskEnds)

-----------------------------------------------------------------------------
ResolverTypeOK ==
  /\ read \in 0..Len(incoming) /\ applied \in 0..Len(events)
  /\ Row.version \in 0..Deleted /\ fed \subseteq 1..MaxVersion

Settled == task = <<>> /\ queue = <<>> /\ read = Len(incoming) /\ applied = Len(events)

\* Whatever the server answers, however late the table is, and in whatever
\* order references come and the process restarts: as long as nothing that is
\* known of the object expires and no task fails, every task comes to its end.
ResolverSettles == <>[](expired # 0 \/ failed \/ Settled)

\* When there is nothing left to do, and no exception and no restart has lost a
\* reference, every referrer has what it refers to: the object was fed back in
\* the version that is recorded, or the server refused it.
QuietMeansResolved ==
  (/\ Settled /\ incoming # <<>>
   /\ restarts = 0 /\ ~failed)
  => \/ Row.version \in fed
     \/ \E i \in DOMAIN events : events[i].state \in {"failed", "not_found", "tombstone"}
=============================================================================
