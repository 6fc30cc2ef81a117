--------------------------- MODULE ReactionCollections ---------------------------
(***************************************************************************)
(* reaction_collections reads the collection of reactions of a remote      *)
(* object.  A request ("reaction_refresh", from the client API and from    *)
(* the component itself when it learns of the object) for an object that   *)
(* is due is claimed on the topic "reactions_resolution" and put in a      *)
(* queue of limited size, which one worker empties.  The worker reports    *)
(* each reading there, with the time of the next.  The table of            *)
(* inspections follows that topic; queue and worker are in memory.         *)
(***************************************************************************)
EXTENDS Naturals, Sequences, SequencesExt

CONSTANTS Collections,       \* objects that have one
          MaxRefreshes,      \* bound: requests
          MaxTime,           \* bound: time
          QueueSize,
          RefreshAfter,
          ReadLease,
          MaxFailures,       \* bound: attempt numbers; backoff(n) is n
          MaxReaderStarts

ASSUME CollectionsAssumption == QueueSize \in Nat /\ RefreshAfter \in Nat /\ MaxFailures \in Nat

VARIABLES now,
          refreshes,         \* the topic "reaction_refresh"
          rpos,              \* position of the translator in it
          remembered,        \* table collection
          turns,             \* the topic "reactions_resolution"
          inspected,         \* how many of its events are in the table inspection
          waiting,           \* the queue: <<object, attempt>>
          reading,           \* <<>> or <<object, attempt, begun>>
          readerStarts

cvars == <<now, refreshes, rpos, remembered, turns, inspected, waiting, reading, readerStarts>>

Turn(o, state, attempt, due) == [o |-> o, state |-> state, attempt |-> attempt, at |-> now, due |-> due]

\* The row of the object: a report replaces an older one.
Inspection(o) ==
  LET hits == {i \in 1..inspected : turns[i].o = o}
  IN IF hits = {} THEN <<>> ELSE <<turns[CHOOSE i \in hits : \A j \in hits : j <= i]>>

AttemptOf(o) == IF Inspection(o) = <<>> THEN 0 ELSE Inspection(o)[1].attempt

Due(o) ==
  /\ o \in remembered
  /\ Inspection(o) # <<>> => LET row == Inspection(o)[1]
                             IN IF row.state = "attempting" THEN row.at + ReadLease < now
                                                            ELSE row.due <= now

\* claim_id: object and attempt.
Claimed(o, attempt) == \E i \in DOMAIN turns : /\ turns[i].o = o /\ turns[i].attempt = attempt
                                               /\ turns[i].state = "attempting"

-----------------------------------------------------------------------------
Refresh(o) ==
  /\ Len(refreshes) < MaxRefreshes /\ refreshes' = Append(refreshes, o)
  /\ UNCHANGED <<now, rpos, remembered, turns, inspected, waiting, reading, readerStarts>>

\* remember and forget.
With(o) == remembered \cup {o}
Without(o) == remembered \ {o}

\* Create or Update on "resolved_activities": remembered, and refreshed at once.
Learn(o) ==
  /\ Len(refreshes) < MaxRefreshes /\ refreshes' = Append(refreshes, o)
  /\ remembered' = With(o)
  /\ UNCHANGED <<now, rpos, turns, inspected, waiting, reading, readerStarts>>

Forget(o) ==
  /\ o \in remembered /\ remembered' = Without(o)
  /\ UNCHANGED <<now, refreshes, rpos, turns, inspected, waiting, reading, readerStarts>>

Overflow(o, attempt) == <<Turn(o, "failed", attempt + 1, now + attempt + 1)>>

\* A due object is claimed; the claim that finds the queue full fails at once.
\* (The claim and enqueue's report are two publications; nothing comes between.)
MRefused(o, attempt) == FALSE          \* mutant: the claim has no message id

Refused(o, attempt) == Claimed(o, attempt)

OnRequested ==
  /\ rpos < Len(refreshes)
  /\ rpos' = rpos + 1
  /\ LET o == refreshes[rpos']
         attempt == AttemptOf(o)
         claim == Turn(o, "attempting", attempt, now)
     IN IF ~Due(o) \/ Refused(o, attempt)
        THEN UNCHANGED <<turns, waiting>>
        ELSE IF Len(waiting) < QueueSize
             THEN turns' = Append(turns, claim) /\ waiting' = Append(waiting, <<o, attempt>>)
             ELSE turns' = turns \o <<claim>> \o Overflow(o, attempt) /\ UNCHANGED waiting
  /\ UNCHANGED <<now, refreshes, remembered, inspected, reading, readerStarts>>

BeginReading ==
  /\ reading = <<>> /\ waiting # <<>>
  /\ reading' = Append(Head(waiting), now) /\ waiting' = Tail(waiting)
  /\ UNCHANGED <<now, refreshes, rpos, remembered, turns, inspected, readerStarts>>

\* The pages of the collection are read to the end or not: _done or _failed.
Done == turns' = Append(turns, Turn(reading[1], "succeeded", 0, reading[3] + RefreshAfter))
Failed ==
  /\ reading[2] < MaxFailures
  /\ turns' = Append(turns, Turn(reading[1], "failed", reading[2] + 1, reading[3] + reading[2] + 1))

EndReading ==
  /\ reading # <<>>
  /\ Done \/ Failed
  /\ reading' = <<>>
  /\ UNCHANGED <<now, refreshes, rpos, remembered, inspected, waiting, readerStarts>>

OnState ==
  /\ inspected < Len(turns) /\ inspected' = inspected + 1
  /\ UNCHANGED <<now, refreshes, rpos, remembered, turns, waiting, reading, readerStarts>>

\* Both tables are rebuilt, which asks for every remembered object again; the
\* requests are read from the first.
RestartReader ==
  /\ readerStarts < MaxReaderStarts /\ readerStarts' = readerStarts + 1
  /\ rpos' = 0 /\ inspected' = Len(turns)
  /\ refreshes' = refreshes \o SetToSeq(remembered)
  /\ waiting' = <<>> /\ reading' = <<>>
  /\ UNCHANGED <<now, remembered, turns>>

Later ==
  /\ now < MaxTime /\ now' = now + 1
  /\ UNCHANGED <<refreshes, rpos, remembered, turns, inspected, waiting, reading, readerStarts>>

CollectionsInit ==
  /\ now = 0 /\ refreshes = <<>> /\ rpos = 0 /\ remembered = {} /\ turns = <<>> /\ inspected = 0
  /\ waiting = <<>> /\ reading = <<>> /\ readerStarts = 0

CollectionsNext ==
  \/ \E o \in Collections : Refresh(o) \/ Learn(o) \/ Forget(o)
  \/ OnRequested \/ BeginReading \/ EndReading \/ OnState \/ RestartReader \/ Later

CollectionsFairness ==
  WF_cvars(OnRequested) /\ WF_cvars(BeginReading) /\ WF_cvars(EndReading) /\ WF_cvars(OnState)

-----------------------------------------------------------------------------
AtIt(o) == (reading # <<>> /\ reading[1] = o) \/ \E i \in DOMAIN waiting : waiting[i][1] = o

\* An object is in the hands of the worker or in the queue at most once: a
\* request that finds an old row, or comes after the lease, enqueues nothing.
NeverReadTwiceAtOnce ==
  /\ \A i, j \in DOMAIN waiting : waiting[i][1] = waiting[j][1] => i = j
  /\ reading # <<>> => \A i \in DOMAIN waiting : waiting[i][1] # reading[1]

\* While the process runs, every claim is reported in the end, as succeeded or
\* as failed, also the claim that found the queue full.
EveryClaimIsReported ==
  <>[](readerStarts = 0 =>
         \A i \in DOMAIN turns : turns[i].state = "attempting" =>
           \E j \in DOMAIN turns : j > i /\ turns[j].o = turns[i].o /\ turns[j].state # "attempting")

\* "An object is due again at its next turn": if nobody is at it, its claim is free.
DueAgainAtItsNextTurn ==
  \A o \in Collections : (inspected = Len(turns) /\ Due(o) /\ ~AtIt(o)) => ~Claimed(o, AttemptOf(o))
=============================================================================
