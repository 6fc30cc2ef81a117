--------------------------- MODULE SubscriberProofs ---------------------------
(***************************************************************************)
(* For any number of publishers, message ids, transactions and restarts,   *)
(* and for any MIN_WINDOW: that a message_id is written at most once, what *)
(* the reader of a topic delivers, skips, audits and stops for, and that   *)
(* its client sees the abstract feed.                                      *)
(***************************************************************************)
EXTENDS Subscriber, NatOrder, FiniteSetTheorems, TLAPS

-----------------------------------------------------------------------------
(* The writers. *)

\* A transaction that has run its INSERT owns a number of its own, drawn from the
\* sequence and not visible yet.
OwnsItsNumber ==
    /\ \A p \in Publishers : tx[p].pc \in {"inserted", "blocked"} =>
                                 /\ tx[p].id \in 1 .. seq
                                 /\ tx[p].id \notin committed
    /\ \A p, q \in Publishers : /\ tx[p].pc \in {"inserted", "blocked"}
                                /\ tx[q].pc \in {"inserted", "blocked"}
                                /\ p # q
                                => tx[p].id # tx[q].id

\* What the INSERTs have established: keys of visible rows and of rows that wait
\* for their commit are pairwise different.
KeysDiffer ==
    /\ \A i, j \in committed : i # j /\ message[i] # NoMessageId => message[i] # message[j]
    /\ \A p \in Publishers : tx[p].pc = "inserted" /\ message[tx[p].id] # NoMessageId =>
                                 \A i \in committed : message[i] # message[tx[p].id]
    /\ \A p, q \in Publishers : /\ tx[p].pc = "inserted" /\ tx[q].pc = "inserted"
                                /\ p # q /\ message[tx[p].id] # NoMessageId
                                => message[tx[p].id] # message[tx[q].id]

PubInv == PubTypeOK /\ OwnsItsNumber /\ KeysDiffer

\* The initial state of a topic satisfies the invariant.
LEMMA PubInvInit == PubInit => PubInv
<1>1. SUFFICES ASSUME PubInit PROVE PubInv
  OBVIOUS
<1>2. PubTypeOK
  BY <1>1, PublisherAssumption DEF PubInit, PubTypeOK, Idle, Ids
<1>3. OwnsItsNumber /\ KeysDiffer
  BY <1>1 DEF PubInit, OwnsItsNumber, KeysDiffer, Idle
<1> QED BY <1>2, <1>3 DEF PubInv

\* Every step of a writer preserves the invariant.
LEMMA PubInvStep == PubInv /\ [PubNext]_pubVars => PubInv'
<1>1. SUFFICES ASSUME PubInv, [PubNext]_pubVars PROVE PubInv'
  OBVIOUS
<1> USE PublisherAssumption
<1>2. ASSUME NEW p \in Publishers, Begin(p) PROVE PubInv'
  BY <1>1, <1>2 DEF PubInv, PubTypeOK, OwnsItsNumber, KeysDiffer, Begin
<1>3. ASSUME NEW p \in Publishers, NEW m \in MessageIds \cup {NoMessageId}, Insert(p, m)
      PROVE PubInv'
  <2>1. PubTypeOK'
    <3>1. seq + 1 \in Ids /\ seq' \in 0 .. MaxId
      BY <1>1, <1>3 DEF PubInv, PubTypeOK, Insert, Ids
    <3>2. Outcome(m) \in {"duplicate", "blocked", "inserted"}
      BY DEF Outcome
    <3>3. tx' \in [Publishers ->
               [pc : {"idle", "open", "blocked", "inserted", "duplicate", "notify"},
                id : 0 .. MaxId, began : Nat]]
      BY <1>1, <1>3, <3>1, <3>2 DEF PubInv, PubTypeOK, Insert
    <3>4. message' \in [Ids -> MessageIds \cup {NoMessageId}] /\ emitted_at' \in [Ids -> Nat]
      BY <1>1, <1>3, <3>1 DEF PubInv, PubTypeOK, Insert
    <3> QED BY <1>1, <1>3, <3>1, <3>3, <3>4 DEF PubInv, PubTypeOK, Insert
  <2>2. seq + 1 \in Ids /\ message'[seq + 1] = m /\ tx'[p].id = seq + 1
    BY <1>1, <1>3 DEF PubInv, PubTypeOK, Insert, Ids
  <2>3. \A i \in 1 .. seq : message'[i] = message[i]
    BY <1>1, <1>3 DEF PubInv, PubTypeOK, Insert, Ids
  <2>4. \A q \in Publishers \ {p} : tx'[q] = tx[q]
    BY <1>1, <1>3 DEF PubInv, PubTypeOK, Insert
  <2>5. OwnsItsNumber'
    BY <1>1, <1>3, <2>2, <2>4 DEF PubInv, PubTypeOK, OwnsItsNumber, Insert
  <2>6. tx'[p].pc = Outcome(m) /\ committed' = committed
    BY <1>1, <1>3 DEF PubInv, PubTypeOK, Insert
  <2>7. KeysDiffer'
    BY <1>1, <2>2, <2>3, <2>4, <2>6
       DEF PubInv, PubTypeOK, OwnsItsNumber, KeysDiffer, Outcome, Taken, Held
  <2> QED BY <2>1, <2>5, <2>7 DEF PubInv
<1>4. ASSUME NEW p \in Publishers, Unblock(p) PROVE PubInv'
  <2>1. PubTypeOK' /\ OwnsItsNumber'
    BY <1>1, <1>4 DEF PubInv, PubTypeOK, OwnsItsNumber, Unblock, Outcome
  <2>2. \A q \in Publishers \ {p} : tx'[q] = tx[q]
    BY <1>1, <1>4 DEF PubInv, PubTypeOK, Unblock
  <2>3. /\ tx'[p].pc = Outcome(message[tx[p].id]) /\ tx'[p].id = tx[p].id
        /\ committed' = committed /\ message' = message
    BY <1>1, <1>4 DEF PubInv, PubTypeOK, Unblock
  <2>4. KeysDiffer'
    BY <1>1, <2>2, <2>3 DEF PubInv, KeysDiffer, Outcome, Taken, Held
  <2> QED BY <2>1, <2>4 DEF PubInv
<1>5. ASSUME NEW p \in Publishers, Commit(p) PROVE PubInv'
  <2>1. PubTypeOK'
    BY <1>1, <1>5 DEF PubInv, PubTypeOK, OwnsItsNumber, Commit
  <2>2. OwnsItsNumber'
    BY <1>1, <1>5 DEF PubInv, PubTypeOK, OwnsItsNumber, Commit
  <2>3. KeysDiffer'
    BY <1>1, <1>5 DEF PubInv, PubTypeOK, KeysDiffer, Commit
  <2> QED BY <2>1, <2>2, <2>3 DEF PubInv
<1>6. ASSUME NEW p \in Publishers, Rollback(p) PROVE PubInv'
  BY <1>1, <1>6 DEF PubInv, PubTypeOK, OwnsItsNumber, KeysDiffer, Rollback, Idle
<1>7. ASSUME NEW p \in Publishers, EndPublish(p) PROVE PubInv'
  BY <1>1, <1>7 DEF PubInv, PubTypeOK, OwnsItsNumber, KeysDiffer, EndPublish, Idle
<1>8. CASE Age
  BY <1>1, <1>8 DEF PubInv, PubTypeOK, OwnsItsNumber, KeysDiffer, Age
<1>9. CASE UNCHANGED pubVars
  BY <1>1, <1>9 DEF PubInv, PubTypeOK, OwnsItsNumber, KeysDiffer, pubVars
<1> QED BY <1>1, <1>2, <1>3, <1>4, <1>5, <1>6, <1>7, <1>8, <1>9 DEF PubNext, Write

\* However many processes publish, compete, wait, roll back and repeat, a message_id
\* is carried by at most one row that is visible or may still become visible.
THEOREM PublishedOnce == PubSpec => []OneRowPerMessageId
<1>1. PubInv => OneRowPerMessageId
  BY DEF PubInv, KeysDiffer, OneRowPerMessageId
<1> QED BY <1>1, PubInvInit, PubInvStep, PTL DEF PubSpec

-----------------------------------------------------------------------------
(* The reader. *)

\* The rows of a fetch that are still to be scanned lie above the position.
RowsAhead == rows \subseteq {i \in committed : i > last_seen}

\* What the tracker knows: received ids that are not settled lie above safe_id, and
\* above the cutoff it holds every id the reader went past.
TrackerExact ==
    /\ cutoff <= safe_id /\ safe_id <= last_seen
    /\ \A r \in recent : safe_id < r /\ r <= last_seen
    /\ gaps = {g \in skipped : g > cutoff}

\* The threshold of a scan is an earlier reading of the clock.
ThresholdInPast == threshold <= horizon

\* The head bounds the rows of the first poll; catching up means reaching it.
HeadReached ==
    /\ \A i \in backlog : i <= head
    /\ backlog \subseteq committed
    /\ caught_up => last_seen >= head

SubInv == /\ SubTypeOK /\ EveryIdAccountedFor /\ RowsAhead /\ TrackerExact
          /\ ThresholdInPast /\ HeadReached /\ GapsAreSettled /\ AlarmIsTrue

IInv == PubInv /\ SubInv

-----------------------------------------------------------------------------
\* What the reader's proofs need to know of the writers.
LEMMA WritersFacts ==
  ASSUME IInv
  PROVE  /\ committed \subseteq Ids /\ horizon \in Nat /\ emitted_at \in [Ids -> Nat]
         /\ committed \subseteq 0 .. seq /\ seq \in Nat /\ seq <= MaxId
BY PublisherAssumption DEF IInv, PubInv, PubTypeOK, Ids

\* Steps of the whole system are steps or stutters of the writers.
LEMMA WritersStep == [Next]_vars => [PubNext]_pubVars
<1>1. SUFFICES ASSUME [Next]_vars PROVE [PubNext]_pubVars
  OBVIOUS
<1>2. CASE Others
  BY <1>2 DEF Others, PubNext
<1>3. CASE Notify
  BY <1>3 DEF Notify, PubNext
<1>4. CASE Reader \/ HandOff \/ PollFails \/ Restart
  BY <1>4 DEF Reader, ReadHead, Fetch, AuditPasses, AuditAlarms, Deliver, EndScan, Listen,
              WakeUp, Timeout, HandOff, PollFails, Restart, pubVars
<1>5. CASE UNCHANGED vars
  BY <1>5 DEF vars
<1> QED BY <1>1, <1>2, <1>3, <1>4, <1>5 DEF Next

\* Visible rows stay, with the age they had, and time does not run backwards.
LEMMA RowsStay ==
  ASSUME PubInv, [PubNext]_pubVars
  PROVE  /\ committed \subseteq committed'
         /\ \A i \in committed : emitted_at'[i] = emitted_at[i]
         /\ horizon <= horizon'
<1> USE DEF PubInv, PubTypeOK
<1>1. ASSUME NEW p \in Publishers, NEW m \in MessageIds \cup {NoMessageId}, Insert(p, m)
      PROVE  \A i \in committed : emitted_at'[i] = emitted_at[i]
  BY <1>1, PublisherAssumption DEF Insert, Ids
<1>2. committed \subseteq committed'
  BY DEF PubNext, Write, Begin, Insert, Unblock, Commit, Rollback, EndPublish, Age, pubVars
<1>3. horizon <= horizon'
  <2>1. horizon \in Nat
    OBVIOUS
  <2>2. CASE Age
    BY <2>1, <2>2 DEF Age
  <2>3. CASE ~Age
    <3>1. horizon' = horizon
      BY <2>3 DEF PubNext, Write, Begin, Insert, Unblock, Commit, Rollback, EndPublish, pubVars
    <3> QED BY <2>1, <3>1
  <2> QED BY <2>2, <2>3
<1>4. \A i \in committed : emitted_at'[i] = emitted_at[i]
  BY <1>1 DEF PubNext, Write, Begin, Unblock, Commit, Rollback, EndPublish, Age, pubVars
<1> QED BY <1>2, <1>3, <1>4

\* A step that leaves the reader alone preserves what is known of it.
LEMMA ReaderUntouched ==
  ASSUME IInv, [PubNext]_pubVars, PubInv',
         UNCHANGED <<pc, mode, restarts, readVars, trackVars, listening, histVars>>,
         message_event' \in BOOLEAN
  PROVE  SubInv'
<1> USE DEF IInv, SubInv, PubInv, readVars, trackVars, histVars
<1>1. /\ committed \subseteq committed' /\ horizon <= horizon'
      /\ \A i \in committed : emitted_at'[i] = emitted_at[i]
  BY RowsStay
<1>2. SubTypeOK'
  BY DEF SubTypeOK, Ids
<1>3. EveryIdAccountedFor' /\ RowsAhead' /\ HeadReached' /\ TrackerExact'
  BY <1>1 DEF EveryIdAccountedFor, RowsAhead, HeadReached, TrackerExact
<1>4. ThresholdInPast'
  BY <1>1, <1>2 DEF ThresholdInPast, SubTypeOK, PubTypeOK
<1>5. GapsAreSettled'
  <2>1. \A d \in delivered : Old(d, horizon) => Old(d, horizon)'
    BY <1>1, <1>2 DEF Old, EveryIdAccountedFor, SubTypeOK, PubTypeOK
  <2> QED BY <2>1 DEF GapsAreSettled
<1>6. AlarmIsTrue'
  BY <1>1 DEF AlarmIsTrue
<1> QED BY <1>2, <1>3, <1>4, <1>5, <1>6

-----------------------------------------------------------------------------
\* count_received moves safe_id up to a received id and leaves the ids above it.
LEMMA SettledFacts ==
  ASSUME IInv
  PROVE  /\ SettledId \in Nat /\ safe_id <= SettledId /\ SettledId <= last_seen
         /\ Settled \subseteq recent
         /\ \A r \in recent \ Settled : SettledId < r
<1> USE DEF IInv, SubInv, TrackerExact, SubTypeOK, Ids
<1>1. Settled \subseteq recent
  BY DEF Settled
<1>2. CASE Settled = {}
  BY <1>2 DEF SettledId
<1>3. CASE Settled # {}
  <2>1. Settled \subseteq 0 .. last_seen
    BY <1>1
  <2>2. last_seen \in Nat
    OBVIOUS
  <2>3. \E m \in Settled : \A x \in Settled : x <= m
    BY <1>3, <2>1, <2>2, GreatestExists
  <2>4. SettledId \in Settled
    BY <1>3, <2>3 DEF SettledId, Highest
  <2>5. ASSUME NEW r \in recent \ Settled PROVE SettledId < r
    <3>1. PICK q \in recent : q <= r /\ ~Old(q, horizon)
      BY <2>5 DEF Settled
    <3>2. \A x \in recent : x <= SettledId => Old(x, horizon)
      BY <2>4 DEF Settled
    <3> QED BY <1>1, <2>4, <3>1, <3>2
  <2> QED BY <1>1, <2>1, <2>4, <2>5
<1> QED BY <1>1, <1>2, <1>3

\* The count of the audit differs from what it expects exactly when the window holds
\* a visible row that the reader went past.
LEMMA AuditIsExact ==
  ASSUME IInv, NEW hi \in Nat, cutoff < hi, hi <= last_seen
  PROVE  Present(cutoff + 1, hi) = Expected(cutoff + 1, hi)
           <=> committed \cap skipped \cap (cutoff + 1 .. hi) = {}
<1> DEFINE W == cutoff + 1 .. hi
           A == W \ gaps
           B == committed \cap W
<1>1. cutoff \in Nat /\ cutoff + 1 \in Int /\ hi \in Int
  BY DEF IInv, SubInv, SubTypeOK
<1>2. IsFiniteSet(W) /\ Cardinality(W) = hi - (cutoff + 1) + 1
  BY <1>1, FS_Interval
<1>3. gaps \cap W = skipped \cap W
  BY <1>1 DEF IInv, SubInv, TrackerExact
<1>4. A \subseteq B
  <2>1. W \subseteq 1 .. last_seen
    BY <1>1 DEF IInv, SubInv, SubTypeOK
  <2> QED BY <1>3, <2>1 DEF IInv, SubInv, EveryIdAccountedFor
<1>5. IsFiniteSet(A) /\ Cardinality(A) = Cardinality(W) - Cardinality(W \cap gaps)
  BY <1>2, FS_Difference
<1>6. IsFiniteSet(B)
  BY <1>2, FS_Intersection
<1>7. Cardinality(A) = Cardinality(B) <=> A = B
  BY <1>4, <1>6, FS_Subset
<1>8. A = B <=> committed \cap skipped \cap W = {}
  BY <1>3, <1>4
<1>9. gaps \cap W = W \cap gaps
  OBVIOUS
<1>10. Expected(cutoff + 1, hi) = Cardinality(A)
  <2>1. Expected(cutoff + 1, hi) = hi - (cutoff + 1) + 1 - Cardinality(gaps \cap W)
    BY DEF Expected
  <2>2. Cardinality(gaps \cap W) = Cardinality(W \cap gaps)
    BY <1>9
  <2>3. Cardinality(W \cap gaps) \in Nat
    BY <1>2, FS_Intersection, FS_CardinalityType
  <2> HIDE DEF W, A
  <2> QED BY <1>1, <1>2, <1>5, <2>1, <2>2, <2>3
<1>11. Present(cutoff + 1, hi) = Cardinality(B)
  BY DEF Present
<1> HIDE DEF W, A, B
<1>12. Present(cutoff + 1, hi) = Expected(cutoff + 1, hi) <=> committed \cap skipped \cap W = {}
  BY <1>7, <1>8, <1>10, <1>11
<1> QED BY <1>12 DEF W

-----------------------------------------------------------------------------
\* Each step of the reader preserves the invariant; the head bounds the first poll.
LEMMA ReadHeadKeepsInv == ASSUME IInv, ReadHead PROVE SubInv'
<1>a. /\ committed \subseteq Ids /\ horizon \in Nat /\ emitted_at \in [Ids -> Nat]
      /\ committed \subseteq 0 .. seq /\ seq \in Nat /\ seq <= MaxId
  BY WritersFacts
<1> USE DEF IInv, SubInv, ReadHead, pubVars, trackVars, noteVars
<1>1. /\ LastId \in 0 .. MaxId
      /\ \A i \in committed : i <= LastId
  <2>1. CASE committed = {}
    BY <2>1, PublisherAssumption DEF LastId
  <2>2. CASE committed # {}
    <3>1. committed \subseteq 0 .. seq /\ seq \in Nat
      BY <1>a DEF SubTypeOK
    <3>2. \E m \in committed : \A x \in committed : x <= m
      BY <2>2, <3>1, GreatestExists
    <3>3. LastId \in committed /\ \A i \in committed : i <= LastId
      BY <2>2, <3>2 DEF LastId, Highest
    <3> QED BY <1>a, <3>1, <3>3, PublisherAssumption DEF SubTypeOK
  <2> QED BY <2>1, <2>2
<1>2. SubTypeOK'
  <2>1. caught_up' \in BOOLEAN
    OBVIOUS
  <2> QED BY <1>1, <2>1, <1>a DEF SubTypeOK, Ids
<1>3. HeadReached'
  BY <1>1 DEF HeadReached
<1>4. EveryIdAccountedFor' /\ RowsAhead' /\ TrackerExact' /\ ThresholdInPast'
  BY DEF EveryIdAccountedFor, RowsAhead, TrackerExact, ThresholdInPast
<1>5. GapsAreSettled' /\ AlarmIsTrue'
  BY DEF GapsAreSettled, AlarmIsTrue, Old
<1> QED BY <1>2, <1>3, <1>4, <1>5

\* A fetch reads rows above the position only.
LEMMA FetchKeepsInv == ASSUME IInv, Fetch PROVE SubInv'
<1>a. /\ committed \subseteq Ids /\ horizon \in Nat /\ emitted_at \in [Ids -> Nat]
      /\ committed \subseteq 0 .. seq /\ seq \in Nat /\ seq <= MaxId
  BY WritersFacts
<1> USE DEF IInv, SubInv, Fetch, pubVars, trackVars, histVars
<1>1. SubTypeOK'
  BY <1>a DEF SubTypeOK, Ids
<1>2. EveryIdAccountedFor' /\ RowsAhead' /\ TrackerExact' /\ ThresholdInPast' /\ HeadReached'
  BY DEF EveryIdAccountedFor, RowsAhead, TrackerExact, ThresholdInPast, HeadReached
<1>3. GapsAreSettled' /\ AlarmIsTrue'
  BY DEF GapsAreSettled, AlarmIsTrue, Old
<1> QED BY <1>1, <1>2, <1>3

\* The cutoff moves up, stays at or below safe_id, and drops the gaps below it.
LEMMA CommitsFacts ==
  ASSUME NEW safe \in Nat, cutoff \in Nat, cutoff <= safe, Commits(safe)
  PROVE  /\ cutoff' \in Nat /\ cutoff <= cutoff' /\ cutoff' <= safe
         /\ gaps' = {g \in gaps : g > cutoff'}
<1>1. CASE gaps = {}
  BY <1>1 DEF Commits
<1>2. CASE gaps # {}
  <2> DEFINE back == MaxOf((safe - cutoff) \div 2, MIN_WINDOW)
  <2>1. back \in Nat
    BY SubscriberAssumption DEF MaxOf
  <2>2. cutoff' = MaxOf(cutoff, safe - back)
    BY <1>2 DEF Commits
  <2> HIDE DEF back
  <2>3. cutoff' \in Nat /\ cutoff <= cutoff' /\ cutoff' <= safe
    BY <2>1, <2>2 DEF MaxOf
  <2> QED BY <2>3 DEF Commits
<1> QED BY <1>1, <1>2

\* An audit that passes moves safe_id and the cutoff together.
LEMMA AuditPassesKeepsInv == ASSUME IInv, AuditPasses PROVE SubInv'
<1>1. /\ committed \subseteq Ids /\ horizon \in Nat
      /\ SettledId \in Nat /\ safe_id <= SettledId /\ SettledId <= last_seen
      /\ Settled \subseteq recent
      /\ \A r \in recent \ Settled : SettledId < r
  BY WritersFacts, SettledFacts
<1>2. /\ recent' = recent \ Settled /\ safe_id' = SettledId /\ Commits(SettledId)
      /\ threshold' = horizon /\ pc' = "scan"
      /\ UNCHANGED <<pubVars, mode, restarts, last_seen, rows, processed, head, caught_up,
                     noteVars, histVars>>
  BY DEF AuditPasses
<1> USE DEF IInv, SubInv, pubVars, noteVars, histVars
<1>3. cutoff \in Nat /\ cutoff <= SettledId
  BY <1>1 DEF SubTypeOK, TrackerExact
<1>4. /\ cutoff' \in Nat /\ cutoff <= cutoff' /\ cutoff' <= SettledId
      /\ gaps' = {g \in gaps : g > cutoff'}
  BY <1>1, <1>2, <1>3, CommitsFacts
<1>5. SettledId \in 0 .. MaxId /\ cutoff' \in 0 .. MaxId
  BY <1>1, <1>4, PublisherAssumption DEF SubTypeOK
<1>6. SubTypeOK'
  BY <1>1, <1>2, <1>4, <1>5 DEF SubTypeOK
<1>7. TrackerExact'
  <2>1. \A r \in recent' : safe_id' < r /\ r <= last_seen'
    BY <1>1, <1>2 DEF TrackerExact
  <2>2. \A g \in skipped : g > cutoff' => g > cutoff
    <3>1. skipped \subseteq Nat
      BY DEF SubTypeOK, Ids
    <3> QED BY <1>3, <1>4, <3>1
  <2>3. gaps' = {g \in skipped' : g > cutoff'}
    <3>1. gaps = {g \in skipped : g > cutoff} /\ skipped' = skipped
      BY <1>2 DEF TrackerExact
    <3>2. gaps' = {g \in gaps : g > cutoff'}
      BY <1>4
    <3> QED BY <2>2, <3>1, <3>2
  <2> QED BY <1>1, <1>2, <1>4, <2>1, <2>3 DEF TrackerExact
<1>8. EveryIdAccountedFor' /\ RowsAhead' /\ HeadReached'
  BY <1>2 DEF EveryIdAccountedFor, RowsAhead, HeadReached
<1>9. ThresholdInPast'
  BY <1>1, <1>2 DEF ThresholdInPast
<1>10. GapsAreSettled' /\ AlarmIsTrue'
  BY <1>2 DEF GapsAreSettled, AlarmIsTrue, Old
<1> QED BY <1>6, <1>7, <1>8, <1>9, <1>10

\* safe_id and "recent" move together, whether the count that follows succeeds or not.
LEMMA SettlingKeepsTypes ==
  ASSUME IInv, pc' \in {"fetch", "dead"}, message_event' \in BOOLEAN,
         rows' \in {rows, {}},
         \/ UNCHANGED <<recent, safe_id>>
         \/ recent' = recent \ Settled /\ safe_id' = SettledId,
         UNCHANGED <<mode, restarts, last_seen, threshold, processed, head, caught_up,
                     gaps, cutoff, listening, delivered, skipped, backlog>>
  PROVE  SubTypeOK' /\ TrackerExact'
<1>1. /\ SettledId \in Nat /\ safe_id <= SettledId /\ SettledId <= last_seen
      /\ Settled \subseteq recent
      /\ \A r \in recent \ Settled : SettledId < r
  BY SettledFacts
<1>2. SubTypeOK /\ TrackerExact
  BY DEF IInv, SubInv
<1>3. SettledId \in 0 .. MaxId
  BY <1>1, <1>2, PublisherAssumption DEF SubTypeOK
<1>4. safe_id' \in {safe_id, SettledId} /\ recent' \subseteq recent
  OBVIOUS
<1>5. SubTypeOK'
  BY <1>2, <1>3, <1>4 DEF SubTypeOK
<1>6. TrackerExact'
  BY <1>1, <1>2 DEF TrackerExact, SubTypeOK
<1> QED BY <1>5, <1>6

\* The audit raises the alarm only if a row in its window was lost.
LEMMA AuditAlarmsKeepsInv == ASSUME IInv, AuditAlarms PROVE SubInv'
<1>1. cutoff < SettledId /\ SettledId \in Nat /\ SettledId <= last_seen
  BY SettledFacts DEF AuditAlarms, NothingToCount, IInv, SubInv, SubTypeOK
<1>2. committed \cap skipped # {}
  BY <1>1, AuditIsExact DEF AuditAlarms
<1>3. SubTypeOK' /\ TrackerExact'
  <2>1. /\ message_event' \in BOOLEAN
        /\ UNCHANGED <<mode, restarts, last_seen, rows, threshold, processed, head, caught_up,
                       gaps, cutoff, listening, delivered, skipped, backlog>>
    BY DEF AuditAlarms, IInv, SubInv, SubTypeOK, readVars, noteVars, histVars
  <2> QED BY <2>1, SettlingKeepsTypes DEF AuditAlarms
<1> USE DEF IInv, SubInv, AuditAlarms, pubVars, readVars, noteVars, histVars
<1>4. EveryIdAccountedFor' /\ RowsAhead' /\ HeadReached' /\ ThresholdInPast'
  BY DEF EveryIdAccountedFor, RowsAhead, HeadReached, ThresholdInPast
<1>5. GapsAreSettled' /\ AlarmIsTrue'
  BY <1>2 DEF GapsAreSettled, AlarmIsTrue, Old
<1> QED BY <1>3, <1>4, <1>5

\* A poll that fails after count_received leaves the tracker exact.
LEMMA PollFailsKeepsInv == ASSUME IInv, PollFails PROVE SubInv'
<1>1. SubTypeOK' /\ TrackerExact'
  <2>1. UNCHANGED <<mode, restarts, last_seen, threshold, processed, head, caught_up,
                    gaps, cutoff, listening, delivered, skipped, backlog>>
    BY DEF PollFails, histVars
  <2>2. message_event' \in BOOLEAN /\ pc' \in {"fetch", "dead"} /\ rows' \in {rows, {}}
    BY DEF PollFails
  <2>3. \/ UNCHANGED <<recent, safe_id>>
        \/ recent' = recent \ Settled /\ safe_id' = SettledId
    BY DEF PollFails
  <2> QED BY <2>1, <2>2, <2>3, SettlingKeepsTypes
<1> USE DEF IInv, SubInv, PollFails, pubVars, histVars
<1>2. EveryIdAccountedFor' /\ RowsAhead' /\ HeadReached' /\ ThresholdInPast'
  BY DEF EveryIdAccountedFor, RowsAhead, HeadReached, ThresholdInPast
<1>3. GapsAreSettled' /\ AlarmIsTrue'
  BY DEF GapsAreSettled, AlarmIsTrue, Old
<1> QED BY <1>1, <1>2, <1>3

\* The row that is delivered is the lowest of the scan, and accepting the gap below it
\* accounts for every id in between.
LEMMA DeliverKeepsInv == ASSUME IInv, Deliver PROVE SubInv'
<1>a. /\ committed \subseteq Ids /\ horizon \in Nat /\ emitted_at \in [Ids -> Nat]
      /\ committed \subseteq 0 .. seq /\ seq \in Nat /\ seq <= MaxId
  BY WritersFacts
<1> DEFINE r == NextRow
           gap == (last_seen + 1) .. (r - 1)
<1> USE DEF IInv, SubInv, pubVars, noteVars
<1>1. r \in rows /\ \A x \in rows : r <= x
  <2>1. rows \subseteq Nat /\ rows # {}
    BY DEF Deliver, SubTypeOK, Ids
  <2> QED BY <2>1, LeastExists DEF NextRow
<1>2. /\ gaps' = gaps \cup gap /\ skipped' = skipped \cup gap
      /\ delivered' = delivered \cup {r} /\ recent' = recent \cup {r}
      /\ last_seen' = r /\ rows' = rows \ {r} /\ ~Waits(r) /\ pc = "scan"
      /\ caught_up' = (caught_up \/ (mode = "drain" /\ r >= head))
      /\ processed' = TRUE
      /\ UNCHANGED <<pubVars, pc, mode, restarts, threshold, head, safe_id, cutoff,
                     noteVars, backlog>>
  BY DEF Deliver
<1>3. r \in committed /\ r > last_seen /\ r \in Ids /\ last_seen \in Nat
  BY <1>1 DEF RowsAhead, SubTypeOK, Ids
<1> HIDE DEF r
<1>4. gap \subseteq Ids /\ gap \cap delivered = {}
  BY <1>3, PublisherAssumption DEF EveryIdAccountedFor, Ids
<1>5. SubTypeOK'
  BY <1>a, <1>2, <1>3, <1>4 DEF SubTypeOK, Ids
<1>6. EveryIdAccountedFor'
  BY <1>2, <1>3, <1>4 DEF EveryIdAccountedFor, Ids
<1>7. RowsAhead'
  <2>1. ASSUME NEW i \in rows \ {r} PROVE i \in committed /\ i > r
    BY <1>1, <1>3, <2>1 DEF RowsAhead, SubTypeOK, Ids
  <2> QED BY <1>2, <2>1 DEF RowsAhead
<1>8. TrackerExact'
  BY <1>2, <1>3 DEF TrackerExact, SubTypeOK, Ids
<1>9. ThresholdInPast' /\ HeadReached'
  BY <1>2, <1>3 DEF ThresholdInPast, HeadReached, SubTypeOK, Ids
<1>10. GapsAreSettled'
  <2>1. gap # {} => Old(r, horizon)
    BY <1>a, <1>2, <1>3 DEF Waits, Old, ThresholdInPast, SubTypeOK
  <2>2. \A g \in gap : g < r
    BY <1>3 DEF Ids
  <2> QED BY <1>2, <2>1, <2>2 DEF GapsAreSettled, Old
<1>11. AlarmIsTrue'
  BY <1>2 DEF AlarmIsTrue
<1> QED BY <1>5, <1>6, <1>7, <1>8, <1>9, <1>10, <1>11

\* Ending a scan and waiting change nothing the invariant speaks of.
LEMMA WaitingKeepsInv ==
  ASSUME IInv, EndScan \/ Listen \/ WakeUp \/ Timeout
  PROVE  SubInv'
<1>a. /\ committed \subseteq Ids /\ horizon \in Nat /\ emitted_at \in [Ids -> Nat]
      /\ committed \subseteq 0 .. seq /\ seq \in Nat /\ seq <= MaxId
  BY WritersFacts
<1> USE DEF IInv, SubInv, EndScan, Listen, WakeUp, Timeout,
            pubVars, readVars, trackVars, noteVars, histVars
<1>1. SubTypeOK'
  BY <1>a DEF SubTypeOK, Ids
<1>2. EveryIdAccountedFor' /\ RowsAhead' /\ TrackerExact' /\ ThresholdInPast' /\ HeadReached'
  BY DEF EveryIdAccountedFor, RowsAhead, TrackerExact, ThresholdInPast, HeadReached
<1>3. GapsAreSettled' /\ AlarmIsTrue'
  BY DEF GapsAreSettled, AlarmIsTrue, Old
<1> QED BY <1>1, <1>2, <1>3

\* A new subscription starts with a tracker that holds nothing above its start.
LEMMA HandOffKeepsInv == ASSUME IInv, HandOff PROVE SubInv'
<1>a. /\ committed \subseteq Ids /\ horizon \in Nat /\ emitted_at \in [Ids -> Nat]
      /\ committed \subseteq 0 .. seq /\ seq \in Nat /\ seq <= MaxId
  BY WritersFacts
<1> USE DEF IInv, SubInv, HandOff, Fresh, pubVars, histVars
<1>1. SubTypeOK'
  BY <1>a DEF SubTypeOK, Ids
<1>2. EveryIdAccountedFor' /\ RowsAhead' /\ ThresholdInPast' /\ HeadReached'
  BY <1>a DEF EveryIdAccountedFor, RowsAhead, ThresholdInPast, HeadReached, SubTypeOK
<1>3. TrackerExact'
  BY DEF TrackerExact, EveryIdAccountedFor, SubTypeOK
<1>4. GapsAreSettled' /\ AlarmIsTrue'
  BY DEF GapsAreSettled, AlarmIsTrue, Old
<1> QED BY <1>1, <1>2, <1>3, <1>4

\* After a restart the reader knows nothing and has skipped nothing.
LEMMA RestartKeepsInv == ASSUME IInv, Restart PROVE SubInv'
<1>a. /\ committed \subseteq Ids /\ horizon \in Nat /\ emitted_at \in [Ids -> Nat]
      /\ committed \subseteq 0 .. seq /\ seq \in Nat /\ seq <= MaxId
  BY WritersFacts
<1> USE DEF IInv, SubInv, Restart, Fresh, pubVars
<1>1. SubTypeOK'
  <2>1. restarts' \in Nat /\ 0 \in 0 .. MaxId
    BY PublisherAssumption DEF SubTypeOK
  <2> QED BY <2>1 DEF SubTypeOK
<1>2. EveryIdAccountedFor' /\ RowsAhead' /\ ThresholdInPast' /\ HeadReached' /\ TrackerExact'
  BY <1>a DEF EveryIdAccountedFor, RowsAhead, ThresholdInPast, HeadReached, TrackerExact,
         SubTypeOK
<1>3. GapsAreSettled' /\ AlarmIsTrue'
  BY DEF GapsAreSettled, AlarmIsTrue
<1> QED BY <1>1, <1>2, <1>3

-----------------------------------------------------------------------------
\* The invariant holds initially.
LEMMA IInvInit == Init => IInv
<1>1. SUFFICES ASSUME Init PROVE IInv
  OBVIOUS
<1>2. PubInv
  BY <1>1, PubInvInit DEF Init
<1>3. SubTypeOK
  <2>1. 0 \in 0 .. MaxId
    BY PublisherAssumption
  <2> QED BY <1>1, <2>1 DEF Init, SubInit, SubTypeOK
<1>4. EveryIdAccountedFor /\ RowsAhead /\ TrackerExact /\ HeadReached
  BY <1>1 DEF Init, SubInit, EveryIdAccountedFor, RowsAhead, TrackerExact, HeadReached
<1>5. ThresholdInPast /\ GapsAreSettled /\ AlarmIsTrue
  BY <1>1 DEF Init, SubInit, PubInit, ThresholdInPast, GapsAreSettled, AlarmIsTrue
<1> QED BY <1>2, <1>3, <1>4, <1>5 DEF IInv, SubInv

\* The invariant is preserved by every step of the system.
LEMMA IInvStep == IInv /\ [Next]_vars => IInv'
<1>1. SUFFICES ASSUME IInv, [Next]_vars PROVE IInv'
  OBVIOUS
<1>2. [PubNext]_pubVars /\ PubInv'
  BY <1>1, WritersStep, PubInvStep DEF IInv
<1>3. ASSUME Others \/ Notify \/ UNCHANGED vars PROVE SubInv'
  <2>1. UNCHANGED <<pc, mode, restarts, readVars, trackVars, listening, histVars>>
    BY <1>3 DEF Others, Notify, vars, subVars, noteVars
  <2>2. message_event' \in BOOLEAN
    BY <1>1, <1>3 DEF Others, Notify, vars, subVars, noteVars, IInv, SubInv, SubTypeOK
  <2> QED BY <1>1, <1>2, <2>1, <2>2, ReaderUntouched
<1>4. ASSUME Reader PROVE SubInv'
  BY <1>1, <1>4, ReadHeadKeepsInv, FetchKeepsInv, AuditPassesKeepsInv, AuditAlarmsKeepsInv,
     DeliverKeepsInv, WaitingKeepsInv DEF Reader
<1>5. ASSUME HandOff \/ PollFails \/ Restart PROVE SubInv'
  BY <1>1, <1>5, HandOffKeepsInv, PollFailsKeepsInv, RestartKeepsInv
<1> QED BY <1>1, <1>2, <1>3, <1>4, <1>5 DEF IInv, Next

\* The variables keep their types.
THEOREM TypeCorrect == Spec => []TypeOK
<1>1. IInv => TypeOK
  BY DEF IInv, PubInv, SubInv, TypeOK
<1> QED BY <1>1, IInvInit, IInvStep, PTL DEF Spec

\* Up to its position the reader has delivered or knowingly skipped every id.
THEOREM NothingPassedUnnoticed == Spec => []EveryIdAccountedFor
<1>1. IInv => EveryIdAccountedFor
  BY DEF IInv, SubInv
<1> QED BY <1>1, IInvInit, IInvStep, PTL DEF Spec

\* No gap is given up before the row above it is older than gap_timeout.
THEOREM OnlySettledGapsSkipped == Spec => []GapsAreSettled
<1>1. IInv => GapsAreSettled
  BY DEF IInv, SubInv
<1> QED BY <1>1, IInvInit, IInvStep, PTL DEF Spec

\* The audit never stops the process of a topic in which nothing was lost.
THEOREM NoFalseAlarm == Spec => []AlarmIsTrue
<1>1. IInv => AlarmIsTrue
  BY DEF IInv, SubInv
<1> QED BY <1>1, IInvInit, IInvStep, PTL DEF Spec

\* Catching up covers every row of the first poll.
THEOREM CatchUpIsComplete == Spec => []CaughtUpAtHead
<1>1. ASSUME IInv PROVE CaughtUpAtHead
  <2>1. ASSUME caught_up, NEW i \in backlog PROVE i \in delivered \cup skipped
    <3>1. i \in Nat /\ 1 <= i /\ i <= head /\ head <= last_seen
      BY <1>1, <2>1, WritersFacts DEF IInv, SubInv, HeadReached, Ids
    <3>2. last_seen \in Nat /\ head \in Nat
      BY <1>1 DEF IInv, SubInv, SubTypeOK
    <3> QED BY <1>1, <3>1, <3>2 DEF IInv, SubInv, EveryIdAccountedFor
  <2> QED BY <2>1 DEF CaughtUpAtHead
<1> QED BY <1>1, IInvInit, IInvStep, PTL DEF Spec

\* An audit that passes vouches for every id of its window, whatever the number of
\* gaps, of rows committed meanwhile and of polls that failed before it.
THEOREM AuditMissesNothing == Spec => PassedWindowIsClean
<1>1. ASSUME IInv, [Next]_vars
      PROVE  pc = "audit" /\ pc' = "scan" =>
                committed \cap skipped \cap (cutoff + 1 .. safe_id') = {}
  <2>1. SUFFICES ASSUME pc = "audit", pc' = "scan"
                 PROVE  committed \cap skipped \cap (cutoff + 1 .. safe_id') = {}
    OBVIOUS
  <2>2. AuditPasses
    BY <1>1, <2>1 DEF Next, Others, Notify, Reader, ReadHead, Fetch, AuditAlarms, Deliver,
       EndScan, Listen, WakeUp, Timeout, HandOff, PollFails, Restart, vars, subVars
  <2>3. /\ safe_id' = SettledId
        /\ ~NothingToCount => Present(cutoff + 1, SettledId) = Expected(cutoff + 1, SettledId)
    BY <2>2 DEF AuditPasses
  <2>4. SettledId \in Nat /\ SettledId <= last_seen /\ cutoff \in Nat
    BY <1>1, SettledFacts DEF IInv, SubInv, SubTypeOK
  <2>5. CASE gaps = {}
    BY <1>1, <2>3, <2>4, <2>5 DEF IInv, SubInv, TrackerExact
  <2>6. CASE SettledId <= cutoff
    BY <2>3, <2>4, <2>6
  <2>7. CASE ~NothingToCount
    <3>1. cutoff < SettledId
      BY <2>4, <2>7 DEF NothingToCount
    <3> QED BY <1>1, <2>3, <2>4, <2>7, <3>1, AuditIsExact
  <2> QED BY <2>5, <2>6, <2>7 DEF NothingToCount
<1> QED BY <1>1, IInvInit, IInvStep, PTL DEF Spec, PassedWindowIsClean

\* The client of the reader sees the abstract feed: initial states map to initial
\* states, and every step to a step of the feed or to none.
THEOREM TopicImplementsFeed == Spec => ImplementsFeed
<1> USE DEF FeedOfTopic!feedVars
<1>1. Init => FeedOfTopic!FeedInit
  BY DEF Init, PubInit, SubInit, FeedOfTopic!FeedInit
<1>2. ASSUME IInv, [Next]_vars PROVE [FeedOfTopic!FeedNext]_FeedOfTopic!feedVars
  <2> USE DEF FeedOfTopic!FeedNext
  <2>1. CASE Others
    <3>1. ASSUME NEW p \in Publishers, Commit(p), committed' # committed
          PROVE  FeedOfTopic!Append
      <4>1. tx[p].pc = "inserted" /\ committed' = committed \cup {tx[p].id}
        BY <3>1 DEF Commit
      <4>2. tx[p].id \in Ids \ committed
        BY <1>2, <4>1 DEF IInv, PubInv, OwnsItsNumber, PubTypeOK, Ids
      <4>3. UNCHANGED <<rows, last_seen, delivered>>
        BY <2>1 DEF Others, subVars, readVars, histVars
      <4> QED BY <4>1, <4>2, <4>3 DEF FeedOfTopic!Append
    <3>2. CASE committed' = committed
      BY <2>1, <3>2 DEF Others, subVars, readVars, histVars
    <3>3. CASE committed' # committed
      BY <2>1, <3>1, <3>3 DEF Others, Write, Age, Begin, Insert, Unblock, Rollback
    <3> QED BY <3>2, <3>3
  <2>2. CASE Notify
    BY <2>2 DEF Notify, EndPublish, readVars, histVars
  <2>3. CASE Fetch
    BY <2>3 DEF Fetch, pubVars, histVars, FeedOfTopic!Look
  <2>4. CASE Deliver
    <3>1. NextRow \in rows /\ \A x \in rows : NextRow <= x
      <4>1. rows \subseteq Nat /\ rows # {}
        BY <1>2, <2>4 DEF Deliver, IInv, SubInv, SubTypeOK, Ids
      <4> QED BY <4>1, LeastExists DEF NextRow
    <3> QED BY <2>4, <3>1 DEF Deliver, pubVars, FeedOfTopic!Give
  <2>5. CASE HandOff \/ PollFails
    BY <2>5 DEF HandOff, PollFails, Fresh, pubVars, histVars, FeedOfTopic!Drop
  <2>6. CASE Restart
    BY <2>6 DEF Restart, Fresh, pubVars, FeedOfTopic!StartAgain
  <2>7. CASE ReadHead \/ AuditPasses \/ AuditAlarms
    BY <2>7 DEF ReadHead, AuditPasses, AuditAlarms, pubVars, readVars, histVars
  <2>8. CASE EndScan \/ Listen \/ WakeUp \/ Timeout
    BY <2>8 DEF EndScan, Listen, WakeUp, Timeout, pubVars, readVars, histVars
  <2>9. CASE UNCHANGED vars
    BY <2>9 DEF vars, pubVars, subVars, readVars, histVars
  <2> QED BY <1>2, <2>1, <2>2, <2>3, <2>4, <2>5, <2>6, <2>7, <2>8, <2>9 DEF Next, Reader
<1> QED BY <1>1, <1>2, IInvInit, IInvStep, PTL
        DEF Spec, ImplementsFeed, FeedOfTopic!FeedSpec
=============================================================================
