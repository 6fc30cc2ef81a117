------------------------------ MODULE Subscriber ------------------------------
(***************************************************************************)
(* One reader of a topic: the generator read_messages with its GapTracker, *)
(* its audit and its catch-up cursor, driven the way build_projection      *)
(* drives it: a first subscription ("drain") that replays the topic until  *)
(* it has caught up, then a second one ("live") that goes on from there    *)
(* with a tracker of its own. A restart of the process replays everything. *)
(*                                                                         *)
(* Every statement the reader sends to the database is a step: rows can    *)
(* become visible between the fetch, the count and the scan.               *)
(***************************************************************************)
EXTENDS Publisher, Integers, FiniteSets

CONSTANTS MIN_WINDOW,  \* ids behind safe_id that stay under audit
          MaxRestarts  \* bound: restarts of the reading process

ASSUME SubscriberAssumption == MIN_WINDOW \in Nat /\ MaxRestarts \in Nat

VARIABLES
    pc,         \* open, fetch, audit, scan, listen, wait; dead after os._exit(1)
    mode,       \* "drain" in rebuild, "live" in handle_events
    restarts,
    \* the generator
    last_seen, rows, threshold, processed, head, caught_up,
    \* the GapTracker
    recent,     \* received ids not yet known to be older than gap_timeout
    gaps,       \* ids of the accepted gaps that are still under audit
    safe_id, cutoff,
    \* notifications
    listening, message_event,
    \* history, since the start of the process
    delivered,  \* ids handed to the handler
    skipped,    \* ids the reader went past
    backlog     \* rows visible at the first poll

trackVars == <<recent, gaps, safe_id, cutoff>>
noteVars  == <<listening, message_event>>
histVars  == <<delivered, skipped, backlog>>
readVars  == <<last_seen, rows, threshold, processed, head, caught_up>>
subVars   == <<pc, mode, restarts, readVars, trackVars, noteVars, histVars>>
vars      == <<pubVars, subVars>>

Highest(S) == CHOOSE m \in S : \A x \in S : x <= m
MaxOf(a, b) == IF a >= b THEN a ELSE b

\* emitted_at < now - gap_timeout, with "now" read when the horizon was h
Old(i, h) == emitted_at[i] <= h

\* A generator that has not polled yet, and the GapTracker of its first poll.
Fresh(start) ==
    /\ last_seen' = start /\ rows' = {} /\ threshold' = 0 /\ processed' = FALSE
    /\ recent' = {} /\ gaps' = {} /\ safe_id' = start /\ cutoff' = start
    /\ listening' = FALSE /\ message_event' = FALSE

SubInit ==
    /\ pc = "open" /\ mode = "drain" /\ restarts = 0
    /\ last_seen = 0 /\ rows = {} /\ threshold = 0 /\ processed = FALSE
    /\ head = 0 /\ caught_up = FALSE
    /\ recent = {} /\ gaps = {} /\ safe_id = 0 /\ cutoff = 0
    /\ listening = FALSE /\ message_event = FALSE
    /\ delivered = {} /\ skipped = {} /\ backlog = {}

Init == PubInit /\ SubInit
-----------------------------------------------------------------------------
\* Mutant: SELECT count(*) in place of SELECT max(id).
MLastId == Cardinality(committed)

\* _max_id
LastId == IF committed = {} THEN 0 ELSE Highest(committed)

\* _poll, first time with caught_up: SELECT max(id), then CatchUpCursor.
ReadHead ==
    /\ pc = "open"
    /\ head' = LastId
    /\ backlog' = committed
    /\ caught_up' = (last_seen >= head')
    /\ pc' = "fetch"
    /\ UNCHANGED <<pubVars, mode, restarts, last_seen, rows, threshold, processed,
                   trackVars, noteVars, delivered, skipped>>

\* The top of the loop and _fetch_new.
Fetch ==
    /\ pc = "fetch"
    /\ message_event' = FALSE
    /\ processed' = FALSE
    /\ rows' = {i \in committed : i > last_seen}
    /\ pc' = "audit"
    /\ UNCHANGED <<pubVars, mode, restarts, last_seen, threshold, head, caught_up,
                   trackVars, listening, histVars>>

\* GapTracker.count_received: leave "recent" from the left while it is old.
Settled == {r \in recent : \A q \in recent : q <= r => Old(q, horizon)}
SettledId == IF Settled = {} THEN safe_id ELSE Highest(Settled)
\* Mutant: a window of at most MIN_WINDOW ids is not worth a count.
MNothingToCount == gaps = {} \/ SettledId <= cutoff + MIN_WINDOW

NothingToCount == gaps = {} \/ SettledId <= cutoff

\* Mutant: gaps are not clipped to the window.
MExpected(lo, hi) == hi - lo + 1 - Cardinality(gaps)

\* _expected
Expected(lo, hi) == hi - lo + 1 - Cardinality(gaps \cap (lo .. hi))
Present(lo, hi) == Cardinality(committed \cap (lo .. hi))

\* GapTracker.commit
Commits(safe) ==
    /\ cutoff' = IF gaps = {} THEN safe
                 ELSE MaxOf(cutoff, safe - MaxOf((safe - cutoff) \div 2, MIN_WINDOW))
    /\ gaps' = {g \in gaps : g > cutoff'}

\* _audit finds what it expects; the scan then reads its threshold.
AuditPasses ==
    /\ pc = "audit"
    /\ ~NothingToCount => Present(cutoff + 1, SettledId) = Expected(cutoff + 1, SettledId)
    /\ recent' = recent \ Settled
    /\ safe_id' = SettledId
    /\ Commits(SettledId)
    /\ threshold' = horizon
    /\ pc' = "scan"
    /\ UNCHANGED <<pubVars, mode, restarts, last_seen, rows, processed, head, caught_up,
                   noteVars, histVars>>

\* _fatal_corruption: os._exit(1)
AuditAlarms ==
    /\ pc = "audit"
    /\ ~NothingToCount
    /\ Present(cutoff + 1, SettledId) # Expected(cutoff + 1, SettledId)
    /\ recent' = recent \ Settled
    /\ safe_id' = SettledId
    /\ pc' = "dead"
    /\ UNCHANGED <<pubVars, mode, restarts, readVars, gaps, cutoff, noteVars, histVars>>

\* The connection is lost in the fetch, or in the count after count_received
\* has moved safe_id: sleep and poll again.
PollFails ==
    /\ pc \in {"fetch", "audit"}
    /\ pc' = "fetch"
    /\ message_event' = FALSE
    /\ rows' = {}
    /\ \/ UNCHANGED <<recent, safe_id>>
       \/ /\ pc = "audit" /\ ~NothingToCount
          /\ recent' = recent \ Settled /\ safe_id' = SettledId
    /\ UNCHANGED <<pubVars, mode, restarts, last_seen, threshold, processed, head, caught_up,
                   gaps, cutoff, listening, histVars>>

\* Mutant: no ORDER BY id, here the highest row comes first.
MNextRow == CHOOSE r \in rows : \A s \in rows : r >= s

\* ORDER BY id
NextRow == CHOOSE r \in rows : \A s \in rows : r <= s

\* Mutant: a gap is accepted without waiting for gap_timeout.
MWaits(r) == FALSE

\* A gap below a young row: its writer may still commit.
Waits(r) == r # last_seen + 1 /\ ~Old(r, threshold)

\* One turn of "for row in rows": accept the gap below an old row, yield it.
Deliver ==
    LET r == NextRow
        gap == (last_seen + 1) .. (r - 1)
    IN /\ pc = "scan" /\ rows # {} /\ ~Waits(r)
       /\ gaps' = gaps \cup gap
       /\ skipped' = skipped \cup gap
       /\ delivered' = delivered \cup {r}
       /\ recent' = recent \cup {r}
       /\ last_seen' = r
       /\ caught_up' = (caught_up \/ (mode = "drain" /\ r >= head))
       /\ rows' = rows \ {r}
       /\ processed' = TRUE
       /\ UNCHANGED <<pubVars, pc, mode, restarts, threshold, head, safe_id, cutoff,
                      noteVars, backlog>>

\* No row is left, or the next one has a young gap below it.
EndScan ==
    /\ pc = "scan"
    /\ rows # {} => Waits(NextRow)
    /\ pc' = IF processed THEN "fetch" ELSE "listen"
    /\ UNCHANGED <<pubVars, mode, restarts, readVars, trackVars, noteVars, histVars>>

\* notifications.listen
Listen ==
    /\ pc = "listen"
    /\ listening' = TRUE
    /\ pc' = "wait"
    /\ UNCHANGED <<pubVars, mode, restarts, readVars, trackVars, message_event, histVars>>

\* asyncio.wait_for: a notification, or the timeout.
WakeUp == /\ pc = "wait" /\ message_event
          /\ pc' = "fetch"
          /\ UNCHANGED <<pubVars, mode, restarts, readVars, trackVars, noteVars, histVars>>

\* Mutant: the reader relies on notifications alone.
MTimeout == FALSE /\ UNCHANGED vars

Timeout == /\ pc = "wait" /\ ~message_event
           /\ pc' = "fetch"
           /\ UNCHANGED <<pubVars, mode, restarts, readVars, trackVars, noteVars, histVars>>

\* Mutant: handle_events starts at the head the drain was started with.
MHandOff ==
    /\ mode = "drain" /\ caught_up /\ pc # "dead"
    /\ mode' = "live" /\ pc' = "fetch"
    /\ Fresh(head)
    /\ UNCHANGED <<pubVars, restarts, head, caught_up, histVars>>

\* rebuild cancels the drain at some later await; handle_events subscribes again.
HandOff ==
    /\ mode = "drain" /\ caught_up /\ pc # "dead"
    /\ mode' = "live" /\ pc' = "fetch"
    /\ Fresh(last_seen)
    /\ UNCHANGED <<pubVars, restarts, head, caught_up, histVars>>

\* The process ends, for any reason, and starts again: replay from the first row.
Restart ==
    /\ restarts < MaxRestarts
    /\ restarts' = restarts + 1
    /\ pc' = "open" /\ mode' = "drain"
    /\ Fresh(0)
    /\ head' = 0 /\ caught_up' = FALSE
    /\ delivered' = {} /\ skipped' = {} /\ backlog' = {}
    /\ UNCHANGED pubVars

\* A NOTIFY reaches the reader, if it listens; or is never sent.
Notify ==
    /\ \E p \in Publishers : EndPublish(p)
    /\ message_event' \in {message_event, message_event \/ listening}
    /\ UNCHANGED <<pc, mode, restarts, readVars, trackVars, listening, histVars>>

Others == (Write \/ Age) /\ UNCHANGED subVars
Reader == \/ ReadHead \/ Fetch \/ AuditPasses \/ AuditAlarms \/ Deliver \/ EndScan
          \/ Listen \/ WakeUp \/ Timeout

Next == Others \/ Notify \/ Reader \/ HandOff \/ PollFails \/ Restart

Spec == Init /\ [][Next]_vars

\* The event loop goes on, the database comes back and time passes. No fairness for
\* the writers: a transaction may stay open for ever. HandOff needs its own fairness,
\* the drain can go on polling while it is being cancelled.
FairSpec == Spec /\ WF_vars(Reader) /\ WF_vars(HandOff)
                 /\ WF_vars(Age /\ UNCHANGED subVars)
                 /\ SF_vars(AuditPasses \/ AuditAlarms)
-----------------------------------------------------------------------------
SubTypeOK ==
    /\ pc \in {"open", "fetch", "audit", "scan", "listen", "wait", "dead"}
    /\ mode \in {"drain", "live"}
    /\ restarts \in Nat
    /\ last_seen \in 0 .. MaxId /\ head \in 0 .. MaxId
    /\ rows \subseteq Ids /\ threshold \in Nat
    /\ processed \in BOOLEAN /\ caught_up \in BOOLEAN
    /\ recent \subseteq Ids /\ gaps \subseteq Ids
    /\ safe_id \in 0 .. MaxId /\ cutoff \in 0 .. MaxId
    /\ listening \in BOOLEAN /\ message_event \in BOOLEAN
    /\ delivered \subseteq Ids /\ skipped \subseteq Ids /\ backlog \subseteq Ids

TypeOK == PubTypeOK /\ SubTypeOK

\* Up to its position the reader has accounted for every id, exactly once: it
\* delivered the row or went past it as part of an accepted gap, whatever was
\* fetched stale, failed half way or was handed over between subscriptions.
EveryIdAccountedFor ==
    /\ delivered \cup skipped = 1 .. last_seen
    /\ delivered \cap skipped = {}
    /\ delivered \subseteq committed

\* A gap is given up only after the row above it is older than gap_timeout: a
\* writer has at least that long to commit below a row the reader has seen.
GapsAreSettled == \A g \in skipped : \E d \in delivered : d > g /\ Old(d, horizon)

\* The audit ends the process only for a real loss: some row that the reader
\* went past has become visible. Burned ids never raise the alarm.
AlarmIsTrue == pc = "dead" => committed \cap skipped # {}

\* An audit that passes vouches for its window: at that moment no id in it that the
\* reader went past has become a visible row, however many gaps overlap its ends.
PassedWindowIsClean ==
    [][ pc = "audit" /\ pc' = "scan" =>
        committed \cap skipped \cap (cutoff + 1 .. safe_id') = {} ]_vars

\* caught_up, on which rebuild_finished and the hand-off wait, is set only when
\* every row visible at the first poll is delivered, or was skipped as a gap.
CaughtUpAtHead ==
    caught_up => backlog \subseteq delivered \cup skipped

\* No stall: every visible row is delivered or skipped in the end, or the audit
\* stops the process, although transactions stay open or roll back for ever,
\* notifications get lost and polls fail.
EveryRowIsHandled ==
    \A i \in Ids : i \in committed ~> (i \in delivered \cup skipped \/ pc = "dead")

\* The tracker, the audit, the notifications and the hand-off are invisible to the
\* reader's client: it is served by the abstract feed.
FeedOfTopic == INSTANCE Feed WITH RowIds <- Ids, visible <- committed, todo <- rows,
                                  position <- last_seen, given <- delivered
ImplementsFeed == FeedOfTopic!FeedSpec
=============================================================================
