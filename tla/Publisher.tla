------------------------------ MODULE Publisher ------------------------------
(***************************************************************************)
(* One topic of the message bus, seen by its writers: a PostgreSQL table   *)
(* whose rows are numbered by a BIGSERIAL, written by publishers that each *)
(* run one INSERT in one transaction.                                      *)
(*                                                                         *)
(* What matters to the readers is kept: a number is drawn when the INSERT  *)
(* runs and becomes visible when the transaction commits, so rows appear   *)
(* out of order; a rollback and a duplicate message_id burn their number;  *)
(* emitted_at is the start of the transaction, which may be long ago when  *)
(* the row appears; NOTIFY follows the commit and may never be sent.       *)
(*                                                                         *)
(* Time is abstracted to order: the k-th transaction to start carries      *)
(* emitted_at = k, and "horizon" is the number of transactions that        *)
(* started more than gap_timeout ago.                                      *)
(***************************************************************************)
EXTENDS Naturals

CONSTANTS Publishers,   \* processes that publish to the topic
          MessageIds,   \* deduplication keys
          NoMessageId,  \* message_id = None: never a duplicate
          MaxId,        \* bound: numbers the sequence hands out
          MaxBegun      \* bound: transactions that are started

ASSUME PublisherAssumption == /\ MaxId \in Nat
                              /\ MaxBegun \in Nat
                              /\ NoMessageId \notin MessageIds

VARIABLES tx,         \* per publisher: its transaction
          begun,      \* transactions started so far
          horizon,    \* ... of which this many are older than gap_timeout
          seq,        \* last number the sequence handed out
          committed,  \* ids of the visible rows
          message,    \* id -> message_id the row was inserted with
          emitted_at  \* id -> start of the inserting transaction

pubVars == <<tx, begun, horizon, seq, committed, message, emitted_at>>

Ids == 1 .. MaxId
Idle == [pc |-> "idle", id |-> 0, began |-> 0]

\* A row with this key is visible, or is written by an open transaction.
Taken(m) == m # NoMessageId /\ \E i \in committed : message[i] = m
Held(m)  == /\ m # NoMessageId
            /\ \E p \in Publishers : /\ tx[p].pc = "inserted"
                                     /\ message[tx[p].id] = m

PubInit == /\ tx = [p \in Publishers |-> Idle]
           /\ begun = 0 /\ horizon = 0 /\ seq = 0
           /\ committed = {}
           /\ message = [i \in Ids |-> NoMessageId]
           /\ emitted_at = [i \in Ids |-> 0]

-----------------------------------------------------------------------------
\* Publisher.__aenter__
Begin(p) ==
    /\ tx[p].pc = "idle" /\ begun < MaxBegun
    /\ begun' = begun + 1
    /\ tx' = [tx EXCEPT ![p] = [pc |-> "open", id |-> 0, began |-> begun + 1]]
    /\ UNCHANGED <<horizon, seq, committed, message, emitted_at>>

\* Mutant: the INSERT does not wait for the open transaction that holds the key.
MOutcome(m) == IF Taken(m) THEN "duplicate" ELSE "inserted"

\* What ON CONFLICT (message_id) DO NOTHING makes of an INSERT: it waits for a
\* transaction that holds the key, and drops the row when the key is taken.
Outcome(m) == IF Taken(m) THEN "duplicate"
              ELSE IF Held(m) THEN "blocked"
              ELSE "inserted"

Insert(p, m) ==
    /\ tx[p].pc = "open" /\ seq < MaxId
    /\ seq' = seq + 1
    /\ message' = [message EXCEPT ![seq + 1] = m]
    /\ emitted_at' = [emitted_at EXCEPT ![seq + 1] = tx[p].began]
    /\ tx' = [tx EXCEPT ![p].pc = Outcome(m), ![p].id = seq + 1]
    /\ UNCHANGED <<begun, horizon, committed>>

\* The transaction that held the key has ended.
Unblock(p) ==
    LET outcome == Outcome(message[tx[p].id])
    IN /\ tx[p].pc = "blocked" /\ outcome # "blocked"
       /\ tx' = [tx EXCEPT ![p].pc = outcome]
       /\ UNCHANGED <<begun, horizon, seq, committed, message, emitted_at>>

\* Publisher.__aexit__ without an exception; NOTIFY is a statement of its own.
Commit(p) ==
    /\ tx[p].pc \in {"inserted", "duplicate"}
    /\ committed' = IF tx[p].pc = "inserted"
                    THEN committed \cup {tx[p].id} ELSE committed
    /\ tx' = [tx EXCEPT ![p].pc = "notify"]
    /\ UNCHANGED <<begun, horizon, seq, message, emitted_at>>

\* Publisher.__aexit__ with an exception, or the connection is lost.
Rollback(p) ==
    /\ tx[p].pc \in {"open", "blocked", "inserted", "duplicate"}
    /\ tx' = [tx EXCEPT ![p] = Idle]
    /\ UNCHANGED <<begun, horizon, seq, committed, message, emitted_at>>

\* NOTIFY, or the end of the process before it is sent.
EndPublish(p) ==
    /\ tx[p].pc = "notify"
    /\ tx' = [tx EXCEPT ![p] = Idle]
    /\ UNCHANGED <<begun, horizon, seq, committed, message, emitted_at>>

\* Time passes: one more transaction started longer than gap_timeout ago.
Age == /\ horizon < begun
       /\ horizon' = horizon + 1
       /\ UNCHANGED <<tx, begun, seq, committed, message, emitted_at>>

\* Every step of a writer that is not a NOTIFY.
Write == \E p \in Publishers :
            \/ Begin(p)
            \/ \E m \in MessageIds \cup {NoMessageId} : Insert(p, m)
            \/ Unblock(p)
            \/ Commit(p)
            \/ Rollback(p)

PubNext == Write \/ (\E p \in Publishers : EndPublish(p)) \/ Age
PubSpec == PubInit /\ [][PubNext]_pubVars
-----------------------------------------------------------------------------
PubTypeOK ==
    /\ tx \in [Publishers ->
               [pc : {"idle", "open", "blocked", "inserted", "duplicate", "notify"},
                id : 0 .. MaxId, began : Nat]]
    /\ begun \in Nat /\ horizon \in Nat
    /\ seq \in 0 .. MaxId
    /\ committed \subseteq 1 .. seq
    /\ message \in [Ids -> MessageIds \cup {NoMessageId}]
    /\ emitted_at \in [Ids -> Nat]

\* A message_id is written at most once: of all rows that are visible or that an
\* open transaction can still make visible, no two carry the same key. Every
\* worker that retries, replays or competes by a deterministic message_id
\* (deliveries, resolutions, translated activities) rests on this.
OneRowPerMessageId ==
    LET live == committed \cup {tx[p].id : p \in {q \in Publishers : tx[q].pc = "inserted"}}
    IN \A i, j \in live : i # j /\ message[i] # NoMessageId => message[i] # message[j]
=============================================================================
