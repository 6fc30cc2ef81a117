----------------------------- MODULE Conversations -----------------------------
(***************************************************************************)
(* The conversations of the client API: the projection that records every  *)
(* direct message of the topic "timeline" with its participants, and joins *)
(* the conversation of a reply that arrived before its parent to that of   *)
(* the parent.  record runs five statements, each a transaction, and a     *)
(* request may read the tables between any two of them.                    *)
(*                                                                         *)
(* Messages are numbered by the time at which they were written; they may  *)
(* arrive in any order and more than once.                                 *)
(***************************************************************************)
EXTENDS Naturals, Sequences, FiniteSets

CONSTANTS Messages,        \* direct messages, numbers
          Sender,          \* message -> actor
          MentionChoices,  \* functions message -> the actors mentioned in it
          MaxArrivals,     \* bound: events on the topic
          MaxStarts        \* bound: restarts of the process

ASSUME ConversationsAssumption == Messages \subseteq Nat \ {0}

Nobody == 0

VARIABLES parent,    \* message -> message replied to, or 0
          mentions,  \* message -> actors
          topic,     \* the direct messages on the topic
          recorded,  \* how many of them are handled
          conv,      \* api.conversations: message -> conversation
          parts,     \* api.conversation_participants: <<conversation, actor, begin>>
          step,      \* the statement of record that runs next, <<>> between records
          ended,     \* an exception has ended the projection
          starts

cvars == <<parent, mentions, topic, recorded, conv, parts, step, ended, starts>>

-----------------------------------------------------------------------------
Message == topic[recorded + 1]

\* Add rows; of two for the same conversation and actor the earlier stays.
KeepEarliest(P, new) ==
  {p \in P \cup new : \A q \in P \cup new : q[1] = p[1] /\ q[2] = p[2] => p[3] <= q[3]}

\* The conversations that start with a reply to m.
FirstBelow(m) == {c \in DOMAIN conv : conv[c] = c /\ parent[c] = m}

Rest(next) == step' = next /\ UNCHANGED <<parent, mentions, topic, starts>>
Done == recorded' = recorded + 1 /\ Rest(<<>>)

StoreMessage ==
  /\ step = <<>> /\ ~ended /\ recorded < Len(topic)
  /\ LET m == Message
         c == IF m \in DOMAIN conv THEN conv[m]
              ELSE IF parent[m] \in DOMAIN conv THEN conv[parent[m]] ELSE m
     IN /\ conv' = [n \in DOMAIN conv \cup {m} |-> IF n = m THEN c ELSE conv[n]]
        /\ Rest(<<"add participants", c>>)
  /\ UNCHANGED <<recorded, parts, ended>>

\* An insert that names an actor twice fails, and so does the projection.
AddParticipants ==
  /\ step # <<>> /\ step[1] = "add participants"
  /\ LET m == Message IN
     IF Sender[m] \in mentions[m]
     THEN ended' = TRUE /\ Rest(<<>>) /\ UNCHANGED parts
     ELSE /\ parts' = KeepEarliest(parts, {<<step[2], a, m>> : a \in {Sender[m]} \cup mentions[m]})
          /\ Rest(<<"consolidate", step[2]>>) /\ UNCHANGED ended
  /\ UNCHANGED <<recorded, conv>>

Consolidate ==
  /\ step # <<>> /\ step[1] = "consolidate"
  /\ LET found == {p \in parts : p[1] \in FirstBelow(Message)} IN
     IF found = {} THEN Done /\ UNCHANGED parts
     ELSE /\ parts' = KeepEarliest(parts, {<<step[2], p[2], p[3]>> : p \in found})
          /\ Rest(<<"drop", step[2]>>) /\ UNCHANGED recorded
  /\ UNCHANGED <<conv, ended>>

DropOrphans ==
  /\ step # <<>> /\ step[1] = "drop"
  /\ parts' = {p \in parts : p[1] \notin FirstBelow(Message)}
  /\ Rest(<<"move", step[2]>>) /\ UNCHANGED <<recorded, conv, ended>>

MMoveOrphans ==                        \* mutant: only the first messages move
  /\ step # <<>> /\ step[1] = "move"
  /\ conv' = [n \in DOMAIN conv |-> IF n \in FirstBelow(Message) THEN step[2] ELSE conv[n]]
  /\ Done /\ UNCHANGED <<parts, ended>>

MoveOrphans ==
  /\ step # <<>> /\ step[1] = "move"
  /\ conv' = [n \in DOMAIN conv |-> IF conv[n] \in FirstBelow(Message) THEN step[2] ELSE conv[n]]
  /\ Done /\ UNCHANGED <<parts, ended>>

\* The delivery of a direct message to a local user.
Arrive ==
  /\ Len(topic) < MaxArrivals
  /\ \E m \in Messages : topic' = Append(topic, m)
  /\ UNCHANGED <<parent, mentions, recorded, conv, parts, step, ended, starts>>

\* The process starts again with empty tables and reads the whole topic.
StartAgain ==
  /\ starts < MaxStarts
  /\ starts' = starts + 1
  /\ recorded' = 0 /\ conv' = <<>> /\ parts' = {} /\ step' = <<>> /\ ended' = FALSE
  /\ UNCHANGED <<parent, mentions, topic>>

\* A reply is written after its parent.
ConversationsInit ==
  /\ parent \in [Messages -> Messages \cup {Nobody}]
  /\ \A m \in Messages : parent[m] < m
  /\ mentions \in MentionChoices
  /\ topic = <<>> /\ recorded = 0 /\ conv = <<>> /\ parts = {} /\ step = <<>>
  /\ ended = FALSE /\ starts = 0

ConversationsNext ==
  \/ StoreMessage \/ AddParticipants \/ Consolidate \/ DropOrphans \/ MoveOrphans
  \/ Arrive \/ StartAgain

-----------------------------------------------------------------------------
(* Queries.                                                                 *)

\* recipients_for: whom a reply of an actor to a message is addressed to.
RecipientsFor(m, actor) ==
  IF m \in DOMAIN conv THEN {p[2] : p \in {q \in parts : q[1] = conv[m]}} \ {actor} ELSE {}

\* The conversations of an actor, each with the others and its last message.
ConversationsOf(actor) ==
  {[id |-> c, accounts |-> {p[2] : p \in {q \in parts : q[1] = c}} \ {actor},
    last |-> CHOOSE m \in DOMAIN conv : conv[m] = c /\ \A n \in DOMAIN conv : conv[n] = c => n <= m] :
     c \in {conv[m] : m \in {n \in DOMAIN conv : /\ \E p \in parts : p[1] = conv[n] /\ p[2] = actor
                                                /\ \E p \in parts : p[1] = conv[n] /\ p[2] # actor}}}
MessagesOf(c) == {m \in DOMAIN conv : conv[m] = c}

-----------------------------------------------------------------------------
ConversationsTypeOK ==
  /\ DOMAIN conv \subseteq Messages /\ \A m \in DOMAIN conv : conv[m] \in Messages
  /\ \A p \in parts : p[1] \in Messages /\ p[3] \in Messages
  /\ recorded \in 0..Len(topic)

Top[m \in Messages] == IF parent[m] \in DOMAIN conv THEN Top[parent[m]] ELSE m

\* In whatever order messages and replies arrive: once a record is complete,
\* the conversation of each message is that of the topmost message known above
\* it, and its participants are those of all messages that belong to it, each
\* since the first message that names him.
ConversationsAreThreads ==
  (step = <<>> /\ ~ended) =>
    /\ \A m \in DOMAIN conv : conv[m] = Top[m]
    /\ LET involved == UNION {{<<Top[m], a, m>> : a \in {Sender[m]} \cup mentions[m]} : m \in DOMAIN conv}
       IN parts = KeepEarliest({}, involved)

\* Everyone whom a message is between finds it in one of his conversations, with
\* all the others, and a reply to it reaches them all, also while another message
\* is recorded; unless the conversation is being joined to another in this moment.
NobodyIsForgotten ==
  \A i \in 1..recorded :
    LET m == topic[i]
        all == {Sender[m]} \cup mentions[m]
    IN (step = <<>> \/ step[1] # "move" \/ conv[m] \notin FirstBelow(Message)) =>
         \A a \in all :
           /\ all \ {a} \subseteq RecipientsFor(m, a)
           /\ all # {a} => \E c \in ConversationsOf(a) :
                /\ m \in MessagesOf(c.id) /\ m <= c.last
                /\ all \subseteq c.accounts \cup {a}
=============================================================================
