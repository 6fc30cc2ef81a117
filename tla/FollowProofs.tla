------------------------------ MODULE FollowProofs ------------------------------
(***************************************************************************)
(* FollowHandshake for any actors, edges, verbs and bounds: what the two   *)
(* handlers record is a prefix of what has arrived, over all restarts; the *)
(* tables of the API and of the outbox say what was said; and an Undo      *)
(* names the Follow that it takes back.                                    *)
(*                                                                         *)
(* None of this is inductive as it stands.  IInv adds how far each handler *)
(* has come, what a request between its two publishes has left in raw, and *)
(* what the events that were read so far make of a row.                    *)
(***************************************************************************)
EXTENDS FollowHandshake, NatOrder, SequenceTheorems

Changes == {"Follow", "Undo"}
Answers == {"Accept", "Reject"}

\* What the topics hold, without the bounds that grow with the topics.
Activities == [verb : KnownVerbs \cup Noise, edge : Edges, of : Nat]
Events == [type : Types, edge : Edges, mid : Nat, names : Nat]
Messages == [verb : {"Follow", "Undo", "Accept"}, edge : Edges, mid : Nat, names : Nat]
Requests == [type : Types, edge : Edges, names : Nat]
Rows == [state : Types \cup {"none"}, names : Nat]

Shaped ==
  /\ incoming \in Seq(Activities) /\ followers \in Seq(Events) /\ raw \in Seq(Messages)
  /\ delivered \in 0 .. Len(raw)
  /\ requests \subseteq Requests
  /\ fhandler \in [pos : Nat, bound : BOOLEAN, half : BOOLEAN]
  /\ fhandler.pos \in 0 .. Len(incoming) /\ apos \in 0 .. Len(incoming)
  /\ table \in [Edges -> Rows]
  /\ tpos \in 0 .. Len(followers) /\ raced \subseteq Edges
  /\ up \in BOOLEAN /\ restarts \in 0 .. MaxRestarts

\* The names and message ids are positions of the topics they refer to.
Bounded ==
  /\ \A m \in 1 .. Len(incoming) : incoming[m].of <= Len(raw)
  /\ \A i \in 1 .. Len(followers) : followers[i].mid <= Len(incoming) /\ followers[i].names <= Len(raw)
  /\ \A i \in 1 .. Len(raw) : raw[i].mid <= Len(incoming) /\ raw[i].names <= Len(raw)
  /\ \A q \in requests : q.names <= Len(raw)
  /\ \A e \in Edges : table[e].names <= Len(raw)

-----------------------------------------------------------------------------
(* what an entry of a topic can say *)
\* Answers are for local users, and everything else is for a local user to be followed.
Arrived ==
  \A m \in 1 .. Len(incoming) : IF incoming[m].verb \in Answers THEN incoming[m].edge[1] \in Locals
                                                             ELSE incoming[m].edge[2] \in Locals

Sent ==
  \A i \in 1 .. Len(raw) : IF raw[i].verb = "Accept" THEN raw[i].edge[2] \in Locals
                                                  ELSE raw[i].edge[1] \in Locals

\* An event records an activity, or is from a local user.
Records(f) ==
  /\ incoming[f.mid].verb \in Changes \cup Answers
  /\ f.edge = incoming[f.mid].edge /\ f.type = Meaning[incoming[f.mid].verb]
FromUser(f) ==
  /\ f.edge[1] \in Locals
  /\ f.type \in {"accepted", "rejected"} => f.edge[2] \in Locals
Told ==
  \A i \in 1 .. Len(followers) :
    /\ IF followers[i].mid = 0 THEN FromUser(followers[i]) ELSE Records(followers[i])
    /\ followers[i].names # 0 <=> followers[i].type = "requested"

-----------------------------------------------------------------------------
(* how far the handlers have come *)
HalfWay == fhandler.half => /\ fhandler.pos < Len(incoming)
                            /\ incoming[fhandler.pos + 1].verb = "Follow"

IsRecorded(m) == \E i \in 1 .. Len(followers) : followers[i].mid = m

\* The Follows and Undos that follow_handler, the answers that accept_handler has been through.
Handled ==
  /\ \A m \in 1 .. Len(incoming) :
       /\ m <= fhandler.pos \/ (fhandler.half /\ m = fhandler.pos + 1)
       /\ incoming[m].verb \in Changes
       => IsRecorded(m)
  /\ \A m \in 1 .. Len(incoming) : m <= apos /\ incoming[m].verb \in Answers => IsRecorded(m)

\* Of one handler's activities each is recorded once and after those before it.
InOrder(verbs) ==
  /\ \A i, j \in RecordsOf(verbs) : i < j => followers[i].mid < followers[j].mid
  /\ \A i \in RecordsOf(verbs), m \in 1 .. Len(incoming) :
       m < followers[i].mid /\ incoming[m].verb \in verbs => IsRecorded(m)

-----------------------------------------------------------------------------
(* requests *)
IsLast(i, S) == i \in S /\ \A j \in S : j <= i

\* What the API has recorded of a user's requests.
Recorded(e) == {i \in 1 .. Len(followers) : /\ followers[i].edge = e /\ followers[i].mid = 0
                                            /\ followers[i].type \in {"requested", "deleted"}}

\* An event or a request says what the activity k of raw says.
Says(type, names, k) == IF raw[k].verb = "Follow" THEN type = "requested" /\ names = k
                                                  ELSE type = "deleted"

\* There is one request at most, and it is the last thing that was sent on its edge.
Pending ==
  /\ \A q, s \in requests : q = s
  /\ \A q \in requests : /\ q.edge[1] \in Locals
                         /\ \E k \in 1 .. Len(raw) : IsLast(k, Asked(q.edge)) /\ Says(q.type, q.names, k)

\* Otherwise the last thing that was sent on an edge is the last that was recorded.
Settled(e) ==
  e[1] \in Locals /\ e \notin raced /\ (\A q \in requests : q.edge # e) =>
    /\ Asked(e) = {} => Recorded(e) = {}
    /\ \A k \in 1 .. Len(raw) : IsLast(k, Asked(e)) =>
         \E i \in 1 .. Len(followers) : /\ IsLast(i, Recorded(e))
                                        /\ Says(followers[i].type, followers[i].names, k)

Outward(e) == e[1] \in Locals /\ e[2] \in Remotes

\* The answer to a request is recorded after it, unless it overtook it.
Answerless ==
  \A q \in requests : q.type = "requested" /\ Outward(q.edge) /\ q.edge \notin raced =>
    \A m \in 1 .. Len(incoming) : incoming[m].edge = q.edge => incoming[m].of # q.names
InTurn ==
  \A i, j \in 1 .. Len(followers) :
    /\ followers[i].type = "requested" /\ Outward(followers[i].edge) /\ followers[i].edge \notin raced
    /\ followers[j].edge = followers[i].edge /\ followers[j].mid # 0
    /\ incoming[followers[j].mid].of = followers[i].names
    => i < j

-----------------------------------------------------------------------------
(* the table of the API *)
Read(e) == {i \in 1 .. tpos : followers[i].edge = e}
Decided(e) == {i \in Read(e) : followers[i].type # "accepted"}
StateOf(type) == IF type \in {"requested", "accepted"} THEN type ELSE "none"

\* A row has the state of the last event, and the names of the last that is no acceptance.
RowIsRead(e) ==
  /\ Read(e) = {} => table[e].state = "none"
  /\ \A i \in 1 .. tpos : IsLast(i, Read(e)) => table[e].state = StateOf(followers[i].type)
  /\ Decided(e) = {} => table[e].names = 0
  /\ \A i \in 1 .. tpos : IsLast(i, Decided(e)) => table[e].names = followers[i].names

-----------------------------------------------------------------------------
Topical == Arrived /\ Sent /\ Told
Orderly == HalfWay /\ Handled /\ InOrder(Changes) /\ InOrder(Answers)
Asking == Pending /\ (\A e \in Edges : Settled(e)) /\ Answerless /\ InTurn
Reading == \A e \in Edges : RowIsRead(e)

IInv == Shaped /\ Bounded /\ Topical /\ Orderly /\ Asking /\ Reading
-----------------------------------------------------------------------------
(* Topics that grow. *)
LEMMA Appended ==
  ASSUME NEW S, NEW s \in Seq(S), NEW x \in S
  PROVE  /\ Append(s, x) \in Seq(S) /\ Len(Append(s, x)) = Len(s) + 1
         /\ \A i \in 1 .. Len(s) : Append(s, x)[i] = s[i]
         /\ Append(s, x)[Len(s) + 1] = x
         /\ Len(s) \in Nat
  OBVIOUS

\* What each verb is recorded as.
LEMMA Meanings ==
  /\ Meaning["Follow"] = "accepted" /\ Meaning["Undo"] = "deleted"
  /\ Meaning["Accept"] = "accepted" /\ Meaning["Reject"] = "rejected"
  BY DEF Meaning

\* A set of positions with an element has a last one, and Latest is it.
LEMMA LatestIsLast ==
  ASSUME NEW n \in Nat, NEW S, S \subseteq 1 .. n, S # {}
  PROVE  IsLast(Latest(S), S)
<1>1. S \subseteq 0 .. n
  OBVIOUS
<1>2. PICK i \in S : \A j \in S : j <= i
  BY <1>1, GreatestExists
<1> QED BY <1>2 DEF Latest, IsLast

LEMMA OneLast ==
  ASSUME NEW S, S \subseteq Int, NEW i, IsLast(i, S), NEW j, IsLast(j, S)
  PROVE  i = j
  BY DEF IsLast

\* Both ends of an edge are actors, and nobody is at home on both sides.
LEMMA EdgeEnds ==
  ASSUME NEW e \in Edges
  PROVE  /\ e[1] \in Locals \/ e[2] \in Locals
         /\ e[1] \in Remotes => e[1] \notin Locals /\ e[2] \in Locals
         /\ e[2] \in Remotes => e[2] \notin Locals
         /\ e[1] \in Locals \cup Remotes /\ e[2] \in Locals \cup Remotes
  BY HandshakeAssumption
-----------------------------------------------------------------------------
(* The parts of entries. *)
LEMMA ActivityParts ==
  /\ \A a \in Activities : a.verb \in KnownVerbs \cup Noise /\ a.edge \in Edges /\ a.of \in Nat
  /\ \A verb \in KnownVerbs \cup Noise, e \in Edges, of \in Nat :
       [verb |-> verb, edge |-> e, of |-> of] \in Activities
  BY DEF Activities

LEMMA EventParts ==
  /\ \A f \in Events : f.type \in Types /\ f.edge \in Edges /\ f.mid \in Nat /\ f.names \in Nat
  /\ \A type \in Types, e \in Edges, mid, names \in Nat :
       /\ Event(type, e, mid, names) \in Events
       /\ Event(type, e, mid, names).type = type /\ Event(type, e, mid, names).edge = e
       /\ Event(type, e, mid, names).mid = mid /\ Event(type, e, mid, names).names = names
  BY DEF Events, Event

LEMMA MessageParts ==
  /\ \A s \in Messages : /\ s.verb \in {"Follow", "Undo", "Accept"} /\ s.edge \in Edges
                         /\ s.mid \in Nat /\ s.names \in Nat
  /\ \A verb \in {"Follow", "Undo", "Accept"}, e \in Edges, mid, names \in Nat :
       /\ Raw(verb, e, mid, names) \in Messages
       /\ Raw(verb, e, mid, names).verb = verb /\ Raw(verb, e, mid, names).edge = e
       /\ Raw(verb, e, mid, names).mid = mid /\ Raw(verb, e, mid, names).names = names
  BY DEF Messages, Raw

LEMMA RequestParts ==
  /\ \A q \in Requests : q.type \in Types /\ q.edge \in Edges /\ q.names \in Nat
  /\ \A type \in Types, e \in Edges, names \in Nat :
       [type |-> type, edge |-> e, names |-> names] \in Requests
  BY DEF Requests

LEMMA RowParts ==
  /\ \A row \in Rows : row.state \in Types \cup {"none"} /\ row.names \in Nat
  /\ \A state \in Types \cup {"none"}, names \in Nat : [state |-> state, names |-> names] \in Rows
  BY DEF Rows

\* What the entries of the topics are.
LEMMA Entries ==
  ASSUME Shaped
  PROVE  /\ \A m \in 1 .. Len(incoming) : incoming[m] \in Activities
         /\ \A i \in 1 .. Len(followers) : followers[i] \in Events
         /\ \A i \in 1 .. Len(raw) : raw[i] \in Messages
         /\ Len(incoming) \in Nat /\ Len(followers) \in Nat /\ Len(raw) \in Nat
  BY DEF Shaped

-----------------------------------------------------------------------------
(* The steps, by what they do to the topics. *)
\* An activity that can arrive.
Plausible(a) ==
  /\ a \in Activities /\ a.of <= Len(raw)
  /\ IF a.verb \in Answers THEN a.edge[1] \in Locals ELSE a.edge[2] \in Locals
Arrival(a) ==
  /\ Plausible(a) /\ incoming' = Append(incoming, a)
  /\ raced' = IF a.verb \in Answers /\ \E q \in requests : q.edge = a.edge THEN raced \cup {a.edge} ELSE raced
  /\ delivered' \in 0 .. Len(raw)
  /\ UNCHANGED <<followers, raw, requests, fhandler, apos, tables, process>>

\* What a user asks for at first: the Follow by its position, or an Undo.
Asks(verb, type, e, names) ==
  /\ e \in Edges /\ Begin(verb, type, e, names) /\ names \in Nat
  /\ \/ verb = "Follow" /\ type = "requested" /\ names = Len(raw) + 1
     \/ verb = "Undo" /\ type = "deleted" /\ names = table[e].names

LEMMA ArrivalSteps ==
  ASSUME Shaped, Bounded, Sent, NEW verb, NEW e \in Edges, NEW of \in Nat, Arrives(verb, e, of),
         verb \in KnownVerbs \cup Noise, of <= Len(raw),
         IF verb \in Answers THEN e[1] \in Locals ELSE e[2] \in Locals,
         delivered' \in 0 .. Len(raw)
  PROVE  \E a \in Activities : Arrival(a)
<1> DEFINE a == [verb |-> verb, edge |-> e, of |-> of]
<1>1. a \in Activities
  BY ActivityParts
<1>2. a.verb = verb /\ a.edge = e /\ a.of = of
  OBVIOUS
<1>3. Plausible(a)
  BY <1>1, <1>2 DEF Plausible
<1>4. Arrival(a)
  BY <1>2, <1>3 DEF Arrival, Arrives, Answers
<1> QED BY <1>1, <1>4

\* Every step of Next is one of these.
LEMMA Steps ==
  ASSUME Shaped, Bounded, Sent, Next
  PROVE  \/ \E a \in Activities : Arrival(a)
         \/ \E verb, type, e, names : Asks(verb, type, e, names)
         \/ \E q \in requests : Record(q)
         \/ \E e \in Edges, decision \in {"accepted", "rejected"} : Resolve(e, decision)
         \/ AcceptFollower \/ AnswerFollow \/ DropFollower \/ Ignore \/ Unbound
         \/ AcceptHandler \/ ProjectFollows \/ Restart
<1> USE DEF Answers
<1>0. Len(raw) \in Nat /\ \A i \in 1 .. Len(raw) : raw[i] \in Messages
  BY Entries
<1>1. ASSUME NEW e \in Edges, RemoteFollows(e) PROVE \E a \in Activities : Arrival(a)
  <2>1. e[2] \in Locals /\ delivered' \in 0 .. Len(raw)
    BY <1>1, EdgeEnds DEF RemoteFollows, Shaped
  <2>2. PICK verb \in {"Follow", "Undo"} : Arrives(verb, e, 0)
    BY <1>1 DEF RemoteFollows
  <2>3. verb \in KnownVerbs \cup Noise
    BY HandshakeAssumption
  <2>4. IF verb \in {"Accept", "Reject"} THEN e[1] \in Locals ELSE e[2] \in Locals
    BY <2>1
  <2>5. 0 \in Nat /\ 0 <= Len(raw)
    BY <1>0
  <2> QED BY <2>1, <2>2, <2>3, <2>4, <2>5, ArrivalSteps
<1>2. ASSUME NEW e \in Edges, NEW verb \in Noise, OtherActivity(verb, e) PROVE \E a \in Activities : Arrival(a)
  <2>1. e[2] \in Locals /\ delivered' \in 0 .. Len(raw) /\ Arrives(verb, e, 0)
    BY <1>2, EdgeEnds DEF OtherActivity, Shaped
  <2>2. verb \notin {"Accept", "Reject"}
    BY HandshakeAssumption
  <2>3. IF verb \in {"Accept", "Reject"} THEN e[1] \in Locals ELSE e[2] \in Locals
    BY <2>1, <2>2
  <2>4. 0 \in Nat /\ 0 <= Len(raw) /\ verb \in KnownVerbs \cup Noise
    BY <1>0
  <2> QED BY <2>1, <2>3, <2>4, ArrivalSteps
<1>3. ASSUME NEW i \in 1 .. Len(raw), NEW verb \in {"Accept", "Reject"}, RemoteAnswers(i, verb)
      PROVE  \E a \in Activities : Arrival(a)
  <2>1. raw[i].verb = "Follow" /\ Arrives(verb, raw[i].edge, i) /\ delivered' \in 0 .. Len(raw)
    BY <1>3 DEF RemoteAnswers, Shaped
  <2>2. raw[i].edge \in Edges
    BY <1>0, MessageParts
  <2>3. raw[i].edge[1] \in Locals
    BY <2>1 DEF Sent
  <2>4. verb \in KnownVerbs \cup Noise
    BY HandshakeAssumption
  <2>5. IF verb \in {"Accept", "Reject"} THEN raw[i].edge[1] \in Locals ELSE raw[i].edge[2] \in Locals
    BY <2>3
  <2>6. i \in Nat /\ i <= Len(raw)
    BY <1>0
  <2> QED BY <2>1, <2>2, <2>4, <2>5, <2>6, ArrivalSteps
<1>4. ASSUME NEW i \in 1 .. Len(raw), Deliver(i) PROVE \E a \in Activities : Arrival(a)
  <2>1. PICK of : of = CASE raw[i].verb = "Accept" -> raw[i].names
                         [] raw[i].verb = "Follow" -> i
                         [] OTHER -> 0
    OBVIOUS
  <2>2. raw[i].verb \in {"Follow", "Undo", "Accept"} /\ raw[i].edge \in Edges /\ raw[i].names \in Nat
    BY <1>0, MessageParts
  <2>3. of \in Nat /\ of <= Len(raw)
    BY <2>1, <2>2, <1>0 DEF Bounded
  <2>4. Arrives(raw[i].verb, raw[i].edge, of) /\ delivered' \in 0 .. Len(raw)
    BY <1>4, <2>1, <1>0 DEF Deliver
  <2>5. IF raw[i].verb \in {"Accept", "Reject"} THEN raw[i].edge[1] \in Locals ELSE raw[i].edge[2] \in Locals
    BY <1>4, <2>2 DEF Deliver, ForLocal
  <2>6. raw[i].verb \in KnownVerbs \cup Noise
    BY <2>2, HandshakeAssumption
  <2> QED BY <2>2, <2>3, <2>4, <2>5, <2>6, ArrivalSteps
<1>5. ASSUME NEW e \in Edges, Follow(e) \/ Unfollow(e) PROVE \E verb, type, f, names : Asks(verb, type, f, names)
  <2>1. table[e].names \in Nat
    BY RowParts DEF Shaped
  <2>2. Asks("Follow", "requested", e, Len(raw) + 1) \/ Asks("Undo", "deleted", e, table[e].names)
    BY <1>5, <2>1, <1>0 DEF Asks, Follow, Unfollow
  <2> QED BY <2>2
<1> QED BY <1>1, <1>2, <1>3, <1>4, <1>5 DEF Next, FollowHandler
-----------------------------------------------------------------------------
(* Types, bounds and what entries say: Basics is kept by every step. *)
Basics == Shaped /\ Bounded /\ Topical

\* A topic drops an event whose message id it has.
LEMMA PublishedIs ==
  ASSUME NEW topic, NEW f
  PROVE  \/ f.mid # 0 /\ (\E i \in 1 .. Len(topic) : topic[i].mid = f.mid) /\ Published(topic, f) = topic
         \/ ~(f.mid # 0 /\ \E i \in 1 .. Len(topic) : topic[i].mid = f.mid) /\ Published(topic, f) = Append(topic, f)
  BY DEF Published

\* An event of its own kind, or a dropped one, leaves the topic followers as it should be.
LEMMA EventStep ==
  ASSUME Basics, NEW f \in Events, followers' = followers \/ followers' = Append(followers, f),
         incoming' = incoming, raw' = raw,
         f.mid <= Len(incoming), f.names <= Len(raw),
         IF f.mid = 0 THEN FromUser(f) ELSE Records(f),
         f.names # 0 <=> f.type = "requested"
  PROVE  /\ followers' \in Seq(Events) /\ Len(followers) <= Len(followers')
         /\ \A i \in 1 .. Len(followers') : followers'[i].mid <= Len(incoming) /\ followers'[i].names <= Len(raw)
         /\ Told'
<1>0. followers \in Seq(Events) /\ Len(followers) \in Nat
  BY DEF Basics, Shaped
<1>1. CASE followers' = followers
  BY <1>0, <1>1 DEF Basics, Topical, Told, Bounded, Records, FromUser
<1>2. CASE followers' = Append(followers, f)
  <2>1. /\ followers' \in Seq(Events) /\ Len(followers') = Len(followers) + 1
        /\ \A i \in 1 .. Len(followers) : followers'[i] = followers[i]
        /\ followers'[Len(followers) + 1] = f
    BY <1>0, <1>2, Appended
  <2>2. \A i \in 1 .. Len(followers') : i \in 1 .. Len(followers) \/ i = Len(followers) + 1
    BY <2>1, <1>0
  <2>3. \A i \in 1 .. Len(followers') : followers'[i].mid <= Len(incoming) /\ followers'[i].names <= Len(raw)
    BY <2>1, <2>2 DEF Basics, Bounded
  <2>4. Told'
    BY <2>1, <2>2 DEF Basics, Topical, Told, Records, FromUser
  <2> QED BY <2>1, <2>3, <2>4, <1>0
<1> QED BY <1>1, <1>2

\* The same for a message.
LEMMA MessageStep ==
  ASSUME Basics, NEW s \in Messages, raw' = raw \/ raw' = Append(raw, s),
         s.mid <= Len(incoming), s.names <= Len(raw) + 1, raw' = raw => s.names <= Len(raw),
         IF s.verb = "Accept" THEN s.edge[2] \in Locals ELSE s.edge[1] \in Locals
  PROVE  /\ raw' \in Seq(Messages) /\ Len(raw) <= Len(raw')
         /\ \A i \in 1 .. Len(raw') : raw'[i].mid <= Len(incoming) /\ raw'[i].names <= Len(raw')
         /\ Sent'
<1>0. raw \in Seq(Messages) /\ Len(raw) \in Nat /\ s.names \in Nat
  BY MessageParts DEF Basics, Shaped
<1>1. CASE raw' = raw
  BY <1>0, <1>1 DEF Basics, Topical, Sent, Bounded
<1>2. CASE raw' = Append(raw, s)
  <2>1. /\ raw' \in Seq(Messages) /\ Len(raw') = Len(raw) + 1
        /\ \A i \in 1 .. Len(raw) : raw'[i] = raw[i]
        /\ raw'[Len(raw) + 1] = s
    BY <1>0, <1>2, Appended
  <2>2. \A i \in 1 .. Len(raw') : i \in 1 .. Len(raw) \/ i = Len(raw) + 1
    BY <2>1, <1>0
  <2>3. \A i \in 1 .. Len(raw) : raw[i].mid <= Len(incoming) /\ raw[i].names <= Len(raw) /\ raw[i].names \in Nat
    BY Entries, MessageParts DEF Basics, Bounded
  <2>4. \A i \in 1 .. Len(raw') : raw'[i].mid <= Len(incoming) /\ raw'[i].names <= Len(raw')
    BY <2>1, <2>2, <2>3, <1>0
  <2>5. Sent'
    BY <2>1, <2>2 DEF Basics, Topical, Sent
  <2> QED BY <2>1, <2>4, <2>5, <1>0
<1> QED BY <1>1, <1>2

LEMMA BasicsArrival ==
  ASSUME Basics, NEW a \in Activities, Arrival(a)
  PROVE  Basics'
<1> USE DEF Arrival, tables, process, Plausible
<1>0. /\ incoming \in Seq(Activities) /\ Len(incoming) \in Nat /\ a.edge \in Edges
      /\ \A i \in 1 .. Len(followers) : followers[i] \in Events
      /\ \A i \in 1 .. Len(raw) : raw[i] \in Messages
  BY Entries, ActivityParts DEF Basics, Shaped
<1>1. /\ incoming' \in Seq(Activities) /\ Len(incoming') = Len(incoming) + 1
      /\ \A m \in 1 .. Len(incoming) : incoming'[m] = incoming[m]
      /\ incoming'[Len(incoming) + 1] = a
  BY <1>0, Appended
<1>2. \A m \in 1 .. Len(incoming') : m \in 1 .. Len(incoming) \/ m = Len(incoming) + 1
  BY <1>1, <1>0
<1>3. Shaped'
  BY <1>0, <1>1 DEF Basics, Shaped
<1>4. Bounded'
  <2>1. \A m \in 1 .. Len(incoming') : incoming'[m].of <= Len(raw')
    BY <1>1, <1>2 DEF Basics, Bounded
  <2>2. \A i \in 1 .. Len(followers) : followers[i].mid <= Len(incoming) /\ followers[i].mid \in Nat
    BY <1>0, EventParts DEF Basics, Bounded
  <2>3. \A i \in 1 .. Len(raw) : raw[i].mid <= Len(incoming) /\ raw[i].mid \in Nat
    BY <1>0, MessageParts DEF Basics, Bounded
  <2>4. \A i \in 1 .. Len(followers') : followers'[i].mid <= Len(incoming') /\ followers'[i].names <= Len(raw')
    BY <2>2, <1>1, <1>0 DEF Basics, Bounded
  <2>5. \A i \in 1 .. Len(raw') : raw'[i].mid <= Len(incoming') /\ raw'[i].names <= Len(raw')
    BY <2>3, <1>1, <1>0 DEF Basics, Bounded
  <2> QED BY <2>1, <2>4, <2>5 DEF Basics, Bounded
<1>5. Arrived'
  BY <1>1, <1>2 DEF Basics, Topical, Arrived
<1>6. Told'
  <2>1. \A i \in 1 .. Len(followers) : followers[i].mid # 0 => followers[i].mid \in 1 .. Len(incoming)
    BY <1>0, EventParts DEF Basics, Bounded
  <2> QED BY <2>1, <1>1 DEF Basics, Topical, Told, Records, FromUser
<1>7. Sent'
  BY DEF Basics, Topical, Sent
<1> QED BY <1>3, <1>4, <1>5, <1>6, <1>7 DEF Basics, Topical

LEMMA BasicsAsks ==
  ASSUME Basics, NEW verb, NEW type, NEW e, NEW names, Asks(verb, type, e, names)
  PROVE  Basics'
<1> USE DEF Asks, Begin, tables, process
<1> DEFINE s == Raw(verb, e, 0, names)
           q == [type |-> type, edge |-> e, names |-> names]
<1>0. Len(raw) \in Nat /\ Len(incoming) \in Nat
  BY Entries DEF Basics
<1>1. s \in Messages /\ s.verb = verb /\ s.edge = e /\ s.mid = 0 /\ s.names = names
  BY MessageParts
<1>2. names <= Len(raw) + 1
  BY <1>0 DEF Basics, Bounded
<1>3. raw' = Append(raw, s) /\ requests' = requests \cup {q}
  OBVIOUS
<1>4. Len(raw') = Len(raw) + 1
  BY <1>0, <1>1, <1>3, Appended DEF Basics, Shaped
<1>5. raw' # raw
  BY <1>0, <1>4
<1>6. /\ raw' \in Seq(Messages)
      /\ \A i \in 1 .. Len(raw') : raw'[i].mid <= Len(incoming) /\ raw'[i].names <= Len(raw')
      /\ Sent'
  <2>1. s.mid <= Len(incoming) /\ e[1] \in Locals
    BY <1>0, <1>1
  <2> QED BY <1>0, <1>1, <1>2, <1>3, <1>5, <2>1, MessageStep
<1>7. q \in Requests /\ q.names = names
  BY RequestParts DEF Types
<1>8. Shaped'
  <2>1. requests' \subseteq Requests
    BY <1>3, <1>7 DEF Basics, Shaped
  <2> QED BY <1>0, <1>4, <1>6, <2>1 DEF Basics, Shaped
<1>9. Bounded'
  <2>1. \A m \in 1 .. Len(incoming) : incoming[m].of <= Len(raw) /\ incoming[m].of \in Nat
    BY Entries, ActivityParts DEF Basics, Bounded
  <2>2. \A i \in 1 .. Len(followers) : followers[i].names <= Len(raw) /\ followers[i].names \in Nat
    BY Entries, EventParts DEF Basics, Bounded
  <2>3. \A p \in requests : p.names <= Len(raw) /\ p.names \in Nat
    BY RequestParts DEF Basics, Bounded, Shaped
  <2>4. \A f \in Edges : table[f].names <= Len(raw) /\ table[f].names \in Nat
    BY RowParts DEF Basics, Bounded, Shaped
  <2>5. \A p \in requests' : p.names <= Len(raw')
    BY <2>3, <1>2, <1>3, <1>4, <1>7, <1>0
  <2>6. \A m \in 1 .. Len(incoming') : incoming'[m].of <= Len(raw')
    BY <2>1, <1>4, <1>0
  <2>7. \A i \in 1 .. Len(followers') : followers'[i].mid <= Len(incoming') /\ followers'[i].names <= Len(raw')
    BY <2>2, <1>4, <1>0 DEF Basics, Bounded
  <2>8. \A f \in Edges : table'[f].names <= Len(raw')
    BY <2>4, <1>4, <1>0
  <2> QED BY <1>6, <2>5, <2>6, <2>7, <2>8 DEF Bounded
<1>10. Arrived' /\ Told'
  BY DEF Basics, Topical, Arrived, Told, Records, FromUser
<1> QED BY <1>6, <1>8, <1>9, <1>10 DEF Basics, Topical

LEMMA BasicsRecord ==
  ASSUME Basics, Pending, NEW q \in requests, Record(q)
  PROVE  Basics'
<1> USE DEF Record, tables, process
<1> DEFINE f == Event(q.type, q.edge, 0, IF q.type = "requested" THEN q.names ELSE 0)
<1>0. q \in Requests /\ Len(incoming) \in Nat /\ Len(raw) \in Nat
  BY Entries DEF Basics, Shaped
<1>1. q.type \in Types /\ q.edge \in Edges /\ q.names \in Nat
  BY <1>0, RequestParts
<1>2. PICK names : names = IF q.type = "requested" THEN q.names ELSE 0
  OBVIOUS
<1>3. f \in Events /\ f.type = q.type /\ f.edge = q.edge /\ f.mid = 0 /\ f.names = names
  BY <1>1, <1>2, EventParts
<1>4. PICK k \in 1 .. Len(raw) : IsLast(k, Asked(q.edge)) /\ Says(q.type, q.names, k)
  BY DEF Pending
<1>5. q.type \in {"requested", "deleted"} /\ (q.type = "requested" => q.names # 0)
  BY <1>4, <1>0 DEF Says
<1>6. q.edge[1] \in Locals
  BY DEF Pending
<1>7. f.names # 0 <=> f.type = "requested"
  BY <1>2, <1>3, <1>5
<1>8. FromUser(f)
  BY <1>3, <1>5, <1>6 DEF FromUser
<1>9. f.names <= Len(raw) /\ f.mid <= Len(incoming)
  BY <1>0, <1>1, <1>2, <1>3 DEF Basics, Bounded
<1>10. followers' = Append(followers, f)
  OBVIOUS
<1> HIDE DEF f
<1>11. /\ followers' \in Seq(Events) /\ Len(followers) <= Len(followers')
       /\ \A i \in 1 .. Len(followers') : followers'[i].mid <= Len(incoming) /\ followers'[i].names <= Len(raw)
       /\ Told'
  BY <1>3, <1>7, <1>8, <1>9, <1>10, EventStep
<1>12. Shaped'
  <2>1. Len(followers) \in Nat /\ Len(followers') \in Nat
    BY <1>11, Entries DEF Basics
  <2> QED BY <1>11, <2>1 DEF Basics, Shaped
<1>13. Bounded' /\ Arrived' /\ Sent'
  BY <1>11 DEF Basics, Bounded, Topical, Arrived, Sent
<1> QED BY <1>11, <1>12, <1>13 DEF Basics, Topical

LEMMA BasicsResolve ==
  ASSUME Basics, NEW e \in Edges, NEW decision \in {"accepted", "rejected"}, Resolve(e, decision)
  PROVE  Basics'
<1> USE DEF Resolve, tables, process
<1> DEFINE f == Event(decision, e, 0, 0)
<1>0. Len(incoming) \in Nat /\ Len(raw) \in Nat
  BY Entries DEF Basics
<1>1. f \in Events /\ f.type = decision /\ f.edge = e /\ f.mid = 0 /\ f.names = 0
  BY EventParts DEF Types
<1>2. FromUser(f)
  BY <1>1 DEF FromUser
<1>3. followers' = Append(followers, f)
  OBVIOUS
<1> HIDE DEF f
<1>4. /\ followers' \in Seq(Events) /\ Len(followers) <= Len(followers')
      /\ \A i \in 1 .. Len(followers') : followers'[i].mid <= Len(incoming) /\ followers'[i].names <= Len(raw)
      /\ Told'
  BY <1>0, <1>1, <1>2, <1>3, EventStep
<1>5. Shaped'
  <2>1. Len(followers) \in Nat /\ Len(followers') \in Nat
    BY <1>4, Entries DEF Basics
  <2> QED BY <1>4, <2>1 DEF Basics, Shaped
<1>6. Bounded' /\ Arrived' /\ Sent'
  BY <1>4 DEF Basics, Bounded, Topical, Arrived, Sent
<1> QED BY <1>4, <1>5, <1>6 DEF Basics, Topical

-----------------------------------------------------------------------------
(* The handlers: an activity is noted as what it means, under its own message id. *)
Note(m) == Event(Meaning[incoming[m].verb], incoming[m].edge, m, 0)
Notes(m) ==
  /\ m \in 1 .. Len(incoming) /\ incoming[m].verb \in Changes \cup Answers
  /\ followers' = Published(followers, Note(m)) /\ incoming' = incoming

LEMMA NoteParts ==
  ASSUME Shaped, NEW m \in 1 .. Len(incoming), incoming[m].verb \in Changes \cup Answers
  PROVE  /\ Note(m) \in Events /\ Note(m).type = Meaning[incoming[m].verb]
         /\ Note(m).edge = incoming[m].edge /\ Note(m).mid = m /\ Note(m).names = 0
         /\ Note(m).type # "requested" /\ Records(Note(m))
<1>1. Meaning[incoming[m].verb] \in Types /\ Meaning[incoming[m].verb] # "requested"
  BY Meanings DEF Types, Changes, Answers
<1>2. incoming[m].edge \in Edges /\ m \in Nat /\ 0 \in Nat
  BY Entries, ActivityParts
<1>3. /\ Note(m) \in Events /\ Note(m).type = Meaning[incoming[m].verb]
      /\ Note(m).edge = incoming[m].edge /\ Note(m).mid = m /\ Note(m).names = 0
  BY <1>1, <1>2, EventParts DEF Note
<1> QED BY <1>1, <1>3 DEF Records

LEMMA NotesAppends ==
  ASSUME Shaped, NEW m, Notes(m)
  PROVE  \/ followers' = followers /\ IsRecorded(m)
         \/ followers' = Append(followers, Note(m)) /\ ~IsRecorded(m)
<1>1. Note(m).mid = m /\ m # 0
  BY NoteParts DEF Notes
<1> QED BY <1>1, PublishedIs DEF Notes, IsRecorded

LEMMA BasicsNotes ==
  ASSUME Basics, NEW m, Notes(m), raw' = raw, tpos' = tpos
  PROVE  /\ followers' \in Seq(Events) /\ tpos' \in 0 .. Len(followers')
         /\ \A i \in 1 .. Len(followers') : followers'[i].mid <= Len(incoming) /\ followers'[i].names <= Len(raw)
         /\ Told'
<1>0. Shaped /\ Len(raw) \in Nat /\ m \in Nat /\ m # 0 /\ m <= Len(incoming)
  BY Entries DEF Basics, Notes
<1>1. /\ Note(m) \in Events /\ Note(m).mid = m /\ Note(m).names = 0
      /\ Note(m).type # "requested" /\ Records(Note(m))
  BY <1>0, NoteParts DEF Notes
<1>2. followers' = followers \/ followers' = Append(followers, Note(m))
  BY <1>0, NotesAppends
<1>3. /\ followers' \in Seq(Events) /\ Len(followers) <= Len(followers')
      /\ \A i \in 1 .. Len(followers') : followers'[i].mid <= Len(incoming) /\ followers'[i].names <= Len(raw)
      /\ Told'
  BY <1>0, <1>1, <1>2, EventStep DEF Notes
<1>4. Len(followers) \in Nat /\ Len(followers') \in Nat /\ tpos \in 0 .. Len(followers)
  BY <1>0, <1>3, Entries DEF Shaped
<1> QED BY <1>3, <1>4

\* What each step of a handler is, in these terms.
LEMMA HandlerSteps ==
  ASSUME Shaped
  PROVE  /\ AcceptFollower => Notes(fhandler.pos + 1) /\ incoming[fhandler.pos + 1].verb = "Follow"
         /\ DropFollower => Notes(fhandler.pos + 1) /\ incoming[fhandler.pos + 1].verb = "Undo"
         /\ AcceptHandler => \/ Notes(apos + 1) /\ incoming[apos + 1].verb \in Answers
                             \/ followers' = followers /\ incoming[apos + 1].verb \notin Answers
<1>0. Len(incoming) \in Nat /\ fhandler.pos \in Nat /\ apos \in Nat
  BY Entries DEF Shaped
<1>1. ASSUME AcceptFollower PROVE Notes(fhandler.pos + 1) /\ incoming[fhandler.pos + 1].verb = "Follow"
  <2>1. fhandler.pos + 1 \in 1 .. Len(incoming) /\ incoming[fhandler.pos + 1].verb = "Follow"
    BY <1>0, <1>1 DEF AcceptFollower, HasNext, Next1
  <2> QED BY <1>1, <2>1, Meanings DEF AcceptFollower, HasNext, Next1, Notes, Note, Changes, handlerOnly
<1>2. ASSUME DropFollower PROVE Notes(fhandler.pos + 1) /\ incoming[fhandler.pos + 1].verb = "Undo"
  <2>1. fhandler.pos + 1 \in 1 .. Len(incoming) /\ incoming[fhandler.pos + 1].verb = "Undo"
    BY <1>0, <1>2 DEF DropFollower, HasNext, Next1
  <2> QED BY <1>2, <2>1, Meanings DEF DropFollower, HasNext, Next1, Notes, Note, Changes, handlerOnly
<1>3. ASSUME AcceptHandler
      PROVE  \/ Notes(apos + 1) /\ incoming[apos + 1].verb \in Answers
             \/ followers' = followers /\ incoming[apos + 1].verb \notin Answers
  <2>1. PICK m \in 1 .. Len(incoming) : m = apos + 1 /\ apos' = m
    BY <1>0, <1>3 DEF AcceptHandler
  <2>2. CASE incoming[m].verb \in Answers
    <3>1. Outcome(incoming[m].verb) = Meaning[incoming[m].verb]
      BY <2>2, Meanings DEF Outcome, Answers
    <3>2. followers' = Published(followers, Event(Outcome(incoming[m].verb), incoming[m].edge, m, 0))
      BY <1>3, <2>1, <2>2 DEF AcceptHandler, Answers
    <3>3. Notes(m)
      BY <1>3, <2>2, <3>1, <3>2 DEF Notes, Note, AcceptHandler
    <3> QED BY <2>1, <2>2, <3>3
  <2>3. CASE incoming[m].verb \notin Answers
    BY <1>3, <2>1, <2>3 DEF AcceptHandler, Answers
  <2> QED BY <2>2, <2>3
<1> QED BY <1>1, <1>2, <1>3

LEMMA BasicsHandlers ==
  ASSUME Basics, HalfWay,
         AcceptFollower \/ AnswerFollow \/ DropFollower \/ Ignore \/ Unbound \/ AcceptHandler
  PROVE  Basics'
<1> USE DEF tables, process, topics, handlerOnly
<1>0. /\ Shaped /\ Len(incoming) \in Nat /\ Len(followers) \in Nat /\ Len(raw) \in Nat
      /\ fhandler.pos \in 0 .. Len(incoming) /\ apos \in 0 .. Len(incoming)
      /\ fhandler \in [pos : Nat, bound : BOOLEAN, half : BOOLEAN]
  BY Entries DEF Basics, Shaped
<1>1. ASSUME NEW m, Notes(m), raw' = raw, tables' = tables, delivered' = delivered, requests' = requests,
             fhandler' \in [pos : Nat, bound : BOOLEAN, half : BOOLEAN],
             fhandler'.pos \in 0 .. Len(incoming), apos' \in 0 .. Len(incoming),
             process' = process, raced' = raced
      PROVE  Basics'
  <2>1. /\ followers' \in Seq(Events) /\ tpos' \in 0 .. Len(followers')
        /\ \A i \in 1 .. Len(followers') : followers'[i].mid <= Len(incoming) /\ followers'[i].names <= Len(raw)
        /\ Told'
    BY <1>1, BasicsNotes
  <2>2. incoming' = incoming
    BY <1>1 DEF Notes
  <2>3. Shaped'
    BY <1>0, <1>1, <2>1, <2>2 DEF Shaped
  <2>4. Bounded' /\ Arrived' /\ Sent'
    BY <1>1, <2>1, <2>2 DEF Basics, Bounded, Topical, Arrived, Sent
  <2> QED BY <2>1, <2>3, <2>4 DEF Basics, Topical
<1>2. ASSUME fhandler.pos < Len(incoming), fhandler' = Done
      PROVE  /\ fhandler' \in [pos : Nat, bound : BOOLEAN, half : BOOLEAN]
             /\ fhandler'.pos \in 0 .. Len(incoming)
  BY <1>0, <1>2 DEF Done
<1>3. CASE AcceptFollower
  <2>1. fhandler' \in [pos : Nat, bound : BOOLEAN, half : BOOLEAN] /\ fhandler'.pos = fhandler.pos
    BY <1>0, <1>3 DEF AcceptFollower
  <2> QED BY <1>0, <1>1, <1>3, <2>1, HandlerSteps DEF AcceptFollower
<1>4. CASE DropFollower
  <2>1. fhandler' = Done /\ fhandler.pos < Len(incoming)
    BY <1>4 DEF DropFollower, HasNext
  <2> QED BY <1>0, <1>1, <1>2, <1>4, <2>1, HandlerSteps DEF DropFollower
<1>5. CASE AnswerFollow
  <2>1. PICK m \in 1 .. Len(incoming) : m = fhandler.pos + 1
    BY <1>0, <1>5 DEF AnswerFollow, HasNext
  <2>2. incoming[m].verb = "Follow" /\ incoming[m].edge \in Edges /\ incoming[m].of \in Nat
    BY <1>0, <1>5, <2>1, Entries, ActivityParts DEF HalfWay, AnswerFollow
  <2>3. incoming[m].edge[2] \in Locals /\ incoming[m].of <= Len(raw)
    BY <2>2 DEF Basics, Topical, Arrived, Bounded, Answers
  <2> DEFINE s == Raw("Accept", incoming[m].edge, m, incoming[m].of)
  <2>4. s \in Messages /\ s.verb = "Accept" /\ s.edge = incoming[m].edge /\ s.mid = m /\ s.names = incoming[m].of
    BY <2>2, MessageParts
  <2>5. raw' = raw \/ raw' = Append(raw, s)
    BY <1>5, <2>1, PublishedIs DEF AnswerFollow, Next1
  <2>6. s.mid <= Len(incoming) /\ s.names <= Len(raw) /\ s.names <= Len(raw) + 1
    BY <1>0, <2>2, <2>3, <2>4
  <2> HIDE DEF s
  <2>7. /\ raw' \in Seq(Messages) /\ Len(raw) <= Len(raw')
        /\ \A i \in 1 .. Len(raw') : raw'[i].mid <= Len(incoming) /\ raw'[i].names <= Len(raw')
        /\ Sent'
    BY <2>3, <2>4, <2>5, <2>6, MessageStep
  <2>8. Len(raw') \in Nat
    BY <2>7
  <2>9. Shaped'
    BY <1>0, <1>2, <1>5, <2>7, <2>8 DEF Shaped, AnswerFollow, HasNext
  <2>10. Bounded'
    <3>1. \A n \in 1 .. Len(incoming) : incoming[n].of <= Len(raw) /\ incoming[n].of \in Nat
      BY Entries, ActivityParts DEF Basics, Bounded
    <3>2. \A i \in 1 .. Len(followers) : followers[i].names <= Len(raw) /\ followers[i].names \in Nat
      BY Entries, EventParts DEF Basics, Bounded
    <3>3. \A q \in requests : q.names <= Len(raw) /\ q.names \in Nat
      BY RequestParts DEF Basics, Bounded, Shaped
    <3>4. \A f \in Edges : table[f].names <= Len(raw) /\ table[f].names \in Nat
      BY RowParts DEF Basics, Bounded, Shaped
    <3>5. UNCHANGED <<incoming, followers, requests, table>>
      BY <1>5 DEF AnswerFollow
    <3>6. \A n \in Nat : n <= Len(raw) => n <= Len(raw')
      BY <1>0, <2>7, <2>8
    <3> QED BY <3>1, <3>2, <3>3, <3>4, <3>5, <3>6, <2>7 DEF Basics, Bounded
  <2>11. Arrived' /\ Told'
    BY <1>5 DEF AnswerFollow, Basics, Topical, Arrived, Told, Records, FromUser
  <2> QED BY <2>7, <2>9, <2>10, <2>11 DEF Basics, Topical
<1>6. ASSUME UNCHANGED <<incoming, followers, raw, delivered, requests, table, tpos, restarts, raced>>,
             up' \in BOOLEAN, apos' \in 0 .. Len(incoming),
             fhandler' \in [pos : Nat, bound : BOOLEAN, half : BOOLEAN],
             fhandler'.pos \in 0 .. Len(incoming)
      PROVE  Basics'
  <2>1. Shaped'
    BY <1>6 DEF Basics, Shaped
  <2>2. Bounded' /\ Arrived' /\ Sent' /\ Told'
    BY <1>6 DEF Basics, Bounded, Topical, Arrived, Sent, Told, Records, FromUser
  <2> QED BY <2>1, <2>2 DEF Basics, Topical
<1>7. CASE Ignore
  <2>1. fhandler' = Done /\ fhandler.pos < Len(incoming)
    BY <1>7 DEF Ignore, HasNext
  <2> QED BY <1>0, <1>2, <1>6, <1>7, <2>1 DEF Ignore, Basics, Shaped
<1>8. CASE Unbound
  BY <1>0, <1>6, <1>8 DEF Unbound
<1>9. CASE AcceptHandler
  <2>1. apos' \in 0 .. Len(incoming)
    BY <1>0, <1>9 DEF AcceptHandler
  <2>2. ASSUME Notes(apos + 1) PROVE Basics'
    BY <1>0, <1>1, <1>9, <2>1, <2>2 DEF AcceptHandler
  <2>3. ASSUME followers' = followers PROVE Basics'
    BY <1>0, <1>6, <1>9, <2>1, <2>3 DEF AcceptHandler, Basics, Shaped
  <2> QED BY <1>0, <1>9, <2>2, <2>3, HandlerSteps
<1> QED BY <1>3, <1>4, <1>5, <1>7, <1>8, <1>9

LEMMA RowIsRow ==
  ASSUME NEW row \in Rows, NEW f \in Events
  PROVE  /\ Row(row, f) \in Rows
         /\ Row(row, f).names \in {0, row.names, f.names}
         /\ Row(row, f).state = StateOf(f.type)
         /\ f.type \in {"requested", "accepted"} =>
              Row(row, f).names = IF f.names # 0 THEN f.names ELSE row.names
         /\ f.type \notin {"requested", "accepted"} => Row(row, f).names = 0
  BY RowParts, EventParts DEF Row, NoRow, StateOf, Types

LEMMA BasicsProject ==
  ASSUME Basics, ProjectFollows
  PROVE  Basics'
<1> USE DEF ProjectFollows, topics, process
<1>1. PICK i \in 1 .. Len(followers) : i = tpos + 1 /\ tpos' = i
  BY DEF Basics, Shaped
<1>2. followers[i] \in Events /\ followers[i].edge \in Edges
  BY Entries, EventParts DEF Basics
<1>3. PICK row : row = Row(table[followers[i].edge], followers[i])
  OBVIOUS
<1>4. table' = [table EXCEPT ![followers[i].edge] = row]
  BY <1>1, <1>3
<1>5. table[followers[i].edge] \in Rows
  BY <1>2 DEF Basics, Shaped
<1>6. row \in Rows /\ row.names \in {0, table[followers[i].edge].names, followers[i].names}
  BY <1>2, <1>3, <1>5, RowIsRow
<1>7. table' \in [Edges -> Rows]
  BY <1>2, <1>4, <1>6 DEF Basics, Shaped
<1>8. row.names <= Len(raw)
  BY <1>2, <1>6, Entries DEF Basics, Bounded
<1>9. \A e \in Edges : table'[e].names <= Len(raw)
  BY <1>4, <1>8 DEF Basics, Bounded, Shaped
<1>10. Shaped'
  BY <1>1, <1>7 DEF Basics, Shaped
<1>11. Bounded' /\ Arrived' /\ Sent' /\ Told'
  BY <1>9 DEF Basics, Bounded, Topical, Arrived, Sent, Told, Records, FromUser
<1> QED BY <1>10, <1>11 DEF Basics, Topical

LEMMA BasicsRestart ==
  ASSUME Basics, Restart
  PROVE  Basics'
<1> USE DEF Restart, Reset, topics
<1>1. table' \in [Edges -> Rows] /\ \A e \in Edges : table'[e].names = 0
  BY RowParts DEF NoRow
<1>2. /\ fhandler' \in [pos : Nat, bound : BOOLEAN, half : BOOLEAN] /\ fhandler'.pos = 0 /\ apos' = 0
      /\ tpos' = 0 /\ requests' = {} /\ up' = TRUE
  BY DEF Started
<1>3. raced' \subseteq Edges
  BY RequestParts DEF Basics, Shaped
<1>4. restarts' \in 0 .. MaxRestarts
  BY HandshakeAssumption DEF Basics, Shaped
<1>5. Shaped'
  BY <1>1, <1>2, <1>3, <1>4, Entries DEF Basics, Shaped
<1>6. Bounded'
  BY <1>1, <1>2, Entries DEF Basics, Bounded
<1>7. Arrived' /\ Sent' /\ Told'
  BY DEF Basics, Topical, Arrived, Sent, Told, Records, FromUser
<1> QED BY <1>5, <1>6, <1>7 DEF Basics, Topical

-----------------------------------------------------------------------------
(* Orderly: what is recorded, and how far the handlers are. *)
LEMMA MidsAreArrived ==
  ASSUME Basics
  PROVE  \A i \in 1 .. Len(followers) : followers[i].mid # 0 => followers[i].mid \in 1 .. Len(incoming)
<1>1. \A i \in 1 .. Len(followers) : followers[i].mid \in Nat /\ followers[i].mid <= Len(incoming)
  BY Entries, EventParts DEF Basics, Bounded
<1> QED BY <1>1

\* More activities change nothing of what is recorded.
LEMMA OrderlyArrival ==
  ASSUME Basics, Orderly, NEW a \in Activities, Arrival(a)
  PROVE  Orderly'
<1> USE DEF Arrival, tables, process
<1>0. incoming \in Seq(Activities) /\ Len(incoming) \in Nat /\ Len(followers) \in Nat
      /\ fhandler.pos \in 0 .. Len(incoming) /\ apos \in 0 .. Len(incoming)
  BY Entries DEF Basics, Shaped
<1>1. /\ Len(incoming') = Len(incoming) + 1
      /\ \A m \in 1 .. Len(incoming) : incoming'[m] = incoming[m]
  BY <1>0, Appended
<1>2. \A i \in 1 .. Len(followers) : followers[i].mid # 0 => followers[i].mid \in 1 .. Len(incoming)
  BY MidsAreArrived
<1>3. HalfWay'
  BY <1>0, <1>1 DEF Orderly, HalfWay
<1>4. Handled'
  <2>1. \A m : IsRecorded(m)' <=> IsRecorded(m)
    BY DEF IsRecorded
  <2>2. \A m \in 1 .. Len(incoming') : m \in 1 .. Len(incoming) \/ m = Len(incoming) + 1
    BY <1>0, <1>1
  <2>3. fhandler.half => fhandler.pos < Len(incoming)
    BY DEF Orderly, HalfWay
  <2>4. ASSUME NEW m \in 1 .. Len(incoming'), m <= fhandler.pos \/ (fhandler.half /\ m = fhandler.pos + 1),
               incoming'[m].verb \in Changes
        PROVE  IsRecorded(m)
    <3>1. m \in 1 .. Len(incoming)
      BY <1>0, <2>2, <2>3, <2>4
    <3> QED BY <1>1, <2>4, <3>1 DEF Orderly, Handled
  <2>5. ASSUME NEW m \in 1 .. Len(incoming'), m <= apos, incoming'[m].verb \in Answers
        PROVE  IsRecorded(m)
    <3>1. m \in 1 .. Len(incoming)
      BY <1>0, <2>2, <2>5
    <3> QED BY <1>1, <2>5, <3>1 DEF Orderly, Handled
  <2> QED BY <2>1, <2>4, <2>5 DEF Handled
<1>5. ASSUME NEW verbs, InOrder(verbs)
      PROVE  InOrder(verbs)'
  <2>1. RecordsOf(verbs)' = RecordsOf(verbs)
    BY <1>1, <1>2 DEF RecordsOf
  <2>2. ASSUME NEW i \in RecordsOf(verbs), NEW m \in 1 .. Len(incoming'), m < followers[i].mid,
               incoming'[m].verb \in verbs
        PROVE  IsRecorded(m)
    <3>1. followers[i].mid \in 1 .. Len(incoming)
      BY <1>2 DEF RecordsOf
    <3>2. m \in 1 .. Len(incoming)
      BY <1>0, <1>1, <2>2, <3>1
    <3> QED BY <1>1, <1>5, <2>2, <3>2 DEF InOrder
  <2> QED BY <1>5, <2>1, <2>2 DEF InOrder, IsRecorded
<1> QED BY <1>3, <1>4, <1>5 DEF Orderly

\* Nor do events that record nothing.
LEMMA OrderlyTold ==
  ASSUME Basics, Orderly, NEW f \in Events, f.mid = 0, followers' = Append(followers, f),
         incoming' = incoming, fhandler' = fhandler, apos' = apos
  PROVE  Orderly'
<1>0. followers \in Seq(Events) /\ Len(followers) \in Nat /\ Len(incoming) \in Nat
  BY Entries DEF Basics, Shaped
<1>1. /\ Len(followers') = Len(followers) + 1 /\ followers'[Len(followers) + 1] = f
      /\ \A i \in 1 .. Len(followers) : followers'[i] = followers[i]
  BY <1>0, Appended
<1>2. \A i \in 1 .. Len(followers') : i \in 1 .. Len(followers) \/ i = Len(followers) + 1
  BY <1>0, <1>1
<1>3. 1 .. Len(followers) \subseteq 1 .. Len(followers')
  BY <1>0, <1>1
<1>4. \A m : IsRecorded(m) => IsRecorded(m)'
  BY <1>1, <1>3 DEF IsRecorded
<1>5. HalfWay'
  BY DEF Orderly, HalfWay
<1>6. Handled'
  BY <1>4 DEF Orderly, Handled
<1>7. ASSUME NEW verbs, InOrder(verbs)
      PROVE  InOrder(verbs)'
  <2>1. RecordsOf(verbs)' = RecordsOf(verbs)
    BY <1>1, <1>2, <1>3 DEF RecordsOf
  <2>2. \A i \in RecordsOf(verbs) : followers'[i] = followers[i]
    BY <1>1 DEF RecordsOf
  <2> QED BY <1>4, <1>7, <2>1, <2>2 DEF InOrder
<1> QED BY <1>5, <1>6, <1>7 DEF Orderly

\* A handler notes the next of its activities, unless it was noted before the restart.
LEMMA OrderNotes ==
  ASSUME Basics, NEW m, Notes(m), NEW verbs, InOrder(verbs),
         incoming[m].verb \in verbs => \A n \in 1 .. m - 1 : incoming[n].verb \in verbs => IsRecorded(n)
  PROVE  InOrder(verbs)' /\ IsRecorded(m)' /\ \A n : IsRecorded(n) => IsRecorded(n)'
<1>0. followers \in Seq(Events) /\ Len(followers) \in Nat /\ Len(incoming) \in Nat
      /\ m \in 1 .. Len(incoming) /\ incoming' = incoming
  BY Entries DEF Basics, Shaped, Notes
<1>1. Note(m) \in Events /\ Note(m).mid = m
  BY NoteParts DEF Basics, Notes
<1>2. CASE followers' = followers /\ IsRecorded(m)
  BY <1>0, <1>2 DEF InOrder, IsRecorded, RecordsOf
<1>3. CASE followers' = Append(followers, Note(m)) /\ ~IsRecorded(m)
  <2> DEFINE l == Len(followers) + 1
  <2>1. /\ Len(followers') = l /\ followers'[l] = Note(m)
        /\ \A i \in 1 .. Len(followers) : followers'[i] = followers[i]
    BY <1>0, <1>1, <1>3, Appended
  <2>2. \A i \in 1 .. Len(followers') : i \in 1 .. Len(followers) \/ i = l
    BY <1>0, <2>1
  <2>3. 1 .. Len(followers) \subseteq 1 .. Len(followers') /\ l \in 1 .. Len(followers') /\ l \notin 1 .. Len(followers)
    BY <1>0, <2>1
  <2>4. (\A n : IsRecorded(n) => IsRecorded(n)') /\ IsRecorded(m)'
    BY <1>1, <2>1, <2>3 DEF IsRecorded
  <2>5. \A i \in RecordsOf(verbs)' : \/ i \in RecordsOf(verbs) /\ followers'[i] = followers[i]
                                     \/ i = l /\ incoming[m].verb \in verbs
    BY <1>0, <1>1, <2>1, <2>2 DEF RecordsOf
  <2>6. \A i \in RecordsOf(verbs) : /\ i \in 1 .. Len(followers) /\ followers[i].mid # m
                                    /\ followers[i].mid \in 1 .. Len(incoming)
    BY <1>3, MidsAreArrived DEF RecordsOf, IsRecorded
  <2>7. incoming[m].verb \in verbs => \A i \in RecordsOf(verbs) : followers[i].mid < m
    <3>1. SUFFICES ASSUME incoming[m].verb \in verbs, NEW i \in RecordsOf(verbs), m < followers[i].mid
                   PROVE  FALSE
      BY <1>0, <2>6
    <3>2. IsRecorded(m)
      BY <1>0, <3>1 DEF InOrder
    <3> QED BY <1>3, <3>2
  <2>8. ASSUME NEW i \in RecordsOf(verbs)', NEW j \in RecordsOf(verbs)', i < j
        PROVE  followers'[i].mid < followers'[j].mid
    <3>1. i # l
      BY <1>0, <2>5, <2>6, <2>8
    <3>2. i \in RecordsOf(verbs) /\ followers'[i] = followers[i]
      BY <2>5, <3>1
    <3>3. CASE j = l
      BY <1>1, <2>1, <2>5, <2>6, <2>7, <3>2, <3>3
    <3>4. CASE j \in RecordsOf(verbs) /\ followers'[j] = followers[j]
      BY <2>8, <3>2, <3>4 DEF InOrder
    <3> QED BY <2>5, <3>3, <3>4
  <2>9. ASSUME NEW i \in RecordsOf(verbs)', NEW n \in 1 .. Len(incoming),
               n < followers'[i].mid, incoming[n].verb \in verbs
        PROVE  IsRecorded(n)
    <3>1. CASE i \in RecordsOf(verbs) /\ followers'[i] = followers[i]
      BY <2>9, <3>1 DEF InOrder
    <3>2. CASE i = l /\ incoming[m].verb \in verbs
      <4>1. n \in 1 .. m - 1
        BY <1>0, <1>1, <2>1, <2>9, <3>2
      <4> QED BY <2>9, <3>2, <4>1
    <3> QED BY <2>5, <3>1, <3>2
  <2> QED BY <1>0, <2>4, <2>8, <2>9 DEF InOrder
<1> QED BY <1>2, <1>3, NotesAppends DEF Basics

LEMMA OrderlyHandlers ==
  ASSUME Basics, Orderly,
         AcceptFollower \/ AnswerFollow \/ DropFollower \/ Ignore \/ Unbound \/ AcceptHandler
  PROVE  Orderly'
<1> USE DEF handlerOnly
<1>0. /\ Shaped /\ Len(incoming) \in Nat /\ fhandler.pos \in 0 .. Len(incoming) /\ apos \in 0 .. Len(incoming)
      /\ fhandler \in [pos : Nat, bound : BOOLEAN, half : BOOLEAN]
  BY Entries DEF Basics, Shaped
<1>1. Changes \cap Answers = {} /\ HalfWay /\ Handled /\ InOrder(Changes) /\ InOrder(Answers)
  BY DEF Changes, Answers, Orderly
<1>2. PICK p \in 0 .. Len(incoming) : p = fhandler.pos
  BY <1>0
<1>3. PICK m : m = p + 1
  OBVIOUS
\* The Follows and Undos up to p, and the answers up to apos, are and stay recorded.
<1>4. \A n \in 1 .. Len(incoming) : n <= p /\ incoming[n].verb \in Changes => IsRecorded(n)
  BY <1>1, <1>2 DEF Handled
<1>5. \A n \in 1 .. Len(incoming) : n <= apos /\ incoming[n].verb \in Answers => IsRecorded(n)
  BY <1>1 DEF Handled
<1>6. ASSUME Notes(m), incoming[m].verb \in Changes
      PROVE  InOrder(Changes)' /\ InOrder(Answers)' /\ IsRecorded(m)' /\ \A n : IsRecorded(n) => IsRecorded(n)'
  <2>1. \A n \in 1 .. m - 1 : incoming[n].verb \in Changes => IsRecorded(n)
    BY <1>0, <1>2, <1>3, <1>4
  <2>2. InOrder(Changes)' /\ IsRecorded(m)' /\ \A n : IsRecorded(n) => IsRecorded(n)'
    BY <1>1, <1>6, <2>1, OrderNotes
  <2>3. InOrder(Answers)'
    BY <1>1, <1>6, OrderNotes
  <2> QED BY <2>2, <2>3
\* follow_handler is done with m.
<1>7. ASSUME p < Len(incoming), incoming' = incoming, apos' = apos,
             fhandler'.pos = m, fhandler'.half = FALSE,
             \A n : IsRecorded(n) => IsRecorded(n)',
             incoming[m].verb \in Changes => IsRecorded(m)'
      PROVE  HalfWay' /\ Handled'
  <2>1. HalfWay'
    BY <1>7 DEF HalfWay
  <2>2. ASSUME NEW n \in 1 .. Len(incoming), n <= m, incoming[n].verb \in Changes
        PROVE  IsRecorded(n)'
    <3>1. n <= p \/ n = m
      BY <1>0, <1>2, <1>3, <2>2
    <3>2. CASE n <= p
      BY <1>4, <1>7, <2>2, <3>2
    <3>3. CASE n = m
      BY <1>7, <2>2, <3>3
    <3> QED BY <3>1, <3>2, <3>3
  <2>3. ASSUME NEW n \in 1 .. Len(incoming), n <= apos, incoming[n].verb \in Answers
        PROVE  IsRecorded(n)'
    BY <1>5, <1>7, <2>3
  <2> QED BY <1>7, <2>1, <2>2, <2>3 DEF Handled
<1>8. ASSUME p < Len(incoming), fhandler' = Done
      PROVE  fhandler'.pos = m /\ fhandler'.half = FALSE
  BY <1>2, <1>3, <1>8 DEF Done
<1>9. CASE AcceptFollower
  <2>1. Notes(m) /\ incoming[m].verb = "Follow" /\ p < Len(incoming)
    BY <1>0, <1>2, <1>3, <1>9, HandlerSteps DEF AcceptFollower, HasNext
  <2>2. InOrder(Changes)' /\ InOrder(Answers)' /\ IsRecorded(m)' /\ \A n : IsRecorded(n) => IsRecorded(n)'
    BY <1>6, <2>1 DEF Changes
  <2>3. fhandler'.pos = p /\ fhandler'.half = TRUE /\ incoming' = incoming /\ apos' = apos
    BY <1>0, <1>2, <1>9 DEF AcceptFollower
  <2>4. HalfWay'
    BY <1>3, <2>1, <2>3 DEF HalfWay
  <2>5. ASSUME NEW n \in 1 .. Len(incoming), n <= p \/ n = m, incoming[n].verb \in Changes
        PROVE  IsRecorded(n)'
    BY <1>4, <2>2, <2>5
  <2>6. ASSUME NEW n \in 1 .. Len(incoming), n <= apos, incoming[n].verb \in Answers
        PROVE  IsRecorded(n)'
    BY <1>5, <2>2, <2>6
  <2>7. Handled'
    BY <1>3, <2>3, <2>5, <2>6 DEF Handled
  <2> QED BY <2>2, <2>4, <2>7 DEF Orderly
<1>10. CASE DropFollower
  <2>1. Notes(m) /\ incoming[m].verb = "Undo" /\ p < Len(incoming)
    BY <1>0, <1>2, <1>3, <1>10, HandlerSteps DEF DropFollower, HasNext
  <2>2. InOrder(Changes)' /\ InOrder(Answers)' /\ IsRecorded(m)' /\ \A n : IsRecorded(n) => IsRecorded(n)'
    BY <1>6, <2>1 DEF Changes
  <2>3. fhandler' = Done /\ incoming' = incoming /\ apos' = apos
    BY <1>10 DEF DropFollower
  <2> QED BY <1>7, <1>8, <2>1, <2>2, <2>3 DEF Orderly
<1>11. ASSUME followers' = followers, incoming' = incoming
       PROVE  InOrder(Changes)' /\ InOrder(Answers)' /\ \A n : IsRecorded(n) => IsRecorded(n)'
  BY <1>1, <1>11 DEF InOrder, IsRecorded, RecordsOf
<1>12. CASE AnswerFollow
  <2>1. fhandler' = Done /\ incoming' = incoming /\ apos' = apos /\ followers' = followers
        /\ fhandler.half = TRUE /\ p < Len(incoming)
    BY <1>0, <1>2, <1>12 DEF AnswerFollow, HasNext
  <2>2. m \in 1 .. Len(incoming)
    BY <1>0, <1>2, <1>3, <2>1
  <2>3. incoming[m].verb \in Changes => IsRecorded(m)
    BY <1>1, <1>2, <1>3, <2>1, <2>2 DEF Handled
  <2> QED BY <1>7, <1>8, <1>11, <2>1, <2>3 DEF Orderly
<1>13. CASE Ignore
  <2>1. fhandler' = Done /\ incoming' = incoming /\ apos' = apos /\ followers' = followers /\ p < Len(incoming)
    BY <1>2, <1>13 DEF Ignore, HasNext
  <2>2. incoming[m].verb \notin Changes
    BY <1>2, <1>3, <1>13 DEF Ignore, Next1, Changes
  <2> QED BY <1>7, <1>8, <1>11, <2>1, <2>2 DEF Orderly
<1>14. CASE Unbound
  BY <1>14 DEF Unbound, topics, Orderly, HalfWay, Handled, InOrder, IsRecorded, RecordsOf
<1>15. CASE AcceptHandler
  <2>1. PICK b : b = apos + 1
    OBVIOUS
  <2>2. /\ apos < Len(incoming) /\ apos' = b /\ incoming' = incoming /\ fhandler' = fhandler
        /\ b \in 1 .. Len(incoming)
    BY <1>0, <1>15, <2>1 DEF AcceptHandler
  <2>3. /\ InOrder(Changes)' /\ InOrder(Answers)' /\ \A n : IsRecorded(n) => IsRecorded(n)'
        /\ incoming[b].verb \in Answers => IsRecorded(b)'
    <3>1. CASE Notes(b) /\ incoming[b].verb \in Answers
      <4>1. \A n \in 1 .. b - 1 : incoming[n].verb \in Answers => IsRecorded(n)
        BY <1>0, <1>5, <2>1, <2>2
      <4>2. InOrder(Answers)' /\ IsRecorded(b)' /\ \A n : IsRecorded(n) => IsRecorded(n)'
        BY <1>1, <3>1, <4>1, OrderNotes
      <4>3. InOrder(Changes)'
        BY <1>1, <3>1, OrderNotes
      <4> QED BY <4>2, <4>3
    <3>2. CASE followers' = followers /\ incoming[b].verb \notin Answers
      BY <1>11, <2>2, <3>2
    <3> QED BY <1>0, <1>15, <2>1, <3>1, <3>2, HandlerSteps
  <2>4. HalfWay'
    BY <1>1, <2>2 DEF HalfWay
  <2>5. ASSUME NEW n \in 1 .. Len(incoming), n <= p \/ (fhandler.half /\ n = m), incoming[n].verb \in Changes
        PROVE  IsRecorded(n)'
    <3>1. IsRecorded(n)
      BY <1>1, <1>2, <1>3, <2>5 DEF Handled
    <3> QED BY <2>3, <3>1
  <2>6. ASSUME NEW n \in 1 .. Len(incoming), n <= b, incoming[n].verb \in Answers
        PROVE  IsRecorded(n)'
    <3>1. n <= apos \/ n = b
      BY <1>0, <2>1, <2>6
    <3> QED BY <1>5, <2>3, <2>6, <3>1
  <2>7. Handled'
    BY <1>2, <1>3, <2>2, <2>5, <2>6 DEF Handled
  <2> QED BY <2>3, <2>4, <2>7 DEF Orderly
<1> QED BY <1>9, <1>10, <1>12, <1>13, <1>14, <1>15

\* A restart forgets how far the handlers were; what is recorded stays.
LEMMA OrderlyRestart ==
  ASSUME Basics, Orderly, Restart
  PROVE  Orderly'
<1>1. /\ fhandler' = Started /\ apos' = 0 /\ followers' = followers /\ incoming' = incoming
  BY DEF Restart, Reset, topics
<1>2. Started.pos = 0 /\ Started.half = FALSE
  BY DEF Started
<1>3. HalfWay' /\ Handled'
  BY <1>1, <1>2, Entries DEF HalfWay, Handled, Basics
<1>4. InOrder(Changes)' /\ InOrder(Answers)'
  BY <1>1 DEF Orderly, InOrder, IsRecorded, RecordsOf
<1> QED BY <1>3, <1>4 DEF Orderly

LEMMA OrderlyKept ==
  ASSUME Orderly, UNCHANGED <<incoming, followers, fhandler, apos>>
  PROVE  Orderly'
  BY DEF Orderly, HalfWay, Handled, InOrder, IsRecorded, RecordsOf

-----------------------------------------------------------------------------
(* Reading: the table of the API. *)
LEMMA ReadingKept ==
  ASSUME Basics, Reading, tpos' = tpos, table' = table,
         followers' = followers \/ \E f \in Events : followers' = Append(followers, f)
  PROVE  Reading'
<1>0. followers \in Seq(Events) /\ Len(followers) \in Nat /\ tpos \in 0 .. Len(followers)
  BY Entries DEF Basics, Shaped
<1>1. \A i \in 1 .. Len(followers) : followers'[i] = followers[i]
  BY <1>0, Appended
<1>2. \A i \in 1 .. tpos : followers'[i] = followers[i]
  BY <1>0, <1>1
<1>3. \A e : Read(e)' = Read(e) /\ Decided(e)' = Decided(e)
  BY <1>2 DEF Read, Decided
<1>4. ASSUME NEW e \in Edges PROVE RowIsRead(e)'
  BY <1>2, <1>3 DEF Reading, RowIsRead, IsLast
<1> QED BY <1>4 DEF Reading

LEMMA ReadingProject ==
  ASSUME Basics, Reading, ProjectFollows
  PROVE  Reading'
<1> USE DEF ProjectFollows, topics
<1>1. PICK i \in 1 .. Len(followers) : i = tpos + 1 /\ tpos' = i
  BY DEF Basics, Shaped
<1>2. PICK f \in Events : f = followers[i]
  BY Entries DEF Basics
<1>3. PICK row \in Rows : row = table[f.edge]
  BY <1>2, EventParts DEF Basics, Shaped
<1>4. PICK new : new = Row(row, f)
  OBVIOUS
<1>5. /\ new.state = StateOf(f.type)
      /\ f.type \in {"requested", "accepted"} => new.names = IF f.names # 0 THEN f.names ELSE row.names
      /\ f.type \notin {"requested", "accepted"} => new.names = 0
  BY <1>4, RowIsRow
<1>6. table' = [table EXCEPT ![f.edge] = new]
  BY <1>1, <1>2, <1>3, <1>4
<1>7. f.edge \in Edges /\ f.type \in Types /\ (f.names # 0 <=> f.type = "requested")
  BY <1>2, EventParts DEF Basics, Topical, Told
<1>8. /\ \A j \in 1 .. tpos' : j \in 1 .. tpos \/ j = i
      /\ 1 .. tpos \subseteq 1 .. tpos' /\ i \in 1 .. tpos' /\ \A j \in 1 .. tpos : j <= i /\ j # i
      /\ tpos \in Nat /\ i \in Nat
  BY <1>1 DEF Basics, Shaped
<1>9. ASSUME NEW e \in Edges, e # f.edge PROVE RowIsRead(e)'
  <2>1. Read(e)' = Read(e) /\ Decided(e)' = Decided(e)
    BY <1>2, <1>8, <1>9 DEF Read, Decided
  <2>2. table'[e] = table[e]
    BY <1>6, <1>9 DEF Basics, Shaped
  <2>3. RowIsRead(e)
    BY DEF Reading
  <2>4. \A j : IsLast(j, Read(e)) => j \in 1 .. tpos
    BY DEF IsLast, Read
  <2>5. \A j : IsLast(j, Decided(e)) => j \in 1 .. tpos
    BY DEF IsLast, Decided, Read
  <2> QED BY <2>1, <2>2, <2>3, <2>4, <2>5 DEF RowIsRead, IsLast
<1>10. RowIsRead(f.edge)'
  <2>1. PICK e \in Edges : e = f.edge
    BY <1>7
  <2>2. table'[e] = new
    BY <1>6, <2>1 DEF Basics, Shaped
  <2>3. Read(e)' = Read(e) \cup {i}
    BY <1>2, <1>8, <2>1 DEF Read
  <2>4. \A j : IsLast(j, Read(e)') => j = i
    <3>1. \A j \in Read(e)' : j <= i /\ j \in Nat
      BY <1>8, <2>3 DEF Read
    <3>2. i \in Read(e)'
      BY <2>3
    <3> QED BY <1>8, <3>1, <3>2 DEF IsLast
  <2>5. \A j : IsLast(j, Read(e)') => table'[e].state = StateOf(followers[j].type)
    BY <1>2, <1>5, <2>2, <2>4
  <2>6. Read(e)' # {}
    BY <2>3
  <2>7. CASE f.type = "accepted"
    <3>1. Decided(e)' = Decided(e)
      BY <1>2, <1>8, <2>3, <2>7 DEF Decided
    <3>2. new.names = table[e].names
      BY <1>3, <1>5, <1>7, <2>1, <2>7
    <3>3. RowIsRead(e)
      BY DEF Reading
    <3>4. \A j : IsLast(j, Decided(e)) => j \in 1 .. tpos
      BY DEF IsLast, Decided, Read
    <3>5. Decided(e)' = {} => table'[e].names = 0
      BY <2>2, <3>1, <3>2, <3>3 DEF RowIsRead
    <3>6. \A j : IsLast(j, Decided(e)') => table'[e].names = followers[j].names
      BY <2>2, <3>1, <3>2, <3>3, <3>4 DEF RowIsRead
    <3>7. RowIsRead(e)'
      BY <2>5, <2>6, <3>5, <3>6 DEF RowIsRead, IsLast
    <3> QED BY <2>1, <3>7
  <2>8. CASE f.type # "accepted"
    <3>1. i \in Decided(e)'
      BY <1>2, <2>3, <2>8 DEF Decided
    <3>2. \A j \in Decided(e)' : j <= i /\ j \in Nat
      BY <1>8, <2>3 DEF Decided, Read
    <3>3. \A j : IsLast(j, Decided(e)') => j = i
      BY <1>8, <3>1, <3>2 DEF IsLast
    <3>4. new.names = f.names
      BY <1>5, <1>7, <2>8 DEF Types
    <3>5. \A j : IsLast(j, Decided(e)') => table'[e].names = followers[j].names
      BY <1>2, <2>2, <3>3, <3>4
    <3>6. RowIsRead(e)'
      BY <2>5, <2>6, <3>1, <3>5 DEF RowIsRead, IsLast
    <3> QED BY <2>1, <3>6
  <2> QED BY <2>7, <2>8
<1> QED BY <1>9, <1>10 DEF Reading

LEMMA ReadingRestart ==
  ASSUME Restart
  PROVE  Reading'
<1>1. tpos' = 0 /\ table' = [e \in Edges |-> NoRow]
  BY DEF Restart, Reset
<1>2. ASSUME NEW e \in Edges PROVE RowIsRead(e)'
  <2>1. Read(e)' = {} /\ Decided(e)' = {}
    BY <1>1 DEF Read, Decided
  <2>2. table'[e].state = "none" /\ table'[e].names = 0
    BY <1>1 DEF NoRow
  <2> QED BY <2>1, <2>2 DEF RowIsRead, IsLast
<1> QED BY <1>2 DEF Reading

-----------------------------------------------------------------------------
(* Asking: what users have asked for, and what of it is recorded. *)
LEMMA AskingArrival ==
  ASSUME Basics, Asking, NEW a \in Activities, Arrival(a)
  PROVE  Asking'
<1> USE DEF Arrival, Plausible
<1>0. incoming \in Seq(Activities) /\ Len(incoming) \in Nat
  BY Entries DEF Basics, Shaped
<1>1. /\ Len(incoming') = Len(incoming) + 1 /\ incoming'[Len(incoming) + 1] = a
      /\ \A m \in 1 .. Len(incoming) : incoming'[m] = incoming[m]
  BY <1>0, Appended
<1>2. raced \subseteq raced' /\ UNCHANGED <<raw, followers, requests>>
  OBVIOUS
<1>3. Pending'
  BY <1>2 DEF Asking, Pending, Asked, Says, IsLast
<1>4. ASSUME NEW e \in Edges PROVE Settled(e)'
  <2>1. Settled(e)
    BY DEF Asking
  <2>2. requests' = requests /\ raw' = raw /\ followers' = followers /\ (e \notin raced' => e \notin raced)
    BY <1>2
  <2> QED BY <2>1, <2>2 DEF Settled, Asked, Recorded, Says, IsLast
<1>5. Answerless'
  <2>1. SUFFICES ASSUME NEW q \in requests, q.type = "requested", Outward(q.edge), q.edge \notin raced',
                        NEW m \in 1 .. Len(incoming'), incoming'[m].edge = q.edge
                 PROVE  incoming'[m].of # q.names
    BY <1>2 DEF Answerless, Outward
  <2>2. CASE m \in 1 .. Len(incoming)
    BY <1>1, <1>2, <2>1, <2>2 DEF Asking, Answerless
  <2>3. CASE m = Len(incoming) + 1
    <3>1. a.edge = q.edge /\ q.edge \in Edges
      BY <1>1, <2>1, <2>3, RequestParts DEF Basics, Shaped
    <3>2. q.edge[2] \notin Locals
      BY <2>1, <3>1, EdgeEnds DEF Outward
    <3>3. a.verb \in Answers
      BY <3>1, <3>2
    <3> QED BY <2>1, <3>1, <3>3
  <2> QED BY <1>0, <1>1, <2>2, <2>3
<1>6. InTurn'
  <2>1. \A i \in 1 .. Len(followers) : followers[i].mid # 0 => followers[i].mid \in 1 .. Len(incoming)
    BY MidsAreArrived
  <2> QED BY <1>1, <1>2, <2>1 DEF Asking, InTurn, Outward
<1> QED BY <1>3, <1>4, <1>5, <1>6 DEF Asking

\* A request is the last that was sent on its edge; nothing else is under way.
LEMMA AskingAsks ==
  ASSUME Basics, Asking, NEW verb, NEW type, NEW e, NEW names, Asks(verb, type, e, names)
  PROVE  Asking'
<1> USE DEF Asks, Begin
<1> DEFINE s == Raw(verb, e, 0, names)
           q == [type |-> type, edge |-> e, names |-> names]
<1>0. raw \in Seq(Messages) /\ Len(raw) \in Nat
  BY Entries DEF Basics, Shaped
<1>k. PICK k : k = Len(raw) + 1
  OBVIOUS
<1>1. s \in Messages /\ s.verb = verb /\ s.edge = e
  BY MessageParts
<1>2. q.type = type /\ q.edge = e /\ q.names = names /\ requests = {} /\ requests' = {q}
  OBVIOUS
<1>3. /\ Len(raw') = k /\ raw'[k] = s /\ \A i \in 1 .. Len(raw) : raw'[i] = raw[i]
  BY <1>0, <1>1, <1>k, Appended
<1>4. /\ \A i \in 1 .. Len(raw') : i \in 1 .. Len(raw) \/ i = k
      /\ 1 .. Len(raw) \subseteq 1 .. Len(raw') /\ k \in 1 .. Len(raw')
      /\ \A i \in 1 .. Len(raw) : i <= k /\ i # k
  BY <1>0, <1>3, <1>k
<1> HIDE DEF s, q
<1>5. Pending'
  <2>1. k \in Asked(e)'
    BY <1>1, <1>3, <1>4 DEF Asked
  <2>2. \A i \in Asked(e)' : i <= k
    BY <1>0, <1>3, <1>k DEF Asked
  <2>3. Says(type, names, k)'
    BY <1>1, <1>3, <1>k DEF Says
  <2>4. IsLast(k, Asked(e))'
    BY <1>0, <2>1, <2>2 DEF IsLast
  <2>5. \E j \in 1 .. Len(raw') : IsLast(j, Asked(e))' /\ Says(type, names, j)'
    BY <1>3, <1>4, <2>3, <2>4
  <2>6. \A p \in requests' : p = q /\ p.edge = e /\ p.edge[1] \in Locals
    BY <1>2
  <2> QED BY <1>2, <2>5, <2>6 DEF Pending
<1>6. ASSUME NEW f \in Edges PROVE Settled(f)'
  <2>1. CASE f = e
    BY <1>2, <2>1 DEF Settled
  <2>2. CASE f # e
    <3>1. Asked(f)' = Asked(f)
      BY <1>1, <1>3, <1>4, <2>2 DEF Asked
    <3>2. Recorded(f)' = Recorded(f) /\ followers' = followers /\ raced' = raced
      BY DEF Recorded
    <3>3. Settled(f)
      BY DEF Asking
    <3>4. SUFFICES ASSUME f[1] \in Locals, f \notin raced
                   PROVE  /\ Asked(f) = {} => Recorded(f) = {}
                          /\ \A j \in 1 .. Len(raw') : IsLast(j, Asked(f)) =>
                               \E i \in 1 .. Len(followers) : /\ IsLast(i, Recorded(f))
                                                              /\ Says(followers[i].type, followers[i].names, j)'
      BY <3>1, <3>2 DEF Settled, IsLast, Says
    <3>5. \A j : IsLast(j, Asked(f)) => j \in 1 .. Len(raw)
      BY DEF IsLast, Asked
    <3> QED BY <1>2, <1>3, <3>3, <3>4, <3>5 DEF Settled, Says
  <2> QED BY <2>1, <2>2
<1>7. Answerless'
  <2>1. SUFFICES ASSUME type = "requested", NEW m \in 1 .. Len(incoming)
                 PROVE  incoming[m].of # names
    BY <1>2 DEF Answerless
  <2>2. names = k
    BY <1>k, <2>1
  <2>3. incoming[m].of <= Len(raw) /\ incoming[m].of \in Nat
    BY Entries, ActivityParts DEF Basics, Bounded
  <2> QED BY <1>0, <1>k, <2>2, <2>3
<1>8. InTurn'
  BY DEF Asking, InTurn, Outward
<1> QED BY <1>5, <1>6, <1>7, <1>8 DEF Asking

\* The second publish settles the edge.
LEMMA AskingRecord ==
  ASSUME Basics, Asking, NEW q \in requests, Record(q)
  PROVE  Asking'
<1> USE DEF Record
<1>0. followers \in Seq(Events) /\ Len(followers) \in Nat
  BY Entries DEF Basics, Shaped
<1>1. q.type \in Types /\ q.edge \in Edges /\ q.names \in Nat /\ q \in Requests
  BY RequestParts DEF Basics, Shaped
<1>2. PICK names \in Nat : names = IF q.type = "requested" THEN q.names ELSE 0
  BY <1>1
<1>3. PICK f \in Events : f = Event(q.type, q.edge, 0, names)
  BY <1>1, EventParts
<1>4. f.type = q.type /\ f.edge = q.edge /\ f.mid = 0 /\ f.names = names
  BY <1>1, <1>3, EventParts
<1>5. followers' = Append(followers, f)
  BY <1>2, <1>3
<1>6. PICK l : l = Len(followers) + 1
  OBVIOUS
<1>7. /\ Len(followers') = l /\ followers'[l] = f
      /\ \A i \in 1 .. Len(followers) : followers'[i] = followers[i]
  BY <1>0, <1>5, <1>6, Appended
<1>8. /\ \A i \in 1 .. Len(followers') : i \in 1 .. Len(followers) \/ i = l
      /\ 1 .. Len(followers) \subseteq 1 .. Len(followers') /\ l \in 1 .. Len(followers')
      /\ \A i \in 1 .. Len(followers') : i <= l
      /\ \A i \in 1 .. Len(followers) : i < l /\ i # l
  BY <1>0, <1>6, <1>7
<1>9. requests = {q} /\ requests' = {}
  BY DEF Asking, Pending
<1>10. PICK k \in 1 .. Len(raw) : IsLast(k, Asked(q.edge)) /\ Says(q.type, q.names, k)
  BY DEF Asking, Pending
<1>11. q.type \in {"requested", "deleted"}
  BY <1>10 DEF Says
<1>12. Pending' /\ Answerless'
  BY <1>9 DEF Pending, Answerless
<1>13. \A e : Asked(e)' = Asked(e)
  BY DEF Asked
<1>14. ASSUME NEW e \in Edges PROVE Settled(e)'
  <2>1. CASE e = q.edge
    <3>1. l \in Recorded(e)'
      BY <1>4, <1>7, <1>8, <1>11, <2>1 DEF Recorded
    <3>2. \A i \in Recorded(e)' : i <= l
      BY <1>8 DEF Recorded
    <3>3. IsLast(l, Recorded(e))'
      BY <3>1, <3>2 DEF IsLast
    <3>4. Asked(e) # {}
      BY <1>10, <2>1 DEF IsLast
    <3>5. ASSUME NEW j \in 1 .. Len(raw), IsLast(j, Asked(e)) PROVE j = k
      <4>1. Asked(e) \subseteq Int
        BY DEF Asked
      <4> QED BY <1>10, <2>1, <3>5, <4>1, OneLast
    <3>6. Says(f.type, f.names, k)
      BY <1>2, <1>4, <1>10 DEF Says
    <3>7. ASSUME NEW j \in 1 .. Len(raw), IsLast(j, Asked(e))
          PROVE  IsLast(l, Recorded(e))' /\ Says(followers'[l].type, followers'[l].names, j)
      BY <1>7, <3>3, <3>5, <3>6, <3>7
    <3> QED BY <1>8, <1>13, <3>4, <3>7 DEF Settled, IsLast, Says
  <2>2. CASE e # q.edge
    <3>1. Recorded(e)' = Recorded(e)
      BY <1>4, <1>7, <1>8, <2>2 DEF Recorded
    <3>2. (\A p \in requests : p.edge # e) /\ raced' = raced /\ raw' = raw
      BY <1>9, <2>2
    <3>3. Settled(e)
      BY DEF Asking
    <3>4. \A i : IsLast(i, Recorded(e)) => i \in 1 .. Len(followers)
      BY DEF IsLast, Recorded
    <3> QED BY <1>7, <1>8, <1>13, <3>1, <3>2, <3>3, <3>4 DEF Settled, IsLast, Says
  <2> QED BY <2>1, <2>2
<1>15. InTurn'
  <2>1. SUFFICES ASSUME NEW i \in 1 .. Len(followers'), NEW j \in 1 .. Len(followers'),
                        followers'[i].type = "requested", Outward(followers'[i].edge),
                        followers'[i].edge \notin raced, followers'[j].edge = followers'[i].edge,
                        followers'[j].mid # 0, incoming[followers'[j].mid].of = followers'[i].names
                 PROVE  i < j
    BY DEF InTurn, Outward
  <2>2. j # l
    BY <1>4, <1>7, <2>1
  <2>3. j \in 1 .. Len(followers) /\ followers'[j] = followers[j]
    BY <1>7, <1>8, <2>2
  <2>4. CASE i = l
    <3>1. f.type = "requested" /\ followers[j].edge = q.edge /\ incoming[followers[j].mid].of = names
      BY <1>4, <1>7, <2>1, <2>3, <2>4
    <3>2. names = q.names /\ q.type = "requested" /\ Outward(q.edge) /\ q.edge \notin raced
      BY <1>2, <1>4, <1>7, <2>1, <2>4, <3>1
    <3>3. followers[j].mid \in 1 .. Len(incoming)
      BY <2>1, <2>3, MidsAreArrived
    <3>4. incoming[followers[j].mid].edge = q.edge
      BY <2>1, <2>3, <3>1 DEF Basics, Topical, Told, Records
    <3> QED BY <3>1, <3>2, <3>3, <3>4 DEF Asking, Answerless
  <2>5. CASE i \in 1 .. Len(followers)
    BY <1>7, <2>1, <2>3, <2>5 DEF Asking, InTurn
  <2> QED BY <1>8, <2>4, <2>5
<1> QED BY <1>12, <1>14, <1>15 DEF Asking

\* Whatever else is recorded or sent is no business of a request.
LEMMA AskingQuiet ==
  ASSUME Basics, Asking, UNCHANGED <<incoming, requests, raced>>,
         \/ followers' = followers
         \/ \E f \in Events : /\ followers' = Append(followers, f) /\ f.type # "requested"
                              /\ f.mid # 0 \/ f.type # "deleted",
         raw' = raw \/ \E s \in Messages : raw' = Append(raw, s) /\ s.verb = "Accept"
  PROVE  Asking'
<1>0. /\ followers \in Seq(Events) /\ Len(followers) \in Nat
      /\ raw \in Seq(Messages) /\ Len(raw) \in Nat
  BY Entries DEF Basics, Shaped
<1>1. /\ 1 .. Len(raw) \subseteq 1 .. Len(raw')
      /\ \A i \in 1 .. Len(raw) : raw'[i] = raw[i]
      /\ \A i \in 1 .. Len(raw') : i \in 1 .. Len(raw) \/ raw'[i].verb = "Accept"
  <2>1. CASE raw' = raw
    BY <2>1
  <2>2. ASSUME NEW s \in Messages, raw' = Append(raw, s), s.verb = "Accept"
        PROVE  /\ 1 .. Len(raw) \subseteq 1 .. Len(raw')
               /\ \A i \in 1 .. Len(raw) : raw'[i] = raw[i]
               /\ \A i \in 1 .. Len(raw') : i \in 1 .. Len(raw) \/ raw'[i].verb = "Accept"
    <3>1. /\ Len(raw') = Len(raw) + 1 /\ raw'[Len(raw) + 1] = s
          /\ \A i \in 1 .. Len(raw) : raw'[i] = raw[i]
      BY <1>0, <2>2, Appended
    <3>2. \A i \in 1 .. Len(raw') : i \in 1 .. Len(raw) \/ i = Len(raw) + 1
      BY <1>0, <3>1
    <3> QED BY <1>0, <2>2, <3>1, <3>2
  <2> QED BY <2>1, <2>2
<1>2. /\ 1 .. Len(followers) \subseteq 1 .. Len(followers')
      /\ \A i \in 1 .. Len(followers) : followers'[i] = followers[i]
      /\ \A i \in 1 .. Len(followers') :
           \/ i \in 1 .. Len(followers)
           \/ /\ followers'[i].type # "requested" /\ (followers'[i].mid # 0 \/ followers'[i].type # "deleted")
              /\ \A j \in 1 .. Len(followers) : j < i
  <2>1. CASE followers' = followers
    BY <2>1
  <2>2. ASSUME NEW f \in Events, followers' = Append(followers, f), f.type # "requested",
               f.mid # 0 \/ f.type # "deleted"
        PROVE  /\ 1 .. Len(followers) \subseteq 1 .. Len(followers')
               /\ \A i \in 1 .. Len(followers) : followers'[i] = followers[i]
               /\ \A i \in 1 .. Len(followers') :
                    \/ i \in 1 .. Len(followers)
                    \/ /\ followers'[i].type # "requested"
                       /\ followers'[i].mid # 0 \/ followers'[i].type # "deleted"
                       /\ \A j \in 1 .. Len(followers) : j < i
    <3>1. /\ Len(followers') = Len(followers) + 1 /\ followers'[Len(followers) + 1] = f
          /\ \A i \in 1 .. Len(followers) : followers'[i] = followers[i]
      BY <1>0, <2>2, Appended
    <3>2. \A i \in 1 .. Len(followers') : i \in 1 .. Len(followers) \/ i = Len(followers) + 1
      BY <1>0, <3>1
    <3> QED BY <1>0, <2>2, <3>1, <3>2
  <2> QED BY <2>1, <2>2
<1>3. \A e : Asked(e)' = Asked(e)
  BY <1>1 DEF Asked
<1>4. \A e : Recorded(e)' = Recorded(e)
  BY <1>2 DEF Recorded
<1>5. Pending'
  <2>1. ASSUME NEW q \in requests
        PROVE  /\ q.edge[1] \in Locals
               /\ \E k \in 1 .. Len(raw') : IsLast(k, Asked(q.edge)') /\ Says(q.type, q.names, k)'
    <3>1. PICK k \in 1 .. Len(raw) : IsLast(k, Asked(q.edge)) /\ Says(q.type, q.names, k)
      BY DEF Asking, Pending
    <3>2. IsLast(k, Asked(q.edge)')
      BY <1>3, <3>1
    <3>3. Says(q.type, q.names, k)'
      BY <1>1, <3>1 DEF Says
    <3>4. q.edge[1] \in Locals
      BY DEF Asking, Pending
    <3> QED BY <1>1, <3>2, <3>3, <3>4
  <2> QED BY <2>1 DEF Asking, Pending, IsLast, Says
<1>6. ASSUME NEW e \in Edges PROVE Settled(e)'
  <2>1. Settled(e)
    BY DEF Asking
  <2>2. SUFFICES ASSUME e[1] \in Locals, e \notin raced, \A q \in requests : q.edge # e
                 PROVE  /\ Asked(e)' = {} => Recorded(e)' = {}
                        /\ \A k \in 1 .. Len(raw') : IsLast(k, Asked(e)') =>
                             \E i \in 1 .. Len(followers') : /\ IsLast(i, Recorded(e)')
                                                            /\ Says(followers[i].type, followers[i].names, k)'
    BY DEF Settled, IsLast, Says
  <2>3. /\ Asked(e) = {} => Recorded(e) = {}
        /\ \A k \in 1 .. Len(raw) : IsLast(k, Asked(e)) =>
             \E i \in 1 .. Len(followers) : /\ IsLast(i, Recorded(e))
                                            /\ Says(followers[i].type, followers[i].names, k)
    BY <2>1, <2>2 DEF Settled
  <2>4. ASSUME NEW k \in 1 .. Len(raw'), IsLast(k, Asked(e)')
        PROVE  \E i \in 1 .. Len(followers') : /\ IsLast(i, Recorded(e)')
                                               /\ Says(followers[i].type, followers[i].names, k)'
    <3>1. IsLast(k, Asked(e)) /\ k \in 1 .. Len(raw)
      BY <1>3, <2>4 DEF IsLast, Asked
    <3>2. PICK i \in 1 .. Len(followers) : /\ IsLast(i, Recorded(e))
                                           /\ Says(followers[i].type, followers[i].names, k)
      BY <2>3, <3>1
    <3>3. IsLast(i, Recorded(e)')
      BY <1>4, <3>2
    <3>4. i \in 1 .. Len(followers') /\ followers'[i] = followers[i] /\ raw'[k] = raw[k]
      BY <1>1, <1>2, <3>1
    <3>5. Says(followers[i].type, followers[i].names, k)'
      BY <3>2, <3>4 DEF Says
    <3> QED BY <3>3, <3>4, <3>5
  <2> QED BY <1>3, <1>4, <2>3, <2>4
<1>7. Answerless'
  BY DEF Asking, Answerless, Outward
<1>8. InTurn'
  <2>1. SUFFICES ASSUME NEW i \in 1 .. Len(followers'), NEW j \in 1 .. Len(followers'),
                        followers'[i].type = "requested", Outward(followers'[i].edge),
                        followers'[i].edge \notin raced, followers'[j].edge = followers'[i].edge,
                        followers'[j].mid # 0, incoming[followers'[j].mid].of = followers'[i].names
                 PROVE  i < j
    BY DEF InTurn, Outward
  <2>2. i \in 1 .. Len(followers) /\ followers'[i] = followers[i]
    BY <1>2, <2>1
  <2>3. CASE j \in 1 .. Len(followers)
    BY <1>2, <2>1, <2>2, <2>3 DEF Asking, InTurn
  <2>4. CASE j \notin 1 .. Len(followers)
    BY <1>2, <2>2, <2>4
  <2> QED BY <2>3, <2>4
<1> QED BY <1>5, <1>6, <1>7, <1>8 DEF Asking

\* The requests that a restart cuts off are counted as raced.
LEMMA AskingRestart ==
  ASSUME Asking, Restart
  PROVE  Asking'
<1>1. /\ requests' = {} /\ raced' = raced \cup {q.edge : q \in requests}
      /\ UNCHANGED <<incoming, followers, raw>>
  BY DEF Restart, Reset, topics
<1>2. Pending' /\ Answerless'
  BY <1>1 DEF Pending, Answerless
<1>3. \A e \in Edges : Settled(e)'
  BY <1>1 DEF Asking, Settled, Asked, Recorded, IsLast, Says
<1>4. InTurn'
  BY <1>1 DEF Asking, InTurn, Outward
<1> QED BY <1>2, <1>3, <1>4 DEF Asking

-----------------------------------------------------------------------------
(* The invariant. *)
LEMMA InitInv ==
  ASSUME Init
  PROVE  IInv
<1> USE DEF Init
<1>1. Len(incoming) = 0 /\ Len(followers) = 0 /\ Len(raw) = 0
  OBVIOUS
<1>2. Shaped
  <2>1. /\ incoming \in Seq(Activities) /\ followers \in Seq(Events) /\ raw \in Seq(Messages)
    OBVIOUS
  <2>2. fhandler \in [pos : Nat, bound : BOOLEAN, half : BOOLEAN] /\ fhandler.pos = 0
    BY DEF Started
  <2>3. table \in [Edges -> Rows]
    BY RowParts DEF NoRow
  <2>4. restarts \in 0 .. MaxRestarts
    BY HandshakeAssumption
  <2> QED BY <1>1, <2>1, <2>2, <2>3, <2>4 DEF Shaped
<1>3. Bounded
  BY <1>1 DEF Bounded, NoRow
<1>4. Topical
  BY <1>1 DEF Topical, Arrived, Sent, Told
<1>5. Orderly
  BY <1>1 DEF Orderly, HalfWay, Handled, InOrder, RecordsOf, Started
<1>6. Asking
  <2>1. Pending /\ Answerless /\ InTurn
    BY <1>1 DEF Pending, Answerless, InTurn
  <2>2. \A e \in Edges : Settled(e)
    BY <1>1 DEF Settled, Asked, Recorded
  <2> QED BY <2>1, <2>2 DEF Asking
<1>7. Reading
  BY <1>1 DEF Reading, RowIsRead, Read, Decided, IsLast, NoRow
<1> QED BY <1>2, <1>3, <1>4, <1>5, <1>6, <1>7 DEF IInv

LEMMA StepInv ==
  ASSUME IInv, [Next]_vars
  PROVE  IInv'
<1> USE DEF tables, process, topics, handlerOnly
<1>0. Shaped /\ Bounded /\ Sent /\ Basics /\ Pending /\ HalfWay /\ Orderly /\ Asking /\ Reading
  BY DEF IInv, Basics, Topical, Asking, Orderly
<1>1. ASSUME Basics', Orderly', Asking', Reading' PROVE IInv'
  BY <1>1 DEF IInv, Basics
<1>2. ASSUME NEW a \in Activities, Arrival(a) PROVE IInv'
  <2>1. tpos' = tpos /\ table' = table /\ followers' = followers
    BY <1>2 DEF Arrival
  <2> QED BY <1>0, <1>1, <1>2, <2>1, BasicsArrival, OrderlyArrival, AskingArrival, ReadingKept
<1>3. ASSUME NEW verb, NEW type, NEW e, NEW names, Asks(verb, type, e, names) PROVE IInv'
  <2>1. UNCHANGED <<tpos, table, followers, incoming, fhandler, apos>>
    BY <1>3 DEF Asks, Begin
  <2>2. Orderly' /\ Reading'
    BY <1>0, <2>1, OrderlyKept, ReadingKept
  <2> QED BY <1>0, <1>1, <1>3, <2>2, BasicsAsks, AskingAsks
<1>4. ASSUME NEW q \in requests, Record(q) PROVE IInv'
  <2>1. q.type \in Types /\ q.edge \in Edges /\ q.names \in Nat
    BY <1>0, RequestParts DEF Shaped
  <2>2. PICK f \in Events : f.mid = 0 /\ followers' = Append(followers, f)
    <3>1. PICK names \in Nat : names = IF q.type = "requested" THEN q.names ELSE 0
      BY <2>1
    <3>2. PICK f \in Events : f = Event(q.type, q.edge, 0, names) /\ f.mid = 0
      BY <2>1, EventParts
    <3> QED BY <1>4, <3>1, <3>2 DEF Record
  <2>3. UNCHANGED <<tpos, table, incoming, fhandler, apos>>
    BY <1>4 DEF Record
  <2>4. Orderly' /\ Reading'
    BY <1>0, <2>2, <2>3, OrderlyTold, ReadingKept
  <2> QED BY <1>0, <1>1, <1>4, <2>4, BasicsRecord, AskingRecord
<1>5. ASSUME NEW e \in Edges, NEW decision \in {"accepted", "rejected"}, Resolve(e, decision) PROVE IInv'
  <2>1. PICK f \in Events : f.mid = 0 /\ f.type = decision /\ followers' = Append(followers, f)
    BY <1>5, EventParts DEF Resolve, Types
  <2>2. UNCHANGED <<tpos, table, incoming, fhandler, apos, requests, raced, raw>>
    BY <1>5 DEF Resolve
  <2>3. Orderly' /\ Reading'
    BY <1>0, <2>1, <2>2, OrderlyTold, ReadingKept
  <2>4. Asking'
    BY <1>0, <2>1, <2>2, AskingQuiet
  <2> QED BY <1>0, <1>1, <1>5, <2>3, <2>4, BasicsResolve
<1>6. CASE AcceptFollower \/ AnswerFollow \/ DropFollower \/ Ignore \/ Unbound \/ AcceptHandler
  <2>1. Basics' /\ Orderly'
    BY <1>0, <1>6, BasicsHandlers, OrderlyHandlers
  <2>2. UNCHANGED <<incoming, requests, raced, tpos, table>>
    BY <1>6 DEF AcceptFollower, AnswerFollow, DropFollower, Ignore, Unbound, AcceptHandler
  <2>3. \/ followers' = followers
        \/ \E f \in Events : followers' = Append(followers, f) /\ f.type # "requested" /\ f.mid # 0
    <3>1. \/ followers' = followers \/ \E m : Notes(m)
      BY <1>0, <1>6, HandlerSteps DEF AnswerFollow, Ignore, Unbound
    <3>2. ASSUME NEW m, Notes(m)
          PROVE  \/ followers' = followers
                 \/ \E f \in Events : followers' = Append(followers, f) /\ f.type # "requested" /\ f.mid # 0
      <4>1. Note(m) \in Events /\ Note(m).type # "requested" /\ Note(m).mid # 0
        BY <1>0, <3>2, NoteParts DEF Notes
      <4> QED BY <1>0, <3>2, <4>1, NotesAppends
    <3> QED BY <3>1, <3>2
  <2>4. raw' = raw \/ \E s \in Messages : raw' = Append(raw, s) /\ s.verb = "Accept"
    <3>1. CASE AnswerFollow
      <4>1. PICK m \in 1 .. Len(incoming) : m = fhandler.pos + 1
        BY <1>0, <3>1, Entries DEF AnswerFollow, HasNext, Shaped
      <4>2. incoming[m].edge \in Edges /\ incoming[m].of \in Nat
        BY <1>0, Entries, ActivityParts
      <4>3. PICK s \in Messages : s = Raw("Accept", incoming[m].edge, m, incoming[m].of) /\ s.verb = "Accept"
        BY <4>2, MessageParts
      <4>4. raw' = Published(raw, s)
        BY <3>1, <4>1, <4>3 DEF AnswerFollow, Next1
      <4> QED BY <4>3, <4>4, PublishedIs
    <3>2. CASE AcceptFollower \/ DropFollower \/ Ignore \/ Unbound \/ AcceptHandler
      BY <3>2 DEF AcceptFollower, DropFollower, Ignore, Unbound, AcceptHandler
    <3> QED BY <1>6, <3>1, <3>2
  <2>5. Asking'
    BY <1>0, <2>2, <2>3, <2>4, AskingQuiet
  <2>6. Reading'
    BY <1>0, <2>2, <2>3, ReadingKept
  <2> QED BY <1>1, <2>1, <2>5, <2>6
<1>7. CASE ProjectFollows
  <2>1. UNCHANGED <<incoming, followers, raw, requests, raced, fhandler, apos>>
    BY <1>7 DEF ProjectFollows
  <2>2. Orderly' /\ Asking'
    BY <1>0, <2>1, OrderlyKept, AskingQuiet
  <2> QED BY <1>0, <1>1, <1>7, <2>2, BasicsProject, ReadingProject
<1>8. CASE Restart
  BY <1>0, <1>1, <1>8, BasicsRestart, OrderlyRestart, AskingRestart, ReadingRestart
<1>9. CASE UNCHANGED vars
  <2>1. Orderly' /\ Asking' /\ Reading'
    BY <1>0, <1>9, OrderlyKept, AskingQuiet, ReadingKept DEF vars
  <2>2. Basics'
    BY <1>0, <1>9 DEF vars, Basics, Shaped, Bounded, Topical, Arrived, Sent, Told, Records, FromUser
  <2> QED BY <1>1, <2>1, <2>2
<1> QED BY <1>0, <1>2, <1>3, <1>4, <1>5, <1>6, <1>7, <1>8, <1>9, Steps

THEOREM InvariantHolds == Spec => []IInv
<1>1. Init => IInv
  BY InitInv
<1>2. IInv /\ [Next]_vars => IInv'
  BY StepInv
<1> QED BY <1>1, <1>2, PTL DEF Spec

-----------------------------------------------------------------------------
(* What the outbox has read: the recursion of Outbox, and what it comes to. *)
After(f, n) == f = [k \in 0 .. n |-> IF k = 0 THEN {} ELSE Fans(f[k - 1], followers[k])]

\* Who is in the outbox after n events: accepted, and not deleted since.
Kept(e, n) == \E i \in 1 .. n : /\ followers[i].edge = e /\ followers[i].type = "accepted"
                                /\ \A j \in i + 1 .. n : followers[j].edge = e => followers[j].type # "deleted"

\* The recursive definition has a value, for any number of events.
LEMMA AfterExists ==
  ASSUME NEW n \in Nat
  PROVE  \E f : After(f, n)
<1> DEFINE S == {m \in Nat : \E f : After(f, m)}
<1>1. 0 \in S
  <2>1. After([k \in 0 .. 0 |-> {}], 0)
    BY DEF After
  <2> QED BY <2>1
<1>2. ASSUME NEW m \in Nat, m \in S PROVE m + 1 \in S
  <2>1. PICK f : After(f, m)
    BY <1>2
  <2> DEFINE g == [k \in 0 .. m + 1 |-> IF k <= m THEN f[k] ELSE Fans(f[m], followers[m + 1])]
  <2>2. ASSUME NEW k \in 0 .. m + 1
        PROVE  g[k] = IF k = 0 THEN {} ELSE Fans(g[k - 1], followers[k])
    <3>1. CASE k = 0
      BY <2>1, <3>1 DEF After
    <3>2. CASE k # 0 /\ k <= m
      <4>1. k \in 0 .. m /\ k - 1 \in 0 .. m /\ k - 1 \in 0 .. m + 1 /\ k - 1 <= m
        BY <3>2
      <4>2. f[k] = Fans(f[k - 1], followers[k])
        BY <2>1, <3>2, <4>1 DEF After
      <4>3. g[k] = f[k] /\ g[k - 1] = f[k - 1]
        BY <3>2, <4>1
      <4> QED BY <3>2, <4>2, <4>3
    <3>3. CASE k = m + 1
      <4>1. g[k] = Fans(f[m], followers[k]) /\ g[k - 1] = f[m] /\ k # 0
        BY <3>3
      <4> QED BY <4>1
    <3> QED BY <3>1, <3>2, <3>3
  <2>3. g = [k \in 0 .. m + 1 |-> IF k = 0 THEN {} ELSE Fans(g[k - 1], followers[k])]
    BY <2>2
  <2>4. After(g, m + 1)
    BY <2>3 DEF After
  <2> HIDE DEF g
  <2> QED BY <2>4
<1> HIDE DEF S
<1>3. Nat \subseteq S
  BY <1>1, <1>2, SetInduction
<1> QED BY <1>3 DEF S

LEMMA OutboxIs ==
  ASSUME Basics
  PROVE  \A e \in Edges : e \in Outbox <=> Kept(e, Len(followers))
<1>0. Len(followers) \in Nat /\ \A i \in 1 .. Len(followers) : followers[i] \in Events
  BY Entries DEF Basics
<1>1. PICK f : After(f, Len(followers)) /\ Outbox = f[Len(followers)]
  <2> DEFINE g == CHOOSE h : After(h, Len(followers))
  <2>1. After(g, Len(followers))
    BY <1>0, AfterExists
  <2>2. Outbox = g[Len(followers)]
    BY DEF Outbox, After
  <2> QED BY <2>1, <2>2
<1> SUFFICES ASSUME NEW e \in Edges PROVE e \in Outbox <=> Kept(e, Len(followers))
  OBVIOUS
<1> DEFINE S == {n \in Nat : n <= Len(followers) => (e \in f[n] <=> Kept(e, n))}
<1>2. 0 \in S
  <2>1. f[0] = {}
    BY <1>0, <1>1 DEF After
  <2> QED BY <2>1 DEF Kept
<1>3. ASSUME NEW n \in Nat, n \in S PROVE n + 1 \in S
  <2>1. SUFFICES ASSUME n + 1 <= Len(followers) PROVE e \in f[n + 1] <=> Kept(e, n + 1)
    OBVIOUS
  <2>2. PICK m \in 1 .. Len(followers) : m = n + 1
    BY <1>0, <2>1
  <2>3. e \in f[n] <=> Kept(e, n)
    BY <1>0, <1>3, <2>1
  <2>4. f[m] = Fans(f[n], followers[m])
    <3>1. m \in 0 .. Len(followers) /\ m # 0 /\ m - 1 = n
      BY <2>2
    <3>2. f[m] = IF m = 0 THEN {} ELSE Fans(f[m - 1], followers[m])
      BY <1>1, <3>1 DEF After
    <3> QED BY <3>1, <3>2
  <2>5. \A i \in 1 .. m : i \in 1 .. n \/ i = m
    BY <2>2
  <2>6. 1 .. n \subseteq 1 .. m /\ m \in 1 .. m /\ \A i \in 1 .. n : m \in i + 1 .. m
    BY <2>2
  <2>7. \A i \in 1 .. n : \A j \in i + 1 .. m : j \in i + 1 .. n \/ j = m
    BY <2>2
  <2>8. \A i \in 1 .. n : \A j \in i + 1 .. n : j \in i + 1 .. m
    BY <2>2
  <2>9. m + 1 .. m = {}
    BY <2>2
  <2>10. CASE followers[m].edge = e /\ followers[m].type = "accepted"
    <3>1. e \in f[m]
      BY <2>4, <2>10 DEF Fans
    <3>2. Kept(e, m)
      BY <2>6, <2>9, <2>10 DEF Kept
    <3> QED BY <2>2, <3>1, <3>2
  <2>11. CASE followers[m].edge = e /\ followers[m].type = "deleted"
    <3>1. e \notin f[m]
      BY <2>4, <2>11 DEF Fans
    <3>2. ~Kept(e, m)
      BY <2>5, <2>6, <2>11 DEF Kept
    <3> QED BY <2>2, <3>1, <3>2
  <2>12. CASE ~(followers[m].edge = e /\ followers[m].type \in {"accepted", "deleted"})
    <3>1. e \in f[m] <=> e \in f[n]
      BY <2>4, <2>12 DEF Fans
    <3>2. Kept(e, n) => Kept(e, m)
      BY <2>6, <2>7, <2>12 DEF Kept
    <3>3. Kept(e, m) => Kept(e, n)
      BY <2>5, <2>8, <2>12 DEF Kept
    <3> QED BY <2>2, <2>3, <3>1, <3>2, <3>3
  <2> QED BY <2>2, <2>10, <2>11, <2>12
<1> HIDE DEF S
<1>4. Nat \subseteq S
  BY <1>2, <1>3, SetInduction
<1> QED BY <1>0, <1>1, <1>4 DEF S

-----------------------------------------------------------------------------
(* What follows from the invariant. *)
LEMMA SeqOf ==
  ASSUME NEW A, NEW B, NEW s \in Seq(A), \A i \in 1 .. Len(s) : s[i] \in B
  PROVE  s \in Seq(B)
  OBVIOUS

\* Positions, names and states stay within the topics, for any actors and bounds.
LEMMA TypeOKFollows ==
  ASSUME IInv
  PROVE  TypeOK
<1>0. Shaped /\ Bounded /\ Len(incoming) \in Nat /\ Len(followers) \in Nat /\ Len(raw) \in Nat
  BY Entries DEF IInv
<1>1. incoming \in Seq([verb : KnownVerbs \cup Noise, edge : Edges, of : 0 .. Len(raw)])
  <2>1. ASSUME NEW m \in 1 .. Len(incoming)
        PROVE  incoming[m] \in [verb : KnownVerbs \cup Noise, edge : Edges, of : 0 .. Len(raw)]
    <3>1. incoming[m] \in [verb : KnownVerbs \cup Noise, edge : Edges, of : Nat]
      BY <1>0, Entries DEF Activities
    <3>2. incoming[m].of <= Len(raw)
      BY <1>0 DEF Bounded
    <3> QED BY <1>0, <3>1, <3>2
  <2>2. incoming \in Seq(Activities)
    BY <1>0 DEF Shaped
  <2> QED BY <2>1, <2>2, SeqOf
<1>2. followers \in Seq([type : Types, edge : Edges, mid : 0 .. Len(incoming), names : 0 .. Len(raw)])
  <2>1. ASSUME NEW i \in 1 .. Len(followers)
        PROVE  followers[i] \in [type : Types, edge : Edges, mid : 0 .. Len(incoming), names : 0 .. Len(raw)]
    <3>1. followers[i] \in [type : Types, edge : Edges, mid : Nat, names : Nat]
      BY <1>0, Entries DEF Events
    <3>2. followers[i].mid <= Len(incoming) /\ followers[i].names <= Len(raw)
      BY <1>0 DEF Bounded
    <3> QED BY <1>0, <3>1, <3>2
  <2>2. followers \in Seq(Events)
    BY <1>0 DEF Shaped
  <2> QED BY <2>1, <2>2, SeqOf
<1>3. raw \in Seq([verb : {"Follow", "Undo", "Accept"}, edge : Edges,
                   mid : 0 .. Len(incoming), names : 0 .. Len(raw)])
  <2>1. ASSUME NEW i \in 1 .. Len(raw)
        PROVE  raw[i] \in [verb : {"Follow", "Undo", "Accept"}, edge : Edges,
                           mid : 0 .. Len(incoming), names : 0 .. Len(raw)]
    <3>1. raw[i] \in [verb : {"Follow", "Undo", "Accept"}, edge : Edges, mid : Nat, names : Nat]
      BY <1>0, Entries DEF Messages
    <3>2. raw[i].mid <= Len(incoming) /\ raw[i].names <= Len(raw)
      BY <1>0 DEF Bounded
    <3> QED BY <1>0, <3>1, <3>2
  <2>2. raw \in Seq(Messages)
    BY <1>0 DEF Shaped
  <2> QED BY <2>1, <2>2, SeqOf
<1>4. requests \subseteq [type : Types, edge : Edges, names : 0 .. Len(raw)]
  <2>1. SUFFICES ASSUME NEW q \in requests PROVE q \in [type : Types, edge : Edges, names : 0 .. Len(raw)]
    OBVIOUS
  <2>2. q \in [type : Types, edge : Edges, names : Nat]
    BY <1>0 DEF Shaped, Requests
  <2>3. q.names <= Len(raw)
    BY <1>0 DEF Bounded
  <2> QED BY <1>0, <2>2, <2>3
<1>5. table \in [Edges -> [state : Types \cup {"none"}, names : 0 .. Len(raw)]]
  <2>1. ASSUME NEW e \in Edges PROVE table[e] \in [state : Types \cup {"none"}, names : 0 .. Len(raw)]
    <3>1. table[e] \in [state : Types \cup {"none"}, names : Nat]
      BY <1>0 DEF Shaped, Rows
    <3>2. table[e].names <= Len(raw)
      BY <1>0 DEF Bounded
    <3> QED BY <1>0, <3>1, <3>2
  <2>2. table \in [Edges -> Rows]
    BY <1>0 DEF Shaped
  <2> QED BY <2>1, <2>2
<1>6. fhandler \in [pos : 0 .. Len(incoming), bound : BOOLEAN, half : BOOLEAN]
  BY <1>0 DEF Shaped
<1> QED BY <1>0, <1>1, <1>2, <1>3, <1>4, <1>5, <1>6 DEF TypeOK, Shaped

\* A record of an activity is the record of one that arrived.
LEMMA RecordedFollows ==
  ASSUME IInv
  PROVE  RecordedInOrder
<1>1. ASSUME NEW verbs \in {Changes, Answers}
      PROVE  /\ \A i, j \in RecordsOf(verbs) : i < j => followers[i].mid < followers[j].mid
             /\ \A i \in RecordsOf(verbs), m \in 1 .. Len(incoming) :
                  m < followers[i].mid /\ incoming[m].verb \in verbs
                     => \E j \in RecordsOf(verbs) : followers[j].mid = m
             /\ \A i \in RecordsOf(verbs) : /\ followers[i].edge = incoming[followers[i].mid].edge
                                            /\ followers[i].type = Meaning[incoming[followers[i].mid].verb]
  <2>1. InOrder(verbs)
    BY DEF IInv, Orderly
  <2>2. ASSUME NEW i \in RecordsOf(verbs), NEW m \in 1 .. Len(incoming),
               m < followers[i].mid, incoming[m].verb \in verbs
        PROVE  \E j \in RecordsOf(verbs) : followers[j].mid = m
    <3>1. PICK j \in 1 .. Len(followers) : followers[j].mid = m
      BY <2>1, <2>2 DEF InOrder, IsRecorded
    <3>2. j \in RecordsOf(verbs)
      BY <2>2, <3>1 DEF RecordsOf
    <3> QED BY <3>1, <3>2
  <2>3. ASSUME NEW i \in RecordsOf(verbs)
        PROVE  /\ followers[i].edge = incoming[followers[i].mid].edge
               /\ followers[i].type = Meaning[incoming[followers[i].mid].verb]
    BY DEF RecordsOf, IInv, Topical, Told, Records
  <2> QED BY <2>1, <2>2, <2>3 DEF InOrder
<1> QED BY <1>1 DEF RecordedInOrder, Changes, Answers

\* Only users outside this server are told apart by acceptances and deletions alone.
LEMMA TablesAgreeFollows ==
  ASSUME IInv
  PROVE  TablesAgree
<1> SUFFICES ASSUME tpos = Len(followers), NEW e \in Edges, e[1] \in Remotes
             PROVE  e \in Outbox <=> table[e].state = "accepted"
  BY DEF TablesAgree
<1>0. Basics /\ Len(followers) \in Nat /\ e[1] \notin Locals
  BY Entries, EdgeEnds DEF IInv, Basics
<1>1. e \in Outbox <=> Kept(e, Len(followers))
  BY <1>0, OutboxIs
<1>2. RowIsRead(e)
  BY DEF IInv, Reading
<1>3. ASSUME NEW i \in Read(e) PROVE i \in 1 .. Len(followers) /\ followers[i].type \in {"accepted", "deleted"}
  <2>1. i \in 1 .. Len(followers) /\ followers[i].edge = e
    BY DEF Read
  <2>2. followers[i].mid # 0 /\ Records(followers[i])
    BY <1>0, <2>1 DEF Basics, Topical, Told, FromUser
  <2>3. followers[i].mid \in 1 .. Len(incoming)
    BY <1>0, <2>1, <2>2, MidsAreArrived
  <2>4. incoming[followers[i].mid].verb \notin Answers
    BY <1>0, <2>1, <2>2, <2>3 DEF Basics, Topical, Arrived, Records
  <2> QED BY <2>1, <2>2, <2>4, Meanings DEF Records, Changes
<1>4. CASE Read(e) = {}
  <2>1. ~Kept(e, Len(followers))
    BY <1>4 DEF Kept, Read
  <2> QED BY <1>1, <1>2, <1>4, <2>1 DEF RowIsRead
<1>5. CASE Read(e) # {}
  <2>1. PICK l : IsLast(l, Read(e))
    BY <1>0, <1>5, LatestIsLast DEF Read
  <2>2. /\ l \in 1 .. Len(followers) /\ followers[l].edge = e /\ followers[l].type \in {"accepted", "deleted"}
        /\ \A j \in 1 .. Len(followers) : followers[j].edge = e => j <= l
    BY <1>3, <2>1 DEF IsLast, Read
  <2>3. table[e].state = StateOf(followers[l].type)
    BY <1>2, <2>1, <2>2 DEF RowIsRead
  <2>4. CASE followers[l].type = "accepted"
    <3>1. \A j \in l + 1 .. Len(followers) : followers[j].edge # e
      BY <2>2
    <3>2. Kept(e, Len(followers))
      BY <2>2, <2>4, <3>1 DEF Kept
    <3> QED BY <1>1, <2>3, <2>4, <3>2 DEF StateOf
  <2>5. CASE followers[l].type = "deleted"
    <3>1. ASSUME NEW i \in 1 .. Len(followers), followers[i].edge = e, followers[i].type = "accepted"
          PROVE  l \in i + 1 .. Len(followers)
      BY <2>2, <2>5, <3>1
    <3>2. ~Kept(e, Len(followers))
      BY <2>2, <2>5, <3>1 DEF Kept
    <3> QED BY <1>1, <2>3, <2>5, <3>2 DEF StateOf
  <2> QED BY <2>2, <2>4, <2>5
<1> QED BY <1>4, <1>5

\* The last of a set of positions, by either name.
LEMMA LatestOf ==
  ASSUME NEW n \in Nat, NEW S, S \subseteq 1 .. n, NEW i, IsLast(i, S)
  PROVE  Latest(S) = i
<1>1. S # {} /\ S \subseteq Int
  BY DEF IsLast
<1>2. IsLast(Latest(S), S)
  BY <1>1, LatestIsLast
<1> QED BY <1>1, <1>2, OneLast

\* What the events on the edge of a user's follow of a remote actor are.
LEMMA OutwardEvents ==
  ASSUME IInv, NEW e \in Edges, Outward(e), NEW i \in 1 .. Len(followers), followers[i].edge = e
  PROVE  \/ i \in Recorded(e)
         \/ /\ followers[i].mid \in 1 .. Len(incoming)
            /\ incoming[followers[i].mid].edge = e /\ incoming[followers[i].mid].verb \in Answers
            /\ followers[i].type = Meaning[incoming[followers[i].mid].verb]
<1>0. Basics /\ e[2] \notin Locals
  BY EdgeEnds DEF IInv, Basics, Outward
<1>1. CASE followers[i].mid = 0
  <2>1. followers[i].type \in Types /\ followers[i].type \notin {"accepted", "rejected"}
    BY <1>0, <1>1, Entries, EventParts DEF Basics, Topical, Told, FromUser
  <2> QED BY <1>1, <2>1 DEF Recorded, Types
<1>2. CASE followers[i].mid # 0
  <2>1. Records(followers[i]) /\ followers[i].mid \in 1 .. Len(incoming)
    BY <1>0, <1>2, MidsAreArrived DEF Basics, Topical, Told
  <2>2. incoming[followers[i].mid].verb \in Answers
    BY <1>0, <2>1 DEF Basics, Topical, Arrived, Records
  <2> QED BY <2>1, <2>2 DEF Records
<1> QED BY <1>1, <1>2

\* The last recorded is the last asked for, if nothing is under way.
LEMMA LastAskedRecorded ==
  ASSUME IInv, NEW e \in Edges, e[1] \in Locals, e \notin raced, \A q \in requests : q.edge # e,
         NEW l, IsLast(l, Recorded(e))
  PROVE  /\ Asked(e) # {} /\ Latest(Asked(e)) \in 1 .. Len(raw)
         /\ IsLast(Latest(Asked(e)), Asked(e))
         /\ Says(followers[l].type, followers[l].names, Latest(Asked(e)))
<1>0. Settled(e) /\ Recorded(e) # {} /\ Len(raw) \in Nat
  BY Entries DEF IInv, Asking, IsLast
<1>1. Asked(e) # {} /\ Asked(e) \subseteq 1 .. Len(raw)
  BY <1>0 DEF Settled, Asked
<1>2. IsLast(Latest(Asked(e)), Asked(e))
  BY <1>0, <1>1, LatestIsLast
<1>3. Latest(Asked(e)) \in 1 .. Len(raw)
  BY <1>1, <1>2 DEF IsLast
<1>4. PICK i \in 1 .. Len(followers) : /\ IsLast(i, Recorded(e))
                                       /\ Says(followers[i].type, followers[i].names, Latest(Asked(e)))
  BY <1>0, <1>2, <1>3 DEF Settled
<1>5. Recorded(e) \subseteq Int
  BY DEF Recorded
<1>6. i = l
  BY <1>4, <1>5, OneLast
<1> QED BY <1>1, <1>2, <1>3, <1>4, <1>6

LEMMA FollowStateFollows ==
  ASSUME IInv
  PROVE  FollowStateIsTrue
<1> SUFFICES ASSUME NEW e \in Edges, Outward(e), AtRest(e)
             PROVE  LET answers == {m \in 1 .. Len(incoming) : /\ incoming[m].verb \in {"Accept", "Reject"}
                                                               /\ incoming[m].edge = e}
                        asked == Asked(e)
                        LastAnswer(verb) == answers # {} /\ incoming[Latest(answers)].verb = verb
                        row == table[e]
                    IN CASE row.state = "accepted" -> LastAnswer("Accept")
                         [] row.state = "requested" -> /\ asked # {} /\ row.names = Latest(asked)
                                                       /\ \A m \in answers : incoming[m].of # row.names
                         [] OTHER -> asked = {} \/ LastAnswer("Reject") \/ raw[Latest(asked)].verb = "Undo"
  BY DEF FollowStateIsTrue, Outward
<1> DEFINE answers == {m \in 1 .. Len(incoming) : /\ incoming[m].verb \in {"Accept", "Reject"}
                                                  /\ incoming[m].edge = e}
           LastAnswer(verb) == answers # {} /\ incoming[Latest(answers)].verb = verb
<1>0. /\ Len(incoming) \in Nat /\ Len(followers) \in Nat /\ Len(raw) \in Nat
      /\ tpos = Len(followers) /\ apos = Len(incoming) /\ e \notin raced
      /\ (\A q \in requests : q.edge # e) /\ e[1] \in Locals
  BY Entries DEF AtRest, CaughtUp, IInv, Outward
<1>1. RowIsRead(e) /\ Settled(e) /\ Handled /\ InOrder(Answers) /\ InTurn
  BY DEF IInv, Reading, Asking, Orderly
<1>2. \A i \in Read(e) : i \in 1 .. Len(followers) /\ followers[i].edge = e
  BY <1>0 DEF Read
<1>3. Recorded(e) \subseteq Read(e)
  BY <1>0 DEF Recorded, Read
<1>4. CASE Read(e) = {}
  <2>1. Recorded(e) = {} /\ table[e].state = "none"
    BY <1>1, <1>3, <1>4 DEF RowIsRead
  <2>2. Asked(e) = {}
    <3>1. SUFFICES ASSUME Asked(e) # {} PROVE FALSE
      OBVIOUS
    <3>2. Asked(e) \subseteq 1 .. Len(raw)
      BY DEF Asked
    <3>3. IsLast(Latest(Asked(e)), Asked(e)) /\ Latest(Asked(e)) \in 1 .. Len(raw)
      BY <1>0, <3>1, <3>2, LatestIsLast DEF IsLast
    <3> QED BY <1>0, <1>1, <2>1, <3>3 DEF Settled, IsLast
  <2> QED BY <2>1, <2>2
<1>5. CASE Read(e) # {}
  <2>1. PICK l : IsLast(l, Read(e))
    <3>1. Read(e) \subseteq 1 .. Len(followers)
      BY <1>2
    <3> QED BY <1>0, <1>5, <3>1, LatestIsLast
  <2>2. /\ l \in 1 .. Len(followers) /\ followers[l].edge = e
        /\ \A j \in Read(e) : j <= l
        /\ table[e].state = StateOf(followers[l].type)
    BY <1>0, <1>1, <1>2, <2>1 DEF IsLast, RowIsRead
  \* The last event answers: it is the last answer.
  <2>3. ASSUME followers[l].mid \in 1 .. Len(incoming), incoming[followers[l].mid].edge = e,
               incoming[followers[l].mid].verb \in Answers
        PROVE  LastAnswer(incoming[followers[l].mid].verb)
    <3>1. answers # {} /\ answers \subseteq 1 .. Len(incoming) /\ followers[l].mid \in answers
      BY <2>3 DEF Answers
    <3>2. PICK m : m = Latest(answers)
      OBVIOUS
    <3>3. IsLast(m, answers)
      BY <1>0, <3>1, <3>2, LatestIsLast
    <3>4. /\ m \in 1 .. Len(incoming) /\ incoming[m].edge = e /\ incoming[m].verb \in Answers
          /\ followers[l].mid <= m
      BY <3>1, <3>3 DEF IsLast, Answers
    <3>5. PICK i \in 1 .. Len(followers) : followers[i].mid = m
      BY <1>0, <1>1, <3>4 DEF Handled, IsRecorded
    <3>6. i \in RecordsOf(Answers) /\ l \in RecordsOf(Answers)
      BY <1>0, <2>2, <2>3, <3>4, <3>5 DEF RecordsOf
    <3>7. followers[i].edge = e
      BY <3>4, <3>5 DEF IInv, Topical, Told, Records
    <3>8. i <= l
      BY <1>0, <2>2, <3>7 DEF Read
    <3>9. i = l
      <4>1. SUFFICES ASSUME i < l PROVE FALSE
        BY <2>2, <3>8
      <4>2. followers[i].mid < followers[l].mid
        BY <1>1, <3>6, <4>1 DEF InOrder
      <4> QED BY <2>3, <3>4, <3>5, <4>2
    <3> HIDE DEF answers
    <3> QED BY <3>1, <3>2, <3>5, <3>9
  \* The last event is a request or a withdrawal of the user: it is the last.
  <2>4. ASSUME l \in Recorded(e)
        PROVE  /\ Asked(e) # {} /\ Says(followers[l].type, followers[l].names, Latest(Asked(e)))
               /\ IsLast(Latest(Asked(e)), Asked(e)) /\ IsLast(l, Recorded(e))
    <3>1. IsLast(l, Recorded(e))
      BY <1>3, <2>2, <2>4 DEF IsLast
    <3> QED BY <1>0, <3>1, LastAskedRecorded
  <2>5. \/ l \in Recorded(e)
        \/ /\ followers[l].mid \in 1 .. Len(incoming)
           /\ incoming[followers[l].mid].edge = e /\ incoming[followers[l].mid].verb \in Answers
           /\ followers[l].type = Meaning[incoming[followers[l].mid].verb]
    BY <2>2, OutwardEvents
  <2>6. CASE l \in Recorded(e)
    <3>1. Latest(Asked(e)) \in Asked(e)
      BY <2>4, <2>6 DEF IsLast
    <3>2. raw[Latest(Asked(e))].verb \in {"Follow", "Undo"}
      BY <3>1 DEF Asked
    <3>3. CASE raw[Latest(Asked(e))].verb = "Follow"
      <4>1. followers[l].type = "requested" /\ followers[l].names = Latest(Asked(e))
        BY <2>4, <2>6, <3>3 DEF Says
      <4>2. table[e].state = "requested"
        BY <2>2, <4>1 DEF StateOf
      <4>3. table[e].names = followers[l].names
        <5>1. l \in Decided(e) /\ Decided(e) \subseteq Read(e)
          BY <2>1, <4>1 DEF Decided, IsLast
        <5>2. IsLast(l, Decided(e)) /\ l \in 1 .. tpos
          BY <1>0, <2>2, <5>1 DEF IsLast
        <5> QED BY <1>1, <5>2 DEF RowIsRead
      <4>4. ASSUME NEW m \in answers, incoming[m].of = table[e].names PROVE FALSE
        <5>1. m \in 1 .. Len(incoming) /\ incoming[m].edge = e /\ incoming[m].verb \in Answers
          BY DEF Answers
        <5>2. PICK i \in 1 .. Len(followers) : followers[i].mid = m
          BY <1>0, <1>1, <5>1 DEF Handled, IsRecorded
        <5>3. followers[i].edge = e
          BY <5>1, <5>2 DEF IInv, Topical, Told, Records
        <5>4. l < i
          BY <1>0, <1>1, <2>2, <4>1, <4>3, <4>4, <5>1, <5>2, <5>3 DEF InTurn
        <5>5. i <= l
          BY <1>0, <2>2, <5>3 DEF Read
        <5> QED BY <2>2, <5>4, <5>5
      <4>5. Asked(e) # {} /\ table[e].names = Latest(Asked(e)) /\ \A m \in answers : incoming[m].of # table[e].names
        BY <2>4, <2>6, <4>1, <4>3, <4>4
      <4> QED BY <4>2, <4>5
    <3>4. CASE raw[Latest(Asked(e))].verb = "Undo"
      <4>1. followers[l].type = "deleted"
        BY <2>4, <2>6, <3>4 DEF Says
      <4>2. table[e].state = "none"
        BY <2>2, <4>1 DEF StateOf
      <4> HIDE DEF answers
      <4> QED BY <3>4, <4>2
    <3> QED BY <3>2, <3>3, <3>4
  <2>7. CASE /\ followers[l].mid \in 1 .. Len(incoming)
             /\ incoming[followers[l].mid].edge = e /\ incoming[followers[l].mid].verb \in Answers
             /\ followers[l].type = Meaning[incoming[followers[l].mid].verb]
    <3>1. LastAnswer(incoming[followers[l].mid].verb)
      BY <2>3, <2>7
    <3> HIDE DEF LastAnswer, answers
    <3>2. CASE incoming[followers[l].mid].verb = "Accept"
      <4>1. table[e].state = "accepted" /\ LastAnswer("Accept")
        BY <2>2, <2>7, <3>1, <3>2, Meanings DEF StateOf
      <4> QED BY <4>1 DEF LastAnswer, answers
    <3>3. CASE incoming[followers[l].mid].verb = "Reject"
      <4>1. table[e].state = "none" /\ LastAnswer("Reject")
        BY <2>2, <2>7, <3>1, <3>3, Meanings DEF StateOf
      <4> QED BY <4>1 DEF LastAnswer, answers
    <3> QED BY <2>7, <3>2, <3>3 DEF Answers
  <2> QED BY <2>5, <2>6, <2>7
<1> QED BY <1>4, <1>5

LEMMA UndoFollows ==
  ASSUME IInv, NEW e \in Edges, Unfollow(e), CaughtUp(e), NEW l,
         IsLast(l, {i \in 1 .. Len(followers) : followers[i].edge = e /\ followers[i].type # "accepted"}),
         followers[l].type = "requested"
  PROVE  /\ {i \in 1 .. Len(raw) : raw[i].verb = "Follow" /\ raw[i].edge = e} # {}
         /\ table[e].names = Latest({i \in 1 .. Len(raw) : raw[i].verb = "Follow" /\ raw[i].edge = e})
<1> DEFINE follows == {i \in 1 .. Len(raw) : raw[i].verb = "Follow" /\ raw[i].edge = e}
<1>0. /\ tpos = Len(followers) /\ (\A q \in requests : q.edge # e) /\ e \notin raced /\ e[1] \in Locals
      /\ Len(raw) \in Nat
  BY Entries DEF CaughtUp, Unfollow, Begin, IInv
<1>1. IsLast(l, Decided(e)) /\ l \in 1 .. tpos
  BY <1>0 DEF Decided, Read, IsLast
<1>2. table[e].names = followers[l].names
  BY <1>1 DEF IInv, Reading, RowIsRead
<1>3. followers[l].mid = 0
  <2>1. SUFFICES ASSUME followers[l].mid # 0 PROVE FALSE
    OBVIOUS
  <2>2. Records(followers[l])
    BY <1>0, <1>1, <2>1 DEF IInv, Topical, Told
  <2> QED BY <2>2, Meanings DEF Records, Changes, Answers
<1>4. l \in Recorded(e)
  BY <1>0, <1>1, <1>3 DEF Recorded, Decided, Read, IsLast
<1>5. Recorded(e) \subseteq Decided(e)
  BY <1>0 DEF Recorded, Decided, Read
<1>6. IsLast(l, Recorded(e))
  BY <1>1, <1>4, <1>5 DEF IsLast
<1>7. /\ Latest(Asked(e)) \in 1 .. Len(raw) /\ IsLast(Latest(Asked(e)), Asked(e))
      /\ Says(followers[l].type, followers[l].names, Latest(Asked(e)))
  BY <1>0, <1>6, LastAskedRecorded
<1>8. PICK k \in 1 .. Len(raw) : /\ k = Latest(Asked(e)) /\ IsLast(k, Asked(e))
                                 /\ Says(followers[l].type, followers[l].names, k)
  BY <1>7
<1>9. raw[k].verb = "Follow" /\ followers[l].names = k
  BY <1>8 DEF Says
<1>10. follows \subseteq Asked(e) /\ k \in follows
  BY <1>8, <1>9 DEF Asked, IsLast
<1>11. IsLast(k, follows) /\ follows \subseteq 1 .. Len(raw)
  BY <1>8, <1>10 DEF IsLast
<1> HIDE DEF follows
<1>12. Latest(follows) = k
  BY <1>0, <1>11, LatestOf
<1>13. follows # {} /\ table[e].names = Latest(follows)
  BY <1>2, <1>9, <1>10, <1>12
<1> QED BY <1>13 DEF follows

\* A step that adds an Undo to raw is the first publish of a withdrawal.
LEMMA UndoNamed ==
  ASSUME IInv, [Next]_vars, Len(raw') > Len(raw), Final(raw').verb = "Undo"
  PROVE  \E e \in Edges : /\ Unfollow(e) /\ Final(raw').edge = e /\ Final(raw').names = table[e].names
<1>0. Shaped /\ Bounded /\ Sent /\ Len(raw) \in Nat /\ raw \in Seq(Messages)
  BY Entries DEF IInv, Topical, Shaped
<1>1. ASSUME NEW s \in Messages, raw' = Append(raw, s) PROVE Final(raw') = s
  BY <1>0, <1>1, Appended DEF Final
<1>2. CASE raw' = raw
  BY <1>0, <1>2
<1>3. ASSUME NEW verb, NEW type, NEW e, NEW names, Asks(verb, type, e, names)
      PROVE  \E f \in Edges : Unfollow(f) /\ Final(raw').edge = f /\ Final(raw').names = table[f].names
  <2>1. verb \in {"Follow", "Undo"} /\ e \in Edges /\ names \in Nat
    BY <1>3 DEF Asks
  <2>2. PICK s \in Messages : s = Raw(verb, e, 0, names) /\ s.verb = verb /\ s.edge = e /\ s.names = names
    BY <2>1, MessageParts
  <2>3. raw' = Append(raw, s)
    BY <1>3, <2>2 DEF Asks, Begin
  <2>4. Final(raw') = s
    BY <1>1, <2>3
  <2>5. type = "deleted" /\ names = table[e].names /\ verb = "Undo"
    BY <1>3, <2>2, <2>4 DEF Asks
  <2>6. Unfollow(e)
    BY <1>3, <2>5 DEF Asks, Unfollow
  <2> QED BY <2>1, <2>2, <2>4, <2>5, <2>6
<1>4. CASE AnswerFollow
  <2>1. PICK m \in 1 .. Len(incoming) : m = fhandler.pos + 1
    BY <1>0, <1>4, Entries DEF AnswerFollow, HasNext, Shaped
  <2>2. incoming[m].edge \in Edges /\ incoming[m].of \in Nat
    BY <1>0, Entries, ActivityParts
  <2>3. PICK s \in Messages : s = Raw("Accept", incoming[m].edge, m, incoming[m].of) /\ s.verb = "Accept"
    BY <2>2, MessageParts
  <2>4. raw' = Published(raw, s)
    BY <1>4, <2>1, <2>3 DEF AnswerFollow, Next1
  <2>5. raw' = raw \/ Final(raw') = s
    BY <1>1, <2>4, PublishedIs
  <2> QED BY <1>0, <2>3, <2>5
<1>5. CASE UNCHANGED vars
  BY <1>0, <1>5 DEF vars, topics
<1>6. CASE Next
  <2>1. CASE \E a \in Activities : Arrival(a)
    BY <1>2, <2>1 DEF Arrival
  <2>2. CASE \E q \in requests : Record(q)
    BY <1>2, <2>2 DEF Record
  <2>3. CASE \E e \in Edges, decision \in {"accepted", "rejected"} : Resolve(e, decision)
    BY <1>2, <2>3 DEF Resolve
  <2>4. CASE AcceptFollower \/ DropFollower \/ Ignore \/ Unbound \/ AcceptHandler \/ ProjectFollows \/ Restart
    BY <1>2, <2>4 DEF AcceptFollower, DropFollower, Ignore, Unbound, AcceptHandler, ProjectFollows, Restart, topics
  <2> QED BY <1>0, <1>3, <1>4, <1>6, <2>1, <2>2, <2>3, <2>4, Steps
<1> QED BY <1>5, <1>6

\* Positions and names stay within the topics, whatever arrives and however often the process
\* starts anew: no handler reads beyond its topic, no event refers to an activity that does not exist.
THEOREM FollowTypes == Spec => []TypeOK
  BY InvariantHolds, TypeOKFollows, PTL

\* A replay never repeats or reorders: what a handler has recorded is always a prefix of its
\* activities, in the order in which they arrived and as what they are.
THEOREM RecordedOnceInOrder == Spec => []RecordedInOrder
  BY InvariantHolds, RecordedFollows, PTL

\* The tables say what was said: the API's of the follows of remote actors, and the outbox's and
\* the API's of the followers of local users, which agree.
THEOREM TablesSayWhatWasSaid == Spec => []TablesAreTrue
<1>1. IInv => TablesAreTrue
  BY FollowStateFollows, TablesAgreeFollows DEF TablesAreTrue
<1> QED BY <1>1, InvariantHolds, PTL

\* An Undo that a user sends takes back the last Follow of the edge by its name.
THEOREM UndosNameTheFollow == Spec => UndoNamesTheFollow
<1> DEFINE Step == Len(raw') > Len(raw) /\ Final(raw').verb = "Undo" =>
          LET e == Final(raw').edge
              decided == {i \in 1 .. Len(followers) : followers[i].edge = e /\ followers[i].type # "accepted"}
              follows == {i \in 1 .. Len(raw) : raw[i].verb = "Follow" /\ raw[i].edge = e}
          IN CaughtUp(e) /\ decided # {} /\ followers[Latest(decided)].type = "requested"
             => follows # {} /\ Final(raw').names = Latest(follows)
<1>1. ASSUME IInv, [Next]_vars PROVE Step
  <2>1. SUFFICES ASSUME Len(raw') > Len(raw), Final(raw').verb = "Undo" PROVE Step
    OBVIOUS
  <2>2. PICK e \in Edges : Unfollow(e) /\ Final(raw').edge = e /\ Final(raw').names = table[e].names
    BY <1>1, <2>1, UndoNamed
  <2> DEFINE decided == {i \in 1 .. Len(followers) : followers[i].edge = e /\ followers[i].type # "accepted"}
             follows == {i \in 1 .. Len(raw) : raw[i].verb = "Follow" /\ raw[i].edge = e}
  <2>3. ASSUME CaughtUp(e), decided # {}, followers[Latest(decided)].type = "requested"
        PROVE  follows # {} /\ table[e].names = Latest(follows)
    <3>1. Len(followers) \in Nat
      BY <1>1, Entries DEF IInv
    <3>2. PICK l : l = Latest(decided)
      OBVIOUS
    <3>3. IsLast(l, decided)
      BY <2>3, <3>1, <3>2, LatestIsLast
    <3>4. followers[l].type = "requested"
      BY <2>3, <3>2
    <3> QED BY <1>1, <2>2, <2>3, <3>3, <3>4, UndoFollows
  <2> QED BY <2>2, <2>3
<1> HIDE DEF Step
<1>2. Spec => [][Step]_vars
  BY <1>1, InvariantHolds, PTL DEF Spec
<1> USE DEF Step
<1> QED BY <1>2, PTL DEF UndoNamesTheFollow
=============================================================================
