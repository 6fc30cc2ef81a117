---------------------------- MODULE FollowHandshake ----------------------------
(***************************************************************************)
(* How one actor comes to follow another. The follow_handler answers every *)
(* Follow that arrives, the accept_handler records the answers to the      *)
(* Follows of local users, and the client API publishes the requests of    *)
(* the users. All three publish the state of an edge in the topic          *)
(* "followers", from which the client API and the outbox project a table   *)
(* each.                                                                   *)
(*                                                                         *)
(* Both handlers read the topic "incoming_activities" from its beginning   *)
(* at every start: what they publish again has the message_id of the event *)
(* it answers and is dropped. A request and the answer to a Follow are two *)
(* publishes each, and the process can end between them. A publish is one  *)
(* step (see Publisher and Subscriber).                                    *)
(***************************************************************************)
EXTENDS Integers, Sequences, FiniteSets

CONSTANTS Locals, Remotes,   \* actors
          Edges,             \* who may follow whom: <<follower, following>>
          Noise,             \* verbs of other activities that arrive
          KnownVerbs,        \* the verbs incoming_activities knows
          MaxEvents, MaxRestarts   \* bounds

ASSUME HandshakeAssumption ==
    /\ Locals \cap Remotes = {}
    /\ Edges \subseteq (Locals \X (Locals \cup Remotes)) \cup (Remotes \X Locals)
    /\ Noise \cap {"Follow", "Undo", "Accept", "Reject"} = {}
    /\ {"Follow", "Undo", "Accept", "Reject"} \subseteq KnownVerbs
    /\ {MaxEvents, MaxRestarts} \subseteq Nat

VARIABLES incoming,    \* topic: [verb, edge, of], "of" is the Follow in raw that is answered
          followers,   \* topic: [type, edge, mid, names], mid is a position of incoming, or 0
          raw,         \* topic raw_activities: [verb, edge, mid, names]
          delivered,   \* position of raw up to which local deliveries have arrived
          requests,    \* requests of the API between their two publishes
          fhandler,    \* follow_handler: [pos, bound, half]
          apos,        \* accept_handler: events handled
          table, tpos, \* api.follows: edge -> [state, names]
          up, restarts,   \* the process with all its components
          raced        \* ghost: edges with a request that was answered, or lost, before its second publish

topics == <<incoming, followers, raw>>
tables == <<table, tpos>>
process == <<up, restarts>>
vars == <<topics, delivered, requests, fhandler, apos, tables, process, raced>>

NoRow == [state |-> "none", names |-> 0]
Started == [pos |-> 0, bound |-> FALSE, half |-> FALSE]

-----------------------------------------------------------------------------
(* publishing *)
Event(type, edge, mid, names) == [type |-> type, edge |-> edge, mid |-> mid, names |-> names]
Raw(verb, edge, mid, names) == [verb |-> verb, edge |-> edge, mid |-> mid, names |-> names]

\* The bus drops an event whose message_id is in the topic; 0 stands for a fresh id.
MPublished(topic, event) == Append(topic, event)            \* mutant: replies get fresh ids
Published(topic, event) ==
    IF event.mid # 0 /\ \E i \in 1 .. Len(topic) : topic[i].mid = event.mid
    THEN topic ELSE Append(topic, event)

\* A bound on what arrives, is requested and is decided, together.
MoreToCome ==
    Len(incoming) + Cardinality({i \in 1 .. Len(raw) : raw[i].verb \in {"Follow", "Undo"}})
                  + Cardinality({i \in 1 .. Len(followers) : /\ followers[i].mid = 0
                                                             /\ followers[i].type \in {"accepted", "rejected"}})
       < MaxEvents

-----------------------------------------------------------------------------
(* what arrives *)
Arrives(verb, edge, of) ==
    /\ up /\ MoreToCome
    /\ incoming' = Append(incoming, [verb |-> verb, edge |-> edge, of |-> of])
    \* An answer to a Follow that is not recorded as requested yet.
    /\ raced' = IF verb \in {"Accept", "Reject"} /\ \E r \in requests : r.edge = edge
                THEN raced \cup {edge} ELSE raced
    /\ UNCHANGED <<followers, raw, requests, fhandler, apos, tables, process>>

\* A remote actor follows a user or takes that back; a delivery can be repeated.
RemoteFollows(edge) ==
    /\ edge[1] \in Remotes
    /\ \/ Arrives("Follow", edge, 0)
       \/ /\ \E i \in 1 .. Len(incoming) : incoming[i].verb = "Follow" /\ incoming[i].edge = edge
          /\ Arrives("Undo", edge, 0)
    /\ UNCHANGED delivered

OtherActivity(verb, edge) == edge[1] \in Remotes /\ Arrives(verb, edge, 0) /\ UNCHANGED delivered

\* A remote server accepts the Follow i, rejects it, or both in this order; what it says can
\* be overtaken by an Undo.
RemoteAnswers(i, verb) ==
    LET answers == {incoming[j].verb : j \in {k \in 1 .. Len(incoming) : incoming[k].of = i}}
    IN /\ raw[i].verb = "Follow" /\ raw[i].edge[2] \in Remotes
       /\ \/ verb = "Accept" /\ answers = {}
          \/ verb = "Reject" /\ "Reject" \notin answers
       /\ Arrives(verb, raw[i].edge, i)
       /\ UNCHANGED delivered

ForLocal(i) == (IF raw[i].verb = "Accept" THEN raw[i].edge[1] ELSE raw[i].edge[2]) \in Locals

\* An activity for a local user arrives in the topic incoming_activities, in order.
Deliver(i) ==
    /\ i > delivered /\ ForLocal(i)
    /\ \A j \in delivered + 1 .. i - 1 : ~ForLocal(j)
    /\ delivered' = i
    /\ Arrives(raw[i].verb, raw[i].edge, CASE raw[i].verb = "Accept" -> raw[i].names
                                           [] raw[i].verb = "Follow" -> i
                                           [] OTHER -> 0)

-----------------------------------------------------------------------------
(* the client API *)
\* The first publish of a request: the activity for the other server. Users wait for the end
\* of a request before they make the next one.
Begin(verb, type, edge, names) ==
    /\ up /\ edge[1] \in Locals /\ requests = {}
    /\ MoreToCome
    /\ raw' = Append(raw, Raw(verb, edge, 0, names))
    /\ requests' = requests \cup {[type |-> type, edge |-> edge, names |-> names]}
    /\ UNCHANGED <<incoming, followers, delivered, fhandler, apos, tables, process, raced>>

\* A Follow is named by its own position; an Undo by the Follow of the edge, or 0 for an id
\* that is made up when there is none.
Follow(edge) == Begin("Follow", "requested", edge, Len(raw) + 1)
Unfollow(edge) == Begin("Undo", "deleted", edge, table[edge].names)

\* The second publish.
Record(r) ==
    /\ up /\ r \in requests
    /\ followers' = Append(followers, Event(r.type, r.edge, 0,
                                            IF r.type = "requested" THEN r.names ELSE 0))
    /\ requests' = requests \ {r}
    /\ UNCHANGED <<incoming, raw, delivered, fhandler, apos, tables, process, raced>>

\* A user decides on a request that was shown, even if follow_handler has accepted it by now.
\* Only local followers are ever shown as pending, and those are sent no answer.
Resolve(edge, decision) ==
    /\ up /\ edge[1] \in Locals /\ edge[2] \in Locals /\ MoreToCome
    /\ \E i \in 1 .. tpos : followers[i].type = "requested" /\ followers[i].edge = edge
    /\ followers' = Append(followers, Event(decision, edge, 0, 0))
    /\ UNCHANGED <<incoming, raw, delivered, requests, fhandler, apos, tables, process, raced>>

-----------------------------------------------------------------------------
(* follow_handler *)
Next1 == incoming[fhandler.pos + 1]
HasNext == up /\ fhandler.pos < Len(incoming)
Done == [pos |-> fhandler.pos + 1, bound |-> TRUE, half |-> FALSE]
handlerOnly == <<incoming, delivered, requests, apos, tables, process, raced>>

\* A Follow is recorded first ...
AcceptFollower ==
    /\ HasNext /\ ~fhandler.half /\ Next1.verb = "Follow"
    /\ followers' = Published(followers, Event("accepted", Next1.edge, fhandler.pos + 1, 0))
    /\ fhandler' = [fhandler EXCEPT !.half = TRUE, !.bound = TRUE]
    /\ UNCHANGED <<handlerOnly, raw>>

\* ... and then answered.
AnswerFollow ==
    /\ HasNext /\ fhandler.half
    /\ raw' = Published(raw, Raw("Accept", Next1.edge, fhandler.pos + 1, Next1.of))
    /\ fhandler' = Done
    /\ UNCHANGED <<handlerOnly, followers>>

DropFollower ==
    /\ HasNext /\ Next1.verb = "Undo"
    /\ followers' = Published(followers, Event("deleted", Next1.edge, fhandler.pos + 1, 0))
    /\ fhandler' = Done
    /\ UNCHANGED <<handlerOnly, raw>>

\* Other verbs are ignored, with the username and activity of this event, or those left over
\* from the event before when the verb is not known. Before the first known verb these names
\* are unbound: the handler raises, and with it the process ends.
Ignore ==
    /\ HasNext /\ Next1.verb \notin {"Follow", "Undo"}
    /\ Next1.verb \in KnownVerbs \/ fhandler.bound
    /\ fhandler' = Done
    /\ UNCHANGED <<handlerOnly, followers, raw>>

Unbound ==
    /\ HasNext /\ Next1.verb \notin KnownVerbs /\ ~fhandler.bound
    /\ up' = FALSE
    /\ UNCHANGED <<topics, delivered, requests, fhandler, apos, tables, restarts, raced>>

FollowHandler == AcceptFollower \/ AnswerFollow \/ DropFollower \/ Ignore \/ Unbound

(* accept_handler *)
Outcome(verb) == IF verb = "Accept" THEN "accepted" ELSE "rejected"
AcceptHandler ==
    /\ up /\ apos < Len(incoming)
    /\ apos' = apos + 1
    /\ followers' = IF incoming[apos'].verb \in {"Accept", "Reject"}
                    THEN Published(followers, Event(Outcome(incoming[apos'].verb),
                                                    incoming[apos'].edge, apos', 0))
                    ELSE followers
    /\ UNCHANGED <<incoming, raw, delivered, requests, fhandler, tables, process, raced>>

-----------------------------------------------------------------------------
Row(row, e) == IF e.type \in {"requested", "accepted"}
               THEN [state |-> e.type, names |-> IF e.names # 0 THEN e.names ELSE row.names]
               ELSE NoRow

ProjectFollows ==
    /\ up /\ tpos < Len(followers)
    /\ tpos' = tpos + 1
    /\ table' = [table EXCEPT ![followers[tpos'].edge] = Row(@, followers[tpos'])]
    /\ UNCHANGED <<topics, delivered, requests, fhandler, apos, process, raced>>

\* What the outbox reads of the topic in the end; nothing but requests from outside looks at it
\* in between.
MFans(fans, e) == IF e.type = "accepted" THEN fans \cup {e.edge} ELSE fans   \* mutant: nobody leaves
Fans(fans, e) == CASE e.type = "accepted" -> fans \cup {e.edge}
                   [] e.type = "deleted" -> fans \ {e.edge}
                   [] OTHER -> fans
Outbox ==
    LET after[n \in 0 .. Len(followers)] == IF n = 0 THEN {} ELSE Fans(after[n - 1], followers[n])
    IN after[Len(followers)]

-----------------------------------------------------------------------------
\* The tasks and the tables start anew; requests under way are lost.
MReset == /\ fhandler' = [fhandler EXCEPT !.half = FALSE,   \* mutant: the handler goes on behind
                            !.pos = IF fhandler.half THEN @ + 1 ELSE @]
          /\ apos' = 0 /\ requests' = {}
          /\ table' = [e \in Edges |-> NoRow] /\ tpos' = 0
Reset == /\ fhandler' = Started
         /\ apos' = 0 /\ requests' = {}
         /\ table' = [e \in Edges |-> NoRow] /\ tpos' = 0

Restart ==
    /\ up => restarts < MaxRestarts
    /\ restarts' = IF up THEN restarts + 1 ELSE restarts
    /\ up' = TRUE
    /\ Reset
    /\ raced' = raced \cup {r.edge : r \in requests}
    /\ UNCHANGED <<topics, delivered>>

Init ==
    /\ incoming = <<>> /\ followers = <<>> /\ raw = <<>>
    /\ delivered = 0 /\ requests = {} /\ raced = {}
    /\ fhandler = Started /\ apos = 0
    /\ table = [e \in Edges |-> NoRow] /\ tpos = 0
    /\ up = TRUE /\ restarts = 0

Next ==
    \/ \E e \in Edges : RemoteFollows(e) \/ Follow(e) \/ Unfollow(e)
    \/ \E e \in Edges, decision \in {"accepted", "rejected"} : Resolve(e, decision)
    \/ \E e \in Edges, verb \in Noise : OtherActivity(verb, e)
    \/ \E i \in 1 .. Len(raw) : Deliver(i) \/ \E verb \in {"Accept", "Reject"} : RemoteAnswers(i, verb)
    \/ \E r \in requests : Record(r)
    \/ FollowHandler \/ AcceptHandler \/ ProjectFollows \/ Restart

Spec == Init /\ [][Next]_vars
\* Tasks run on, and a process that has ended is started again.
FairSpec == Spec /\ WF_vars(FollowHandler) /\ WF_vars(AcceptHandler)
                 /\ WF_vars(~up /\ Restart)

-----------------------------------------------------------------------------
(* properties *)
\* The last of some positions of a topic.
Latest(positions) == CHOOSE i \in positions : \A j \in positions : j <= i
Final(seq) == seq[Len(seq)]
Types == {"requested", "accepted", "rejected", "deleted"}

\* Types of topics, tables and handlers; neither a reader nor a table is ahead of its topic.
TypeOK ==
    /\ incoming \in Seq([verb : KnownVerbs \cup Noise, edge : Edges, of : 0 .. Len(raw)])
    /\ followers \in Seq([type : Types, edge : Edges, mid : 0 .. Len(incoming), names : 0 .. Len(raw)])
    /\ raw \in Seq([verb : {"Follow", "Undo", "Accept"}, edge : Edges,
                    mid : 0 .. Len(incoming), names : 0 .. Len(raw)])
    /\ delivered \in 0 .. Len(raw)
    /\ requests \subseteq [type : Types, edge : Edges, names : 0 .. Len(raw)]
    /\ fhandler \in [pos : 0 .. Len(incoming), bound : BOOLEAN, half : BOOLEAN]
    /\ apos \in 0 .. Len(incoming)
    /\ table \in [Edges -> [state : Types \cup {"none"}, names : 0 .. Len(raw)]]
    /\ tpos \in 0 .. Len(followers) /\ raced \subseteq Edges
    /\ up \in BOOLEAN /\ restarts \in 0 .. MaxRestarts

\* What an activity is recorded as, by the handler that answers it.
Meaning == [Follow |-> "accepted", Undo |-> "deleted", Accept |-> "accepted", Reject |-> "rejected"]

\* The events that record the activities of a handler.
RecordsOf(verbs) == {i \in 1 .. Len(followers) : /\ followers[i].mid # 0
                                                /\ incoming[followers[i].mid].verb \in verbs}

\* What follow_handler has recorded is, at every moment and over all restarts, a prefix of the
\* Follows and Undos that have arrived, each once, in their order and as what it was: a replay
\* never brings back a follower who has left. The same holds for accept_handler and the answers.
RecordedInOrder ==
    \A verbs \in {{"Follow", "Undo"}, {"Accept", "Reject"}} :
       /\ \A i, j \in RecordsOf(verbs) : i < j => followers[i].mid < followers[j].mid
       /\ \A i \in RecordsOf(verbs), m \in 1 .. Len(incoming) :
             m < followers[i].mid /\ incoming[m].verb \in verbs
                => \E j \in RecordsOf(verbs) : followers[j].mid = m
       /\ \A i \in RecordsOf(verbs) : LET activity == incoming[followers[i].mid]
                                     IN /\ followers[i].edge = activity.edge
                                        /\ followers[i].type = Meaning[activity.verb]

\* Nothing that concerns an edge is under way, and no request on it was overtaken by its answer or lost.
CaughtUp(e) == up /\ tpos = Len(followers) /\ (\A r \in requests : r.edge # e) /\ e \notin raced
AtRest(e) == CaughtUp(e) /\ fhandler.pos = Len(incoming) /\ apos = Len(incoming)

\* What a user asked for.
Asked(e) == {i \in 1 .. Len(raw) : raw[i].verb \in {"Follow", "Undo"} /\ raw[i].edge = e}

\* What the client API says of a follow of a remote actor agrees with what was said: it is
\* accepted when the last answer accepts it, pending while nobody has answered the request
\* that is shown, and gone when the last answer rejects it or the user took it back.
FollowStateIsTrue ==
    \A e \in Edges : e[1] \in Locals /\ e[2] \in Remotes /\ AtRest(e) =>
       LET answers == {m \in 1 .. Len(incoming) : incoming[m].verb \in {"Accept", "Reject"} /\ incoming[m].edge = e}
           asked == Asked(e)
           LastAnswer(verb) == answers # {} /\ incoming[Latest(answers)].verb = verb
           row == table[e]
       IN CASE row.state = "accepted" -> LastAnswer("Accept")
            [] row.state = "requested" -> /\ asked # {} /\ row.names = Latest(asked)
                                          /\ \A m \in answers : incoming[m].of # row.names
            [] OTHER -> asked = {} \/ LastAnswer("Reject") \/ raw[Latest(asked)].verb = "Undo"

\* The outbox and the client API agree on who follows a local user, once both have read the
\* topic, although the outbox knows neither requests nor rejections.
TablesAgree ==
    tpos = Len(followers) =>
       \A e \in Edges : e[1] \in Remotes => (e \in Outbox <=> table[e].state = "accepted")

\* What the client API and the outbox show of the follows is what was said.
TablesAreTrue == FollowStateIsTrue /\ TablesAgree

\* An Undo names the last Follow of its edge, also when an Accept, which has no id, was
\* recorded in between.
UndoNamesTheFollow ==
    [][ Len(raw') > Len(raw) /\ Final(raw').verb = "Undo" =>
          LET e == Final(raw').edge
              decided == {i \in 1 .. Len(followers) : followers[i].edge = e /\ followers[i].type # "accepted"}
              follows == {i \in 1 .. Len(raw) : raw[i].verb = "Follow" /\ raw[i].edge = e}
          IN CaughtUp(e) /\ decided # {} /\ followers[Latest(decided)].type = "requested"
             => follows # {} /\ Final(raw').names = Latest(follows) ]_vars

\* Every Follow that arrives is recorded and answered in the end, across an end of the process
\* between the two publishes, provided the first activity ever had a known verb.
Answered(i) == /\ \E k \in 1 .. Len(followers) : followers[k].mid = i /\ followers[k].type = "accepted"
               /\ \E k \in 1 .. Len(raw) : raw[k].mid = i
Waiting == /\ incoming # <<>> /\ incoming[1].verb \in KnownVerbs
           /\ \E i \in 1 .. Len(incoming) : incoming[i].verb = "Follow" /\ ~Answered(i)
EveryFollowIsAnswered == Waiting ~> ~Waiting

\* A follow is answered in the end, and taken back by its name.
FollowsAreSettled == UndoNamesTheFollow /\ EveryFollowIsAnswered

\* An activity that is no business of the follow_handler does nothing to it. Not so: see Unbound.
OtherActivitiesAreIgnored == up
=============================================================================
