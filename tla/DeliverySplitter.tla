---------------------------- MODULE DeliverySplitter ----------------------------
(***************************************************************************)
(* The delivery_splitter: it projects the topic "followers" to a history   *)
(* of who followed whom when, and turns every activity of the topic        *)
(* "deliverable_activities" into one "queued" event of "deliveries" for    *)
(* each recipient. It remembers who received an object, so that an update, *)
(* a deletion or an undone boost can follow it.                            *)
(*                                                                         *)
(* Both topics are consumed by tasks of their own. The tables are emptied  *)
(* and projected anew at every start, first the followers, then the        *)
(* activities, whose deliveries are published again and dropped by their   *)
(* message ids. A publish is one step (see Publisher and Subscriber).      *)
(***************************************************************************)
EXTENDS Integers, Sequences, FiniteSets

CONSTANTS Users,        \* local users
          Remotes,      \* actors that follow, or are addressed
          Objects,
          Boostable,    \* the objects that users boost
          Own, Author,  \* the objects written here, and the local user who writes them
          Verbs,        \* the activities of a run
          Forever,      \* the upper bound of an open range
          Tidy,         \* TRUE: an edge is accepted once and deleted at most once
          Interrupts,   \* TRUE: the hand-off from rebuild to handle_events cancels a fan-out
          MaxFollower, MaxActivity, MaxRestarts   \* bounds

ASSUME SplitterAssumption ==
    /\ Verbs \subseteq {"Create", "Update", "Delete", "Announce", "UndoAnnounce", "Directed"}
    /\ Boostable \subseteq Objects
    /\ Forever \notin Nat /\ Own \subseteq Objects
    /\ {Tidy, Interrupts} \subseteq BOOLEAN
    /\ {MaxFollower, MaxActivity, MaxRestarts} \subseteq Nat

VARIABLES followers,   \* topic: [type, edge, at]
          activities,  \* topic: [verb, id, user, obj, public, to, at]
          clock,       \* emitted_at of the next event
          history,     \* follower_history: edge -> [from, until]
          recipients,  \* object_recipients: object -> set of actors
          fpos, apos,  \* positions of the two projections
          fhead, ahead,
          phase,       \* "followers", "rebuild" or "live"
          job,         \* the fan-out in progress, if any
          deliveries,  \* topic, its "queued" events: [id, to, pos]
          late,        \* ghost: public activities handled, at some time, before a follower event they come after
          restarts

vars == <<followers, activities, clock, history, recipients, fpos, apos, fhead, ahead,
          phase, job, deliveries, late, restarts>>
topics == <<followers, activities, clock>>
starting == <<fhead, ahead, phase, restarts>>

Edges == Remotes \X Users      \* follower, following
Empty == [x \in {} |-> {}]
Put(f, k, v) == [x \in DOMAIN f \cup {k} |-> IF x = k THEN v ELSE f[x]]
Drop(f, k) == [x \in DOMAIN f \ {k} |-> f[x]]
Idle == [pos |-> 0, all |-> {}, todo |-> {}, stored |-> TRUE]

-----------------------------------------------------------------------------
(* what other components publish *)
EventsOf(edge) == {i \in 1 .. Len(followers) : followers[i].edge = edge}

Follower(type, edge) ==
    /\ Len(followers) < MaxFollower
    /\ Tidy => \A i \in EventsOf(edge) : followers[i].type # type
    /\ type = "deleted" => EventsOf(edge) # {}
    /\ Tidy /\ type = "accepted" => EventsOf(edge) = {}
    /\ followers' = Append(followers, [type |-> type, edge |-> edge, at |-> clock])
    /\ clock' = clock + 1
    /\ UNCHANGED <<activities, history, recipients, fpos, apos, job, deliveries, late, starting>>

Sent(verb, o) == \E i \in 1 .. Len(activities) : activities[i].verb = verb /\ activities[i].obj = o
\* Boosts of an object by a user that are not undone.
Boosted(u, o) ==
    LET n(verb) == Cardinality({i \in 1 .. Len(activities) :
                       activities[i].verb = verb /\ activities[i].user = u /\ activities[i].obj = o})
    IN n("Announce") > n("UndoAnnounce")

\* An update of a post is published when an unresolved mention of it is resolved, or when
\* its content is healed, under the id of its creation. A deletion has one id per object,
\* boosts and undos have fresh ones.
IdOf(verb, o) ==
    [verb |-> IF verb = "Update" THEN "Create" ELSE verb, obj |-> o,
     n |-> IF verb \in {"Create", "Update", "Delete"} THEN 0 ELSE Len(activities) + 1]

Possible(verb, u, o) ==
    CASE verb = "Create" -> o \in Own /\ u = Author /\ ~Sent("Create", o)
      [] verb = "Update" -> u = Author /\ Sent("Create", o) /\ ~Sent("Delete", o)
      [] verb = "Delete" -> u = Author /\ Sent("Create", o) /\ ~Sent("Delete", o)
      [] verb = "Announce" -> /\ o \in Boostable
                              /\ o \in Own => Sent("Create", o) /\ ~Sent("Delete", o)
                              /\ ~Boosted(u, o)
      [] verb = "UndoAnnounce" -> Boosted(u, o)
      [] OTHER -> TRUE

\* What an activity can be addressed to: everyone (or all followers), and single actors.
Addressing(verb, public, to) ==
    CASE verb \in {"Create", "Update"} -> TRUE
      [] verb = "Announce" -> public
      [] verb = "Directed" -> ~public /\ Cardinality(to) = 1
      [] OTHER -> ~public /\ to = {}

Activity(verb, u, o, public, to) ==
    /\ Len(activities) < MaxActivity
    /\ Possible(verb, u, o)
    /\ Addressing(verb, public, to)
    /\ activities' = Append(activities, [verb |-> verb, id |-> IdOf(verb, o), user |-> u, obj |-> o,
                                         public |-> public, to |-> to, at |-> clock])
    /\ clock' = clock + 1
    /\ UNCHANGED <<followers, history, recipients, fpos, apos, job, deliveries, late, starting>>

-----------------------------------------------------------------------------
(* storage *)
AcceptEdge(h, edge, at) == Put(h, edge, [from |-> at, until |-> Forever])
DeleteEdge(h, edge, at) == IF edge \in DOMAIN h THEN [h EXCEPT ![edge].until = at] ELSE h

MContains(range, at) == range.until = Forever                          \* mutant: who follows now
NContains(range, at) == range.until = Forever \/ at < range.until      \* mutant: no lower bound
Contains(range, at) == range.from <= at /\ (range.until = Forever \/ at < range.until)
RecipientsAt(u, at) ==
    {r \in Remotes : <<r, u>> \in DOMAIN history /\ Contains(history[<<r, u>>], at)}

GetRecipients(o) == IF o \in DOMAIN recipients THEN recipients[o] ELSE {}

-----------------------------------------------------------------------------
(* the projection of the followers *)
ApplyFollower ==
    /\ fpos < Len(followers) /\ (phase = "followers" => fpos <= fhead)
    /\ fpos' = fpos + 1
    /\ LET e == followers[fpos + 1]
       IN history' = IF e.type = "accepted" THEN AcceptEdge(history, e.edge, e.at)
                     ELSE DeleteEdge(history, e.edge, e.at)
    /\ UNCHANGED <<topics, recipients, apos, job, deliveries, late, starting>>

-----------------------------------------------------------------------------
(* the fan-out *)
FollowersAndMentions(a) == (IF a.public THEN RecipientsAt(a.user, a.at) ELSE {}) \cup a.to

RecipientsOf(a) ==
    CASE a.verb \in {"Create", "Announce"} -> FollowersAndMentions(a)
      [] a.verb = "Update" -> GetRecipients(a.obj) \cup FollowersAndMentions(a)
      [] a.verb \in {"Delete", "UndoAnnounce"} -> GetRecipients(a.obj)
      [] OTHER -> a.to

MKeeps(a) == a.verb \notin {"Directed", "Announce"}    \* mutant: boosts leave no trace
Keeps(a) == a.verb # "Directed"

Handle ==
    /\ phase # "followers" /\ job = Idle /\ apos < Len(activities)
    /\ phase = "rebuild" => apos <= ahead
    /\ LET a == activities[apos + 1]
           all == RecipientsOf(a)
       IN /\ job' = [pos |-> apos + 1, all |-> all, todo |-> all, stored |-> ~Keeps(a)]
          /\ late' = IF a.public /\ \E i \in fpos + 1 .. Len(followers) : followers[i].at < a.at
                     THEN late \cup {apos + 1} ELSE late
    /\ UNCHANGED <<topics, history, recipients, fpos, apos, deliveries, starting>>

\* persist and _publish_deliveries run concurrently.
Persist ==
    /\ ~job.stored
    /\ job' = [job EXCEPT !.stored = TRUE]
    /\ LET a == activities[job.pos]
       IN recipients' = IF a.verb \in {"Delete", "UndoAnnounce"} THEN Drop(recipients, a.obj)
                        ELSE Put(recipients, a.obj, job.all)
    /\ UNCHANGED <<topics, history, fpos, apos, deliveries, late, starting>>

Queued(id, r) == \E d \in deliveries : d.id = id /\ d.to = r

PublishDelivery(r) ==
    /\ r \in job.todo
    /\ job' = [job EXCEPT !.todo = @ \ {r}]
    /\ LET id == activities[job.pos].id
       IN deliveries' = IF Queued(id, r) THEN deliveries
                        ELSE deliveries \cup {[id |-> id, to |-> r, pos |-> job.pos]}
    /\ UNCHANGED <<late, topics, history, recipients, fpos, apos, starting>>

Finish ==
    /\ job # Idle /\ job.todo = {} /\ job.stored
    /\ job' = Idle
    /\ apos' = apos + 1
    /\ UNCHANGED <<topics, history, recipients, fpos, deliveries, late, starting>>

-----------------------------------------------------------------------------
(* DeliverySplitter: rebuild the followers, then the activities, then run *)
FollowersRebuilt ==
    /\ phase = "followers" /\ fpos >= fhead
    /\ phase' = "rebuild" /\ ahead' = Len(activities)
    /\ fpos' \in {fpos} \cup (IF fpos > fhead THEN {fpos - 1} ELSE {})
    /\ UNCHANGED <<topics, history, recipients, apos, job, deliveries, late, fhead, restarts>>

\* The drain goes one event beyond the head. It is cancelled in its dispatch, which
\* handle_events begins anew.
ActivitiesRebuilt ==
    /\ phase = "rebuild" /\ apos >= ahead
    /\ Interrupts \/ job = Idle
    /\ phase' = "live" /\ job' = Idle
    /\ UNCHANGED <<topics, history, recipients, fpos, apos, deliveries, late, fhead, ahead, restarts>>

Restart ==
    /\ restarts < MaxRestarts
    /\ restarts' = restarts + 1
    /\ history' = Empty /\ recipients' = Empty /\ job' = Idle
    /\ fpos' = 0 /\ apos' = 0 /\ fhead' = Len(followers) /\ ahead' = 0 /\ phase' = "followers"
    /\ UNCHANGED <<topics, deliveries, late>>

Init == /\ followers = << >> /\ activities = << >> /\ clock = 1
        /\ history = Empty /\ recipients = Empty /\ job = Idle
        /\ fpos = 0 /\ apos = 0 /\ fhead = 0 /\ ahead = 0 /\ phase = "followers"
        /\ deliveries = {} /\ late = {} /\ restarts = 0

Next == \/ \E type \in {"accepted", "deleted"}, edge \in Edges : Follower(type, edge)
        \/ \E verb \in Verbs, u \in Users, o \in Objects, public \in BOOLEAN,
              to \in {{}} \cup {{r} : r \in Remotes} : Activity(verb, u, o, public, to)
        \/ ApplyFollower \/ Handle \/ Persist \/ Finish
        \/ \E r \in Remotes : PublishDelivery(r)
        \/ FollowersRebuilt \/ ActivitiesRebuilt \/ Restart

Spec == Init /\ [][Next]_vars
-----------------------------------------------------------------------------
TypeOK ==
    /\ DOMAIN history \subseteq Edges
    /\ \A e \in DOMAIN history : /\ history[e].from \in 1 .. clock - 1
                                 /\ history[e].until \in 1 .. clock - 1 \cup {Forever}
                                 /\ history[e].until # Forever => history[e].from < history[e].until
    /\ DOMAIN recipients \subseteq Objects
    /\ \A o \in DOMAIN recipients : recipients[o] \subseteq Remotes
    /\ fpos \in 0 .. Len(followers) /\ apos \in 0 .. Len(activities)
    /\ job.pos \in {0, apos + 1} /\ job.todo \subseteq job.all /\ late \subseteq 1 .. Len(activities)
    /\ phase \in {"followers", "rebuild", "live"}

\* Who followed whom at a time, by the topic.
FollowsAt(r, u, at) ==
    \E i \in EventsOf(<<r, u>>) :
       /\ followers[i].type = "accepted" /\ followers[i].at <= at
       /\ \A j \in EventsOf(<<r, u>>) : j > i => followers[j].type # "deleted" \/ followers[j].at > at

\* Who was sent an activity, or an earlier one with the same id.
Received(pos) == {d.to : d \in {e \in deliveries : e.id = activities[pos].id}}
About(verbs, o, before) == {i \in 1 .. before - 1 : activities[i].verb \in verbs /\ activities[i].obj = o}

\* A deletion goes to everyone who ever received the object, whoever follows by then and
\* however far the projection of the followers lags; after a restart it still does unless
\* an audience was taken from a history that lagged.
DeleteReachesEveryone ==
    \A i \in 1 .. apos : activities[i].verb = "Delete" =>
       LET seen == About({"Create", "Update"}, activities[i].obj, i)
       IN restarts = 0 \/ seen \cap late = {} => \A j \in seen : Received(j) \subseteq Received(i)

\* Everyone who followed the author when a public post was written gets it, and nobody
\* who did not: the history decides, not who follows when the event is handled, as long as
\* the follower events that precede the post are projected by then.
FollowersOfTheTimeGetIt ==
    \A i \in (1 .. apos) \ late : activities[i].verb = "Create" /\ activities[i].public =>
       \A r \in Remotes : FollowsAt(r, activities[i].user, activities[i].at) => r \in Received(i)

NoStrangers ==
    \A d \in deliveries :
       LET a == activities[d.pos]
       IN a.verb = "Create" /\ d.pos \notin late => d.to \in a.to \/ (a.public /\ FollowsAt(d.to, a.user, a.at))

\* An update is sent to everyone who was sent an earlier version of the object.  Not so
\* for an update that polish_activities publishes under the id of the creation.
UpdateReachesEveryone ==
    \A i \in 1 .. apos : activities[i].verb = "Update" =>
       \A j \in About({"Create", "Update"}, activities[i].obj, i) :
          \A r \in Received(j) : [id |-> activities[i].id, to |-> r, pos |-> i] \in deliveries

\* An undone boost goes to everyone who saw it, with the same reservation.
UndoneBoostReachesEveryone ==
    \A i \in 1 .. apos : activities[i].verb = "UndoAnnounce" =>
       \A j \in About({"Announce"}, activities[i].obj, i) :
          activities[j].user = activities[i].user /\ (restarts = 0 \/ j \notin late)
          /\ (\A k \in j + 1 .. i - 1 : ~(/\ activities[k].verb = "UndoAnnounce"
                                          /\ activities[k].obj = activities[i].obj
                                          /\ activities[k].user = activities[i].user))
          => Received(j) \subseteq Received(i)

\* What is taken back is taken back from everyone who has it.
WithdrawnFromEveryone == DeleteReachesEveryone /\ UndoneBoostReachesEveryone
=============================================================================
