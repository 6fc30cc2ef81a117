----------------------------- MODULE SplitterProofs -----------------------------
(***************************************************************************)
(* For any users, followers, objects and restarts: who was sent a post is  *)
(* who followed its author when it was written, as long as the follower    *)
(* events that precede the post were projected when it was handled; and    *)
(* what is taken back is taken back from everyone who has it.              *)
(*                                                                         *)
(* The argument compares the ranges of the history with the topic they are *)
(* made of. A follow lasts from one event to another, whichever of them    *)
(* are projected: what an activity that is not late sees of the history is *)
(* its audience, the same at every start.                                  *)
(***************************************************************************)
EXTENDS DeliverySplitter, FiniteSetTheorems, TLAPS

AllVerbs == {"Create", "Update", "Delete", "Announce", "UndoAnnounce", "Directed"}
Ids == [verb : AllVerbs, obj : Objects, n : Nat]
Acts == [verb : AllVerbs, id : Ids, user : Users, obj : Objects, public : BOOLEAN, to : SUBSET Remotes, at : Nat]
FollowerEvents == [type : {"accepted", "deleted"}, edge : Edges, at : Nat]
Ranges == [from : Nat, until : Nat \cup {Forever}]
Jobs == [pos : Nat, all : SUBSET Remotes, todo : SUBSET Remotes, stored : BOOLEAN]
Deliveries == [id : Ids, to : Remotes, pos : Nat]

Typed ==
    /\ followers \in Seq(FollowerEvents) /\ activities \in Seq(Acts) /\ clock \in Nat
    /\ history \in [DOMAIN history -> Ranges] /\ DOMAIN history \subseteq Edges
    /\ recipients \in [DOMAIN recipients -> SUBSET Remotes] /\ DOMAIN recipients \subseteq Objects
    /\ fpos \in 0 .. Len(followers) /\ apos \in 0 .. Len(activities) /\ fhead \in Nat
    /\ job \in Jobs /\ job.todo \subseteq job.all
    /\ job # Idle => job.pos = apos + 1 /\ apos < Len(activities)
    /\ deliveries \subseteq Deliveries /\ late \subseteq 1 .. Len(activities)
    /\ restarts \in Nat

\* The clock puts the events of both topics in one order.
Timed ==
    /\ \A i \in 1 .. Len(followers) : followers[i].at < clock
    /\ \A i \in 1 .. Len(activities) : activities[i].at < clock
    /\ \A i, j \in 1 .. Len(followers) : i < j => followers[i].at < followers[j].at
    /\ \A i \in 1 .. Len(followers), j \in 1 .. Len(activities) : followers[i].at # activities[j].at

Started ==
    /\ phase \in {"followers", "rebuild", "live"} /\ 0 < clock
    /\ \A i \in 1 .. Len(followers) : 0 < followers[i].at

\* An edge is accepted, and then deleted.
OnceEach ==
    \A i, j \in 1 .. Len(followers) :
       i < j /\ followers[i].edge = followers[j].edge
       => followers[i].type = "accepted" /\ followers[j].type = "deleted"

\* The history has the ranges of the events that were projected, or a part of what the topic says.
Of(i, type, e) == followers[i].type = type /\ followers[i].edge = e
HistoryIsTrue ==
    /\ \A i \in 1 .. fpos : followers[i].type = "accepted" => followers[i].edge \in DOMAIN history
    /\ \A e \in DOMAIN history :
          /\ \E i \in 1 .. Len(followers) : Of(i, "accepted", e) /\ history[e].from = followers[i].at
          /\ IF history[e].until = Forever
             THEN \A i \in 1 .. fpos : ~Of(i, "deleted", e)
             ELSE \E i \in 1 .. Len(followers) : Of(i, "deleted", e) /\ history[e].until = followers[i].at

\* Who an activity is for: the followers of its time, and who it names.
Followed(a) == IF a.public THEN {r \in Remotes : FollowsAt(r, a.user, a.at)} ELSE {}
Audience(p) == Followed(activities[p]) \cup activities[p].to

\* Deliveries are made for the activity they name, and those of a fan-out that are done are there.
Accounted ==
    /\ \A d \in deliveries : d.pos \in 1 .. Len(activities) /\ d.id = activities[d.pos].id
    /\ job # Idle => \A r \in job.all \ job.todo : Queued(activities[job.pos].id, r)

\* A fan-out is for the audience.
Is(p, verbs) == activities[p].verb \in verbs
InAudience ==
    /\ job # Idle /\ Is(job.pos, {"Create", "Announce"}) /\ job.pos \notin late => job.all = Audience(job.pos)
    /\ \A d \in deliveries : Is(d.pos, {"Create", "Announce"}) /\ d.pos \notin late => d.to \in Audience(d.pos)

Reached == \A i \in (1 .. apos) \ late : Is(i, {"Create"}) => Audience(i) \subseteq Received(i)

SentInv == Typed /\ Timed /\ Started /\ OnceEach /\ HistoryIsTrue /\ Accounted /\ InAudience /\ Reached

-----------------------------------------------------------------------------
Posts == {"Create", "Update", "Delete"}
Boosts == {"Announce", "UndoAnnounce"}

\* The life of an object in the topic, and the ids of its activities.
Lives ==
    /\ \A i \in 1 .. Len(activities) :
          LET a == activities[i]
          IN /\ a.id = [verb |-> IF a.verb = "Update" THEN "Create" ELSE a.verb, obj |-> a.obj,
                        n |-> IF a.verb \in Posts THEN 0 ELSE i]
             /\ a.verb \in Posts => a.obj \in Own
             /\ a.verb \in Boosts => a.obj \in Boostable
    /\ \A i, j \in 1 .. Len(activities) :
          i # j /\ activities[i].obj = activities[j].obj /\ Is(j, Posts) =>
             /\ Is(i, {"Create"}) => i < j
             /\ Is(i, {"Delete"}) => j < i
    /\ \A i \in 1 .. Len(activities) : Is(i, Posts) =>
          \E k \in 1 .. Len(activities) : Is(k, {"Create"}) /\ activities[k].obj = activities[i].obj

\* The versions of an object, and those up to a position.
Versions(o) == {i \in 1 .. Len(activities) : Is(i, {"Create", "Update"}) /\ activities[i].obj = o}
Settled(o) == Versions(o) \cap late = {}
DeletedBy(o, p) == \E i \in 1 .. p : Is(i, {"Delete"}) /\ activities[i].obj = o
MayHave(o, p) == {r \in Remotes : \E j \in Versions(o) : j <= p /\ r \in Audience(j)}
Holders(o) == {d.to : d \in {e \in deliveries : e.id = [verb |-> "Create", obj |-> o, n |-> 0]}}

\* The fan-out of a version, and that of the deletion.
SendsVersion(o) == job # Idle /\ Is(job.pos, {"Create", "Update"}) /\ activities[job.pos].obj = o
SendsDelete(o) == job # Idle /\ Is(job.pos, {"Delete"}) /\ activities[job.pos].obj = o
Keeping == ~job.stored => ~Is(job.pos, {"Directed"})

\* The table has what was persisted, of a version that was handled.
Remembered(o) ==
    /\ SendsVersion(o) /\ job.stored => GetRecipients(o) = job.all
    /\ GetRecipients(o) # {} => \E j \in Versions(o) : j <= apos \/ (job # Idle /\ j = job.pos)
\* Before the first restart it has everyone who was sent a version, ...
NobodyForgotten(o) ==
    restarts = 0 =>
       /\ ~DeletedBy(o, apos) /\ ~SendsDelete(o) =>
             Holders(o) \subseteq GetRecipients(o) \cup (IF SendsVersion(o) THEN job.all ELSE {})
       /\ SendsVersion(o) => GetRecipients(o) \subseteq job.all
\* ... and after it everyone a version is for, when all were sent to their audience.
EveryoneKnown(o) ==
    Settled(o) =>
       /\ \A d \in deliveries : d.pos \in Versions(o) => d.to \in MayHave(o, d.pos)
       /\ GetRecipients(o) \subseteq MayHave(o, apos + 1)
       /\ SendsVersion(o) => job.all = MayHave(o, apos + 1)
       /\ ~DeletedBy(o, apos) /\ ~SendsDelete(o) => MayHave(o, apos) \subseteq GetRecipients(o)
Deleting(o) == SendsDelete(o) /\ (restarts = 0 \/ Settled(o)) => Holders(o) \subseteq job.all
Traced(o) == Remembered(o) /\ NobodyForgotten(o) /\ EveryoneKnown(o) /\ Deleting(o)

DeleteInv == Lives /\ Keeping /\ (\A o \in Own : Traced(o)) /\ DeleteReachesEveryone
-----------------------------------------------------------------------------
(* The topics: what a step can do to them. *)
LEMMA Sorts ==
  ASSUME Typed
  PROVE  /\ Len(followers) \in Nat /\ Len(activities) \in Nat /\ fpos \in Nat /\ apos \in Nat
         /\ fpos <= Len(followers) /\ apos <= Len(activities)
         /\ \A i \in 1 .. Len(followers) : /\ followers[i] \in FollowerEvents
                                           /\ followers[i].type \in {"accepted", "deleted"}
                                           /\ followers[i].edge \in Edges /\ followers[i].at \in Nat
         /\ \A i \in 1 .. Len(activities) : /\ activities[i] \in Acts /\ activities[i].at \in Nat
                                            /\ activities[i].id \in Ids /\ activities[i].user \in Users
                                            /\ activities[i].to \subseteq Remotes /\ activities[i].obj \in Objects
                                            /\ activities[i].verb \in AllVerbs
         /\ job.pos \in Nat /\ job.all \subseteq Remotes /\ job.todo \subseteq Remotes /\ job.stored \in BOOLEAN
         /\ job # Idle => job.pos \in 1 .. Len(activities)
<1>1. Len(followers) \in Nat /\ Len(activities) \in Nat
  BY DEF Typed
<1>2. fpos \in Nat /\ apos \in Nat /\ fpos <= Len(followers) /\ apos <= Len(activities)
  BY <1>1 DEF Typed
<1>3. /\ \A i \in 1 .. Len(followers) : followers[i] \in FollowerEvents
      /\ \A i \in 1 .. Len(activities) : activities[i] \in Acts
  BY DEF Typed
<1>4. \A e \in FollowerEvents : e.type \in {"accepted", "deleted"} /\ e.edge \in Edges /\ e.at \in Nat
  BY DEF FollowerEvents
<1>5. \A a \in Acts : /\ a.at \in Nat /\ a.id \in Ids /\ a.user \in Users /\ a.to \subseteq Remotes
                      /\ a.obj \in Objects /\ a.verb \in AllVerbs
  BY DEF Acts
<1>6. job.pos \in Nat /\ job.all \subseteq Remotes /\ job.todo \subseteq Remotes /\ job.stored \in BOOLEAN
  BY DEF Typed, Jobs
<1>7. job # Idle => job.pos \in 1 .. Len(activities)
  BY <1>1, <1>2 DEF Typed
<1> QED BY <1>1, <1>2, <1>3, <1>4, <1>5, <1>6, <1>7

LEMMA FollowerAppends ==
  ASSUME Typed, NEW type \in {"accepted", "deleted"}, NEW edge \in Edges, Follower(type, edge)
  PROVE  /\ followers' \in Seq(FollowerEvents) /\ Len(followers') = Len(followers) + 1
         /\ \A i \in 1 .. Len(followers) : followers'[i] = followers[i]
         /\ followers'[Len(followers) + 1] = [type |-> type, edge |-> edge, at |-> clock]
<1>1. followers \in Seq(FollowerEvents) /\ clock \in Nat
  BY DEF Typed
<1> DEFINE new == [type |-> type, edge |-> edge, at |-> clock]
<1>2. new \in FollowerEvents
  BY <1>1 DEF FollowerEvents
<1>3. followers' = Append(followers, new)
  BY DEF Follower
<1> HIDE DEF new
<1>4. /\ followers' \in Seq(FollowerEvents) /\ Len(followers') = Len(followers) + 1
      /\ \A i \in 1 .. Len(followers) : followers'[i] = followers[i]
      /\ followers'[Len(followers) + 1] = new
  BY <1>1, <1>2, <1>3
<1> QED BY <1>4 DEF new

LEMMA ActivityAppends ==
  ASSUME Typed, NEW verb \in Verbs, NEW u \in Users, NEW o \in Objects, NEW public \in BOOLEAN,
         NEW to \in {{}} \cup {{r} : r \in Remotes}, Activity(verb, u, o, public, to)
  PROVE  /\ activities' \in Seq(Acts) /\ Len(activities') = Len(activities) + 1
         /\ \A i \in 1 .. Len(activities) : activities'[i] = activities[i]
         /\ activities'[Len(activities) + 1] = [verb |-> verb, id |-> IdOf(verb, o), user |-> u, obj |-> o,
                                                public |-> public, to |-> to, at |-> clock]
<1>1. activities \in Seq(Acts) /\ clock \in Nat /\ Len(activities) \in Nat
  BY DEF Typed
<1> DEFINE new == [verb |-> verb, id |-> IdOf(verb, o), user |-> u, obj |-> o,
                   public |-> public, to |-> to, at |-> clock]
<1>2. new \in Acts
  <2>1. verb \in AllVerbs /\ to \subseteq Remotes
    BY SplitterAssumption DEF AllVerbs
  <2>2. IdOf(verb, o) \in Ids
    BY <1>1, <2>1 DEF IdOf, Ids, AllVerbs
  <2> QED BY <1>1, <2>1, <2>2 DEF Acts
<1>3. activities' = Append(activities, new)
  BY DEF Activity
<1> HIDE DEF new
<1>4. /\ activities' \in Seq(Acts) /\ Len(activities') = Len(activities) + 1
      /\ \A i \in 1 .. Len(activities) : activities'[i] = activities[i]
      /\ activities'[Len(activities) + 1] = new
  BY <1>1, <1>2, <1>3
<1> QED BY <1>4 DEF new

\* The topics only grow.
LEMMA TopicsGrow ==
  ASSUME Typed, [Next]_vars
  PROVE  /\ Len(followers) <= Len(followers') /\ \A i \in 1 .. Len(followers) : followers'[i] = followers[i]
         /\ Len(activities) <= Len(activities') /\ \A i \in 1 .. Len(activities) : activities'[i] = activities[i]
         /\ Len(followers') \in Nat /\ Len(activities') \in Nat
<1>1. Len(followers) \in Nat /\ Len(activities) \in Nat
  BY Sorts
<1>2. ASSUME NEW type \in {"accepted", "deleted"}, NEW edge \in Edges, Follower(type, edge)
      PROVE  /\ Len(followers') = Len(followers) + 1 /\ \A i \in 1 .. Len(followers) : followers'[i] = followers[i]
             /\ activities' = activities
  BY <1>2, FollowerAppends DEF Follower
<1>3. ASSUME NEW verb \in Verbs, NEW u \in Users, NEW o \in Objects, NEW public \in BOOLEAN,
             NEW to \in {{}} \cup {{r} : r \in Remotes}, Activity(verb, u, o, public, to)
      PROVE  /\ Len(activities') = Len(activities) + 1 /\ \A i \in 1 .. Len(activities) : activities'[i] = activities[i]
             /\ followers' = followers
  BY <1>3, ActivityAppends DEF Activity
<1>4. CASE UNCHANGED topics
  BY <1>1, <1>4 DEF topics
<1>5. \/ UNCHANGED topics
      \/ \E type \in {"accepted", "deleted"}, edge \in Edges : Follower(type, edge)
      \/ \E verb \in Verbs, u \in Users, o \in Objects, public \in BOOLEAN,
            to \in {{}} \cup {{r} : r \in Remotes} : Activity(verb, u, o, public, to)
  BY DEF Next, vars, topics, ApplyFollower, Handle, Persist, PublishDelivery, Finish, FollowersRebuilt,
         ActivitiesRebuilt, Restart
<1>6. \/ UNCHANGED topics
      \/ /\ Len(followers') = Len(followers) + 1 /\ \A i \in 1 .. Len(followers) : followers'[i] = followers[i]
         /\ activities' = activities
      \/ /\ Len(activities') = Len(activities) + 1 /\ \A i \in 1 .. Len(activities) : activities'[i] = activities[i]
         /\ followers' = followers
  BY <1>2, <1>3, <1>5
<1> QED BY <1>1, <1>4, <1>6

\* Who an activity is for is settled when it is published: what follows is later.
LEMMA AudienceStays ==
  ASSUME Typed, Timed, [Next]_vars
  PROVE  \A p \in 1 .. Len(activities) : Audience(p)' = Audience(p)
<1>1. Len(followers) \in Nat /\ Len(followers') \in Nat /\ Len(followers) <= Len(followers') /\ clock \in Nat
  BY Sorts, TopicsGrow DEF Typed
<1>2. \A i \in 1 .. Len(followers) : followers'[i] = followers[i] /\ followers[i].at \in Nat
  BY Sorts, TopicsGrow
<1>3. \A i \in 1 .. Len(followers') : i \in 1 .. Len(followers) \/ followers'[i].at = clock
  <2>1. CASE UNCHANGED followers
    BY <2>1, <1>1
  <2>2. ASSUME NEW type \in {"accepted", "deleted"}, NEW edge \in Edges, Follower(type, edge)
        PROVE  \A i \in 1 .. Len(followers') : i \in 1 .. Len(followers) \/ followers'[i].at = clock
    <3>0. Follower(type, edge) => /\ Len(followers') = Len(followers) + 1
                                  /\ followers'[Len(followers) + 1] = [type |-> type, edge |-> edge, at |-> clock]
      BY FollowerAppends
    <3>1. Len(followers') = Len(followers) + 1 /\ followers'[Len(followers) + 1].at = clock
      BY <2>2, <3>0
    <3>2. \A i \in 1 .. Len(followers') : i \in 1 .. Len(followers) \/ i = Len(followers) + 1
      BY <1>1, <3>1
    <3> QED BY <3>1, <3>2
  <2> QED BY <2>1, <2>2 DEF Next, vars, topics, Activity, ApplyFollower, Handle, Persist, PublishDelivery, Finish,
                         FollowersRebuilt, ActivitiesRebuilt, Restart
<1>4. ASSUME NEW r \in Remotes, NEW u \in Users, NEW at \in Nat, at < clock
      PROVE  FollowsAt(r, u, at)' <=> FollowsAt(r, u, at)
  <2>1. \A i \in EventsOf(<<r, u>>)' : i \in EventsOf(<<r, u>>) \/ followers'[i].at > at
    BY <1>1, <1>2, <1>3, <1>4 DEF EventsOf
  <2>2. \A i \in EventsOf(<<r, u>>) : i \in EventsOf(<<r, u>>)' /\ followers'[i] = followers[i]
    BY <1>1, <1>2 DEF EventsOf
  <2>3. \A i \in EventsOf(<<r, u>>)' : followers'[i].at \in Nat
    BY <1>1, <1>2, <1>3 DEF EventsOf
  <2> QED BY <2>1, <2>2, <2>3, <1>4 DEF FollowsAt
<1>5. ASSUME NEW p \in 1 .. Len(activities)
      PROVE  Audience(p)' = Audience(p)
  <2>1. PICK a \in Acts : a = activities[p]
    BY Sorts
  <2>2. activities'[p] = a
    BY <2>1, TopicsGrow
  <2>3. a.at \in Nat /\ a.at < clock /\ a.user \in Users
    BY <2>1, Sorts DEF Timed
  <2>4. \A r \in Remotes : FollowsAt(r, a.user, a.at)' <=> FollowsAt(r, a.user, a.at)
    BY <2>3, <1>4
  <2>5. Followed(a)' = Followed(a)
    BY <2>4 DEF Followed
  <2> QED BY <2>1, <2>2, <2>5 DEF Audience
<1> QED BY <1>5

\* Whoever a fan-out is for is a remote actor.
LEMMA RecipientsAreRemotes ==
  ASSUME Typed, NEW a \in Acts
  PROVE  RecipientsOf(a) \subseteq Remotes /\ RecipientsAt(a.user, a.at) \subseteq Remotes
<1>1. a.to \subseteq Remotes
  BY DEF Acts
<1>2. GetRecipients(a.obj) \subseteq Remotes
  BY DEF GetRecipients, Typed
<1>3. RecipientsAt(a.user, a.at) \subseteq Remotes
  BY DEF RecipientsAt
<1>4. FollowersAndMentions(a) \subseteq Remotes
  BY <1>1, <1>3 DEF FollowersAndMentions
<1> QED BY <1>1, <1>2, <1>3, <1>4 DEF RecipientsOf

LEMMA IdleTyped ==
  /\ Idle \in Jobs /\ Idle.todo \subseteq Idle.all
  /\ Idle.pos = 0 /\ Idle.all = {} /\ Idle.todo = {} /\ Idle.stored = TRUE
BY DEF Idle, Jobs

LEMMA TypedKept ==
  ASSUME Typed, [Next]_vars
  PROVE  Typed'
<1> USE DEF topics, starting
<1>1. CASE \E type \in {"accepted", "deleted"}, edge \in Edges : Follower(type, edge)
  <2>1. PICK type \in {"accepted", "deleted"}, edge \in Edges : Follower(type, edge)
    BY <1>1
  <2>2. followers' \in Seq(FollowerEvents) /\ Len(followers') = Len(followers) + 1
    BY <2>1, FollowerAppends
  <2>3. UNCHANGED <<activities, history, recipients, fpos, apos, job, deliveries, late, starting>> /\ clock' = clock + 1
    BY <2>1 DEF Follower
  <2>4. Len(followers) \in Nat
    BY Sorts
  <2>5. fpos' \in 0 .. Len(followers')
    BY <2>2, <2>3, <2>4 DEF Typed
  <2> QED BY <2>2, <2>3, <2>5 DEF Typed
<1>2. CASE \E verb \in Verbs, u \in Users, o \in Objects, public \in BOOLEAN,
              to \in {{}} \cup {{r} : r \in Remotes} : Activity(verb, u, o, public, to)
  <2>1. PICK verb \in Verbs, u \in Users, o \in Objects, public \in BOOLEAN,
             to \in {{}} \cup {{r} : r \in Remotes} : Activity(verb, u, o, public, to)
    BY <1>2
  <2>2. activities' \in Seq(Acts) /\ Len(activities') = Len(activities) + 1
    BY <2>1, ActivityAppends
  <2>3. UNCHANGED <<followers, history, recipients, fpos, apos, job, deliveries, late, starting>> /\ clock' = clock + 1
    BY <2>1 DEF Activity
  <2>4. Len(activities) \in Nat
    BY Sorts
  <2>5. apos' \in 0 .. Len(activities') /\ late' \subseteq 1 .. Len(activities')
    BY <2>2, <2>3, <2>4 DEF Typed
  <2>6. job' # Idle => job'.pos = apos' + 1 /\ apos' < Len(activities')
    BY <2>2, <2>3, <2>4 DEF Typed
  <2> QED BY <2>2, <2>3, <2>5, <2>6 DEF Typed
<1>3. CASE ApplyFollower
  <2>1. fpos + 1 \in 1 .. Len(followers) /\ fpos' = fpos + 1
    BY <1>3, Sorts DEF ApplyFollower
  <2>2. PICK e \in FollowerEvents : e = followers[fpos + 1]
    BY <2>1, Sorts
  <2>3. e.edge \in Edges /\ e.at \in Nat
    BY DEF FollowerEvents
  <2>4. \/ history' = AcceptEdge(history, e.edge, e.at)
        \/ history' = DeleteEdge(history, e.edge, e.at)
    BY <1>3, <2>2 DEF ApplyFollower
  <2>5. [from |-> e.at, until |-> Forever] \in Ranges
    BY <2>3 DEF Ranges
  <2>6. history \in [DOMAIN history -> Ranges] /\ DOMAIN history \subseteq Edges
    BY DEF Typed
  <2>7. CASE history' = AcceptEdge(history, e.edge, e.at)
    <3>1. DOMAIN history' = DOMAIN history \cup {e.edge}
      BY <2>7 DEF AcceptEdge, Put
    <3>2. history' \in [DOMAIN history' -> Ranges]
      BY <2>5, <2>6, <2>7, <3>1 DEF AcceptEdge, Put
    <3> QED BY <2>1, <2>3, <2>6, <1>3, <3>1, <3>2 DEF Typed, ApplyFollower
  <2>8. CASE history' = DeleteEdge(history, e.edge, e.at)
    <3>1. DOMAIN history' = DOMAIN history
      BY <2>8, <2>6 DEF DeleteEdge
    <3>2. history' \in [DOMAIN history' -> Ranges]
      <4>1. CASE e.edge \in DOMAIN history
        <5>1. history[e.edge] \in Ranges
          BY <4>1, <2>6
        <5>2. [history[e.edge] EXCEPT !.until = e.at] \in Ranges
          BY <5>1, <2>3 DEF Ranges
        <5>3. history' = [history EXCEPT ![e.edge] = [history[e.edge] EXCEPT !.until = e.at]]
          BY <2>8, <4>1 DEF DeleteEdge
        <5> QED BY <5>2, <5>3, <2>6, <3>1
      <4>2. CASE e.edge \notin DOMAIN history
        BY <4>2, <2>6, <2>8 DEF DeleteEdge
      <4> QED BY <4>1, <4>2
    <3> QED BY <2>1, <2>6, <1>3, <3>1, <3>2 DEF Typed, ApplyFollower
  <2> QED BY <2>4, <2>7, <2>8
<1>4. CASE Handle
  <2>1. apos + 1 \in 1 .. Len(activities) /\ job = Idle
    BY <1>4, Sorts DEF Handle
  <2>2. PICK a \in Acts : a = activities[apos + 1]
    BY <2>1, Sorts
  <2>3. job' = [pos |-> apos + 1, all |-> RecipientsOf(a), todo |-> RecipientsOf(a), stored |-> ~Keeps(a)]
    BY <1>4, <2>2 DEF Handle
  <2>4. RecipientsOf(a) \subseteq Remotes
    BY RecipientsAreRemotes
  <2>5. job' \in Jobs /\ job'.todo \subseteq job'.all /\ job'.pos = apos + 1
    BY <2>1, <2>3, <2>4 DEF Jobs, Keeps
  <2>6. late' \subseteq 1 .. Len(activities)
    BY <1>4, <2>1 DEF Handle, Typed
  <2>7. UNCHANGED <<topics, history, recipients, fpos, apos, deliveries, starting>> /\ apos < Len(activities)
    BY <1>4 DEF Handle
  <2> QED BY <2>5, <2>6, <2>7 DEF Typed
<1>5. CASE Persist
  <2>1. ~job.stored /\ job # Idle
    BY <1>5, IdleTyped DEF Persist
  <2>2. job' = [job EXCEPT !.stored = TRUE]
    BY <1>5 DEF Persist
  <2>3. job' \in Jobs /\ job'.pos = job.pos /\ job'.all = job.all /\ job'.todo = job.todo
    BY <2>2 DEF Typed, Jobs
  <2>4. PICK a \in Acts : a = activities[job.pos]
    BY <2>1, Sorts
  <2>5. a.obj \in Objects
    BY DEF Acts
  <2>6. recipients' = Drop(recipients, a.obj) \/ recipients' = Put(recipients, a.obj, job.all)
    BY <1>5, <2>4 DEF Persist
  <2>7. recipients' \in [DOMAIN recipients' -> SUBSET Remotes] /\ DOMAIN recipients' \subseteq Objects
    <3>1. recipients \in [DOMAIN recipients -> SUBSET Remotes] /\ DOMAIN recipients \subseteq Objects
      BY DEF Typed
    <3>2. CASE recipients' = Drop(recipients, a.obj)
      BY <3>1, <3>2 DEF Drop
    <3>3. CASE recipients' = Put(recipients, a.obj, job.all)
      <4>1. job.all \in SUBSET Remotes
        BY Sorts
      <4> QED BY <3>1, <3>3, <4>1, <2>5 DEF Put
    <3> QED BY <2>6, <3>2, <3>3
  <2>8. UNCHANGED <<topics, history, fpos, apos, deliveries, late, starting>>
    BY <1>5 DEF Persist
  <2> QED BY <2>1, <2>3, <2>7, <2>8 DEF Typed
<1>6. CASE \E r \in Remotes : PublishDelivery(r)
  <2>1. PICK r \in Remotes : PublishDelivery(r)
    BY <1>6
  <2>2. r \in job.todo /\ job # Idle
    BY <2>1, IdleTyped DEF PublishDelivery
  <2>3. job' = [job EXCEPT !.todo = job.todo \ {r}]
    BY <2>1 DEF PublishDelivery
  <2>4. job' \in Jobs /\ job'.pos = job.pos /\ job'.all = job.all /\ job'.todo = job.todo \ {r}
    BY <2>3 DEF Typed, Jobs
  <2>5. PICK id \in Ids : id = activities[job.pos].id
    BY <2>2, Sorts
  <2>6. [id |-> id, to |-> r, pos |-> job.pos] \in Deliveries
    BY Sorts DEF Deliveries
  <2>7. deliveries' \subseteq Deliveries
    BY <2>1, <2>5, <2>6 DEF PublishDelivery, Typed
  <2>8. UNCHANGED <<late, topics, history, recipients, fpos, apos, starting>>
    BY <2>1 DEF PublishDelivery
  <2> QED BY <2>2, <2>4, <2>7, <2>8 DEF Typed
<1>7. CASE Finish
  <2>1. job # Idle /\ job' = Idle /\ apos' = apos + 1
    BY <1>7 DEF Finish
  <2>2. apos' \in 0 .. Len(activities)
    BY <2>1, Sorts DEF Typed
  <2> QED BY <1>7, <2>1, <2>2, IdleTyped DEF Finish, Typed
<1>8. CASE FollowersRebuilt
  <2>1. fpos' \in 0 .. Len(followers)
    <3>1. fpos' = fpos \/ (fpos > fhead /\ fpos' = fpos - 1)
      BY <1>8 DEF FollowersRebuilt
    <3> QED BY <3>1, Sorts DEF Typed
  <2> QED BY <1>8, <2>1 DEF FollowersRebuilt, Typed
<1>9. CASE ActivitiesRebuilt
  BY <1>9, IdleTyped DEF ActivitiesRebuilt, Typed
<1>10. CASE Restart
  <2>1. Empty \in [DOMAIN Empty -> Ranges] /\ Empty \in [DOMAIN Empty -> SUBSET Remotes] /\ DOMAIN Empty = {}
    BY DEF Empty
  <2>2. 0 \in 0 .. Len(followers) /\ 0 \in 0 .. Len(activities) /\ Len(followers) \in Nat
    BY Sorts
  <2> QED BY <1>10, <2>1, <2>2, IdleTyped DEF Restart, Typed
<1>11. CASE UNCHANGED vars
  BY <1>11 DEF vars, Typed
<1> QED BY <1>1, <1>2, <1>3, <1>4, <1>5, <1>6, <1>7, <1>8, <1>9, <1>10, <1>11 DEF Next

LEMMA TimedKept ==
  ASSUME Typed, Timed, [Next]_vars
  PROVE  Timed'
<1>1. /\ Len(followers) \in Nat /\ Len(activities) \in Nat /\ clock \in Nat
      /\ \A i \in 1 .. Len(followers) : followers[i].at \in Nat
      /\ \A i \in 1 .. Len(activities) : activities[i].at \in Nat
  BY Sorts DEF Typed
<1>2. CASE \E type \in {"accepted", "deleted"}, edge \in Edges : Follower(type, edge)
  <2>1. PICK type \in {"accepted", "deleted"}, edge \in Edges : Follower(type, edge)
    BY <1>2
  <2>2. /\ Len(followers') = Len(followers) + 1
        /\ \A i \in 1 .. Len(followers) : followers'[i] = followers[i]
        /\ followers'[Len(followers) + 1] = [type |-> type, edge |-> edge, at |-> clock]
    BY <2>1, FollowerAppends
  <2>3. followers'[Len(followers) + 1].at = clock /\ clock' = clock + 1 /\ activities' = activities
    BY <2>1, <2>2 DEF Follower
  <2>4. \A i \in 1 .. Len(followers') : i \in 1 .. Len(followers) \/ i = Len(followers) + 1
    BY <1>1, <2>2
  <2>5. \A i \in 1 .. Len(followers') : followers'[i].at < clock'
    <3>1. \A i \in 1 .. Len(followers) : followers[i].at < clock + 1
      BY <1>1 DEF Timed
    <3>2. \A i \in 1 .. Len(followers) : followers'[i].at < clock'
      BY <2>2, <2>3, <3>1
    <3>3. followers'[Len(followers) + 1].at < clock'
      BY <1>1, <2>3
    <3> QED BY <2>4, <3>2, <3>3
  <2>6. \A i \in 1 .. Len(activities') : activities'[i].at < clock'
    BY <1>1, <2>3 DEF Timed
  <2>7. \A i, j \in 1 .. Len(followers') : i < j => followers'[i].at < followers'[j].at
    <3>1. ASSUME NEW i \in 1 .. Len(followers'), NEW j \in 1 .. Len(followers'), i < j
          PROVE  followers'[i].at < followers'[j].at
      <4>1. i \in 1 .. Len(followers)
        BY <1>1, <2>2, <3>1
      <4>2. CASE j \in 1 .. Len(followers)
        BY <2>2, <3>1, <4>1, <4>2 DEF Timed
      <4>3. CASE j = Len(followers) + 1
        BY <2>2, <2>3, <4>1, <4>3 DEF Timed
      <4> QED BY <2>4, <4>2, <4>3
    <3> QED BY <3>1
  <2>8. \A i \in 1 .. Len(followers'), j \in 1 .. Len(activities') : followers'[i].at # activities'[j].at
    <3>1. ASSUME NEW i \in 1 .. Len(followers'), NEW j \in 1 .. Len(activities')
          PROVE  followers'[i].at # activities'[j].at
      <4>1. j \in 1 .. Len(activities) /\ activities'[j] = activities[j] /\ activities[j].at < clock
        BY <2>3 DEF Timed
      <4>2. CASE i \in 1 .. Len(followers)
        BY <2>2, <4>1, <4>2 DEF Timed
      <4>3. CASE i = Len(followers) + 1
        BY <2>3, <4>1, <4>3, <1>1
      <4> QED BY <2>4, <4>2, <4>3
    <3> QED BY <3>1
  <2> QED BY <2>5, <2>6, <2>7, <2>8 DEF Timed
<1>3. CASE \E verb \in Verbs, u \in Users, o \in Objects, public \in BOOLEAN,
              to \in {{}} \cup {{r} : r \in Remotes} : Activity(verb, u, o, public, to)
  <2>1. PICK verb \in Verbs, u \in Users, o \in Objects, public \in BOOLEAN,
             to \in {{}} \cup {{r} : r \in Remotes} : Activity(verb, u, o, public, to)
    BY <1>3
  <2>2. /\ Len(activities') = Len(activities) + 1
        /\ \A i \in 1 .. Len(activities) : activities'[i] = activities[i]
        /\ activities'[Len(activities) + 1] = [verb |-> verb, id |-> IdOf(verb, o), user |-> u, obj |-> o,
                                               public |-> public, to |-> to, at |-> clock]
    BY <2>1, ActivityAppends
  <2>3. activities'[Len(activities) + 1].at = clock /\ clock' = clock + 1 /\ followers' = followers
    BY <2>1, <2>2 DEF Activity
  <2>4. \A i \in 1 .. Len(activities') : i \in 1 .. Len(activities) \/ i = Len(activities) + 1
    BY <1>1, <2>2
  <2>5. \A i \in 1 .. Len(activities') : activities'[i].at < clock'
    BY <1>1, <2>2, <2>3, <2>4 DEF Timed
  <2>6. \A i \in 1 .. Len(followers) : followers[i].at < clock'
    BY <1>1, <2>3 DEF Timed
  <2>7. \A i \in 1 .. Len(followers), j \in 1 .. Len(activities') : followers[i].at # activities'[j].at
    <3>1. ASSUME NEW i \in 1 .. Len(followers), NEW j \in 1 .. Len(activities')
          PROVE  followers[i].at # activities'[j].at
      <4>2. CASE j \in 1 .. Len(activities)
        BY <2>2, <4>2 DEF Timed
      <4>3. CASE j = Len(activities) + 1
        BY <2>3, <4>3, <1>1 DEF Timed
      <4> QED BY <2>4, <4>2, <4>3
    <3> QED BY <3>1
  <2> QED BY <2>3, <2>5, <2>6, <2>7 DEF Timed
<1>4. CASE UNCHANGED topics
  BY <1>4 DEF Timed, topics
<1> QED BY <1>2, <1>3, <1>4 DEF Next, vars, topics, ApplyFollower, Handle, Persist, PublishDelivery, Finish,
                                FollowersRebuilt, ActivitiesRebuilt, Restart

LEMMA OnceEachKept ==
  ASSUME Tidy, Typed, OnceEach, [Next]_vars
  PROVE  OnceEach'
<1>1. Len(followers) \in Nat
  BY Sorts
<1>2. CASE \E type \in {"accepted", "deleted"}, edge \in Edges : Follower(type, edge)
  <2>1. PICK type \in {"accepted", "deleted"}, edge \in Edges : Follower(type, edge)
    BY <1>2
  <2>2. /\ Len(followers') = Len(followers) + 1
        /\ \A i \in 1 .. Len(followers) : followers'[i] = followers[i]
        /\ followers'[Len(followers) + 1] = [type |-> type, edge |-> edge, at |-> clock]
    BY <2>1, FollowerAppends
  <2>3. followers'[Len(followers) + 1].type = type /\ followers'[Len(followers) + 1].edge = edge
    BY <2>2
  <2>4. \A i \in 1 .. Len(followers) :
           followers[i].edge = edge => followers[i].type = "accepted" /\ type = "deleted"
    <3>1. \A i \in EventsOf(edge) : followers[i].type # type /\ type # "accepted"
      BY <2>1 DEF Follower
    <3>2. \A i \in 1 .. Len(followers) : followers[i].edge = edge => i \in EventsOf(edge)
      BY DEF EventsOf
    <3> QED BY <3>1, <3>2, Sorts
  <2>5. \A i \in 1 .. Len(followers') : i \in 1 .. Len(followers) \/ i = Len(followers) + 1
    BY <1>1, <2>2
  <2>6. ASSUME NEW i \in 1 .. Len(followers'), NEW j \in 1 .. Len(followers'), i < j,
               followers'[i].edge = followers'[j].edge
        PROVE  followers'[i].type = "accepted" /\ followers'[j].type = "deleted"
    <3>1. i \in 1 .. Len(followers)
      BY <1>1, <2>2, <2>6
    <3>2. CASE j \in 1 .. Len(followers)
      BY <2>2, <2>6, <3>1, <3>2 DEF OnceEach
    <3>3. CASE j = Len(followers) + 1
      BY <2>2, <2>3, <2>4, <2>6, <3>1, <3>3
    <3> QED BY <2>5, <3>2, <3>3
  <2> QED BY <2>6 DEF OnceEach
<1>3. CASE UNCHANGED followers
  BY <1>3 DEF OnceEach
<1> QED BY <1>2, <1>3 DEF Next, vars, topics, Activity, ApplyFollower, Handle, Persist, PublishDelivery, Finish,
                          FollowersRebuilt, ActivitiesRebuilt, Restart

\* The history follows the topic, also when an event is applied again.
LEMMA HistoryKept ==
  ASSUME Tidy, Typed, OnceEach, HistoryIsTrue, [Next]_vars
  PROVE  HistoryIsTrue'
<1>1. /\ Len(followers) \in Nat /\ Len(followers') \in Nat /\ Len(followers) <= Len(followers')
      /\ fpos \in Nat /\ fpos <= Len(followers) /\ fpos' \in Nat
      /\ \A i \in 1 .. Len(followers) : followers'[i] = followers[i]
  <2>1. /\ Len(followers) \in Nat /\ Len(followers') \in Nat /\ Len(followers) <= Len(followers')
        /\ \A i \in 1 .. Len(followers) : followers'[i] = followers[i]
    BY TopicsGrow, Sorts
  <2>2. fpos \in Nat /\ fpos <= Len(followers)
    BY Sorts
  <2>3. Typed'
    BY TypedKept
  <2>4. fpos' \in Nat
    BY <2>1, <2>3 DEF Typed
  <2> QED BY <2>1, <2>2, <2>4
<1>2. ASSUME UNCHANGED history, fpos' <= fpos
      PROVE  HistoryIsTrue'
  <2>1. \A i \in 1 .. fpos' : i \in 1 .. fpos /\ i \in 1 .. Len(followers)
    BY <1>1, <1>2
  <2>2. \A i \in 1 .. Len(followers) : i \in 1 .. Len(followers')
    BY <1>1
  <2>3. \A i \in 1 .. Len(followers), type \in {"accepted", "deleted"}, e \in Edges : Of(i, type, e)' <=> Of(i, type, e)
    BY <1>1 DEF Of
  <2>4. DOMAIN history \subseteq Edges
    BY DEF Typed
  <2>5. \A i \in 1 .. fpos' : followers'[i].type = "accepted" => followers'[i].edge \in DOMAIN history'
    BY <2>1, <1>1, <1>2 DEF HistoryIsTrue
  <2>6. ASSUME NEW e \in DOMAIN history
        PROVE  /\ \E i \in 1 .. Len(followers') : Of(i, "accepted", e)' /\ history[e].from = followers'[i].at
               /\ history[e].until = Forever => \A i \in 1 .. fpos' : ~Of(i, "deleted", e)'
               /\ history[e].until # Forever =>
                     \E i \in 1 .. Len(followers') : Of(i, "deleted", e)' /\ history[e].until = followers'[i].at
    <3>1. PICK i \in 1 .. Len(followers) : Of(i, "accepted", e) /\ history[e].from = followers[i].at
      BY DEF HistoryIsTrue
    <3>2. \E k \in 1 .. Len(followers') : Of(k, "accepted", e)' /\ history[e].from = followers'[k].at
      BY <3>1, <2>2, <2>3, <2>4, <1>1
    <3>3. history[e].until = Forever => \A k \in 1 .. fpos' : ~Of(k, "deleted", e)'
      BY <2>1, <2>3, <2>4 DEF HistoryIsTrue
    <3>4. ASSUME history[e].until # Forever
          PROVE  \E k \in 1 .. Len(followers') : Of(k, "deleted", e)' /\ history[e].until = followers'[k].at
      <4>1. PICK k \in 1 .. Len(followers) : Of(k, "deleted", e) /\ history[e].until = followers[k].at
        BY <3>4 DEF HistoryIsTrue
      <4> QED BY <4>1, <2>2, <2>3, <2>4, <1>1
    <3> QED BY <3>2, <3>3, <3>4
  <2> QED BY <2>5, <2>6, <1>2 DEF HistoryIsTrue
<1>3. CASE ApplyFollower
  <2>1. fpos + 1 \in 1 .. Len(followers) /\ fpos' = fpos + 1 /\ followers' = followers
    BY <1>3, <1>1 DEF ApplyFollower, topics
  <2>2. PICK n \in 1 .. Len(followers) : n = fpos + 1
    BY <2>1
  <2>3. PICK v \in FollowerEvents : v = followers[n]
    BY Sorts
  <2>4. v.edge \in Edges /\ v.at \in Nat /\ v.type \in {"accepted", "deleted"}
    BY DEF FollowerEvents
  <2>5. history \in [DOMAIN history -> Ranges] /\ DOMAIN history \subseteq Edges
    BY DEF Typed
  <2>6. \A i \in 1 .. fpos' : i \in 1 .. fpos \/ i = n
    BY <2>1, <2>2, <1>1
  <2>7. \A i, type, e : Of(i, type, e)' <=> Of(i, type, e)
    BY <2>1 DEF Of
  <2>8. CASE v.type = "accepted"
    <3>1. history' = Put(history, v.edge, [from |-> v.at, until |-> Forever])
      BY <1>3, <2>2, <2>3, <2>8 DEF ApplyFollower, AcceptEdge
    <3>2. DOMAIN history' = DOMAIN history \cup {v.edge}
      BY <3>1 DEF Put
    <3>3. history'[v.edge].from = v.at /\ history'[v.edge].until = Forever
      BY <3>1 DEF Put
    <3>4. \A e \in DOMAIN history : e # v.edge => history'[e] = history[e]
      BY <3>1 DEF Put
    <3>5. \A i \in 1 .. fpos' : followers[i].type = "accepted" => followers[i].edge \in DOMAIN history'
      BY <2>3, <2>6, <3>2 DEF HistoryIsTrue
    <3>6. Of(n, "accepted", v.edge) /\ v.at = followers[n].at
      BY <2>3, <2>8 DEF Of
    <3>7. \A i \in 1 .. n : ~Of(i, "deleted", v.edge)
      BY <2>3, <2>8, <1>1 DEF Of, OnceEach
    <3>8. \A e : ~Of(n, "deleted", e)
      BY <2>3, <2>8 DEF Of
    <3>9. ASSUME NEW e \in DOMAIN history'
          PROVE  /\ \E i \in 1 .. Len(followers) : Of(i, "accepted", e) /\ history'[e].from = followers[i].at
                 /\ history'[e].until = Forever => \A i \in 1 .. fpos' : ~Of(i, "deleted", e)
                 /\ history'[e].until # Forever =>
                       \E i \in 1 .. Len(followers) : Of(i, "deleted", e) /\ history'[e].until = followers[i].at
      <4>1. CASE e = v.edge
        BY <4>1, <2>1, <2>2, <3>3, <3>6, <3>7
      <4>2. CASE e # v.edge
        <5>1. e \in DOMAIN history /\ history'[e] = history[e]
          BY <4>2, <3>2, <3>4
        <5> QED BY <5>1, <2>6, <3>8 DEF HistoryIsTrue
      <4> QED BY <4>1, <4>2
    <3> QED BY <2>1, <2>7, <3>5, <3>9 DEF HistoryIsTrue
  <2>9. CASE v.type = "deleted"
    <3>1. history' = DeleteEdge(history, v.edge, v.at)
      BY <1>3, <2>2, <2>3, <2>9 DEF ApplyFollower
    <3>2. DOMAIN history' = DOMAIN history
      BY <3>1, <2>5 DEF DeleteEdge
    <3>3. v.edge \in DOMAIN history => history'[v.edge] = [history[v.edge] EXCEPT !.until = v.at]
      BY <3>1, <2>5 DEF DeleteEdge
    <3>4. v.edge \in DOMAIN history => history'[v.edge].until = v.at /\ history'[v.edge].from = history[v.edge].from
      <4>1. v.edge \in DOMAIN history => history[v.edge] \in Ranges
        BY <2>5
      <4> QED BY <4>1, <3>3 DEF Ranges
    <3>5. \A e \in DOMAIN history : e # v.edge => history'[e] = history[e]
      BY <3>1, <2>5 DEF DeleteEdge
    <3>6. \A i \in 1 .. fpos' : followers[i].type = "accepted" => followers[i].edge \in DOMAIN history'
      BY <2>3, <2>6, <2>9, <3>2 DEF HistoryIsTrue
    <3>7. Of(n, "deleted", v.edge) /\ v.at = followers[n].at
      BY <2>3, <2>9 DEF Of
    <3>8. v.at # Forever
      BY <2>4, SplitterAssumption
    <3>9. ASSUME NEW e \in DOMAIN history
          PROVE  /\ \E i \in 1 .. Len(followers) : Of(i, "accepted", e) /\ history'[e].from = followers[i].at
                 /\ history'[e].until = Forever => \A i \in 1 .. fpos' : ~Of(i, "deleted", e)
                 /\ history'[e].until # Forever =>
                       \E i \in 1 .. Len(followers) : Of(i, "deleted", e) /\ history'[e].until = followers[i].at
      <4>1. CASE e = v.edge
        <5>1. \E i \in 1 .. Len(followers) : Of(i, "accepted", e) /\ history[e].from = followers[i].at
          BY DEF HistoryIsTrue
        <5> QED BY <4>1, <5>1, <3>4, <3>7, <3>8
      <4>2. CASE e # v.edge
        <5>1. history'[e] = history[e] /\ ~Of(n, "deleted", e)
          BY <4>2, <3>5, <2>3 DEF Of
        <5> QED BY <5>1, <2>6 DEF HistoryIsTrue
      <4> QED BY <4>1, <4>2
    <3> QED BY <2>1, <2>7, <3>2, <3>6, <3>9 DEF HistoryIsTrue
  <2> QED BY <2>4, <2>8, <2>9
<1>4. CASE Restart
  BY <1>4 DEF Restart, HistoryIsTrue, Empty
<1>5. CASE FollowersRebuilt
  <2>1. UNCHANGED history /\ fpos' <= fpos
    BY <1>5, <1>1 DEF FollowersRebuilt
  <2> QED BY <2>1, <1>2
<1>6. CASE UNCHANGED <<history, fpos>>
  BY <1>1, <1>2, <1>6
<1> QED BY <1>3, <1>4, <1>5, <1>6 DEF Next, vars, Follower, Activity, Handle, Persist, PublishDelivery, Finish,
                                      ActivitiesRebuilt

\* What the history says of the time of an activity is what the topic says, if no event that
\* precedes the activity is still to be projected.
LEMMA RecipientsExact ==
  ASSUME Typed, Timed, OnceEach, HistoryIsTrue, NEW p \in 1 .. Len(activities), NEW a \in Acts, a = activities[p],
         \A i \in fpos + 1 .. Len(followers) : ~(followers[i].at < a.at)
  PROVE  \A r \in Remotes : r \in RecipientsAt(a.user, a.at) <=> FollowsAt(r, a.user, a.at)
<1>1. /\ Len(followers) \in Nat /\ fpos \in Nat /\ fpos <= Len(followers) /\ a.at \in Nat /\ a.user \in Users
      /\ \A i \in 1 .. Len(followers) : followers[i].at \in Nat /\ followers[i].type \in {"accepted", "deleted"}
  BY Sorts
<1>2. \A i \in 1 .. Len(followers) : followers[i].at <= a.at => i \in 1 .. fpos
  <2>1. ASSUME NEW i \in 1 .. Len(followers), followers[i].at <= a.at, ~(i \in 1 .. fpos)
        PROVE  FALSE
    <3>1. i \in fpos + 1 .. Len(followers)
      BY <1>1, <2>1
    <3>2. followers[i].at # a.at
      BY DEF Timed
    <3> QED BY <1>1, <2>1, <3>1, <3>2
  <2> QED BY <2>1
<1>3. ASSUME NEW r \in Remotes
      PROVE  r \in RecipientsAt(a.user, a.at) <=> FollowsAt(r, a.user, a.at)
  <2> DEFINE e == <<r, a.user>>
  <2>0. e \in Edges /\ \A i : i \in EventsOf(e) <=> i \in 1 .. Len(followers) /\ followers[i].edge = e
    BY <1>1 DEF Edges, EventsOf
  <2> HIDE DEF e
  <2>1. ASSUME e \in DOMAIN history, Contains(history[e], a.at)
        PROVE  \E i \in EventsOf(e) :
                  /\ followers[i].type = "accepted" /\ followers[i].at <= a.at
                  /\ \A j \in EventsOf(e) : j > i => followers[j].type # "deleted" \/ followers[j].at > a.at
    <3>1. PICK i \in 1 .. Len(followers) : Of(i, "accepted", e) /\ history[e].from = followers[i].at
      BY <2>1 DEF HistoryIsTrue
    <3>2. i \in EventsOf(e) /\ followers[i].type = "accepted" /\ followers[i].at <= a.at
      BY <3>1, <2>0, <2>1 DEF Of, Contains
    <3>3. ASSUME NEW j \in EventsOf(e), followers[j].type = "deleted"
          PROVE  followers[j].at > a.at
      <4>1. j \in 1 .. Len(followers) /\ Of(j, "deleted", e)
        BY <3>3, <2>0 DEF Of
      <4>2. CASE history[e].until = Forever
        <5>1. j \notin 1 .. fpos
          BY <2>1, <4>1, <4>2 DEF HistoryIsTrue
        <5> QED BY <5>1, <4>1, <1>1, <1>2
      <4>3. CASE history[e].until # Forever
        <5>1. PICK k \in 1 .. Len(followers) : Of(k, "deleted", e) /\ history[e].until = followers[k].at
          BY <2>1, <4>3 DEF HistoryIsTrue
        <5>2. k = j
          BY <4>1, <5>1, <1>1 DEF OnceEach, Of
        <5>3. a.at < history[e].until
          BY <2>1, <4>3 DEF Contains
        <5> QED BY <5>1, <5>2, <5>3, <1>1
      <4> QED BY <4>2, <4>3
    <3> QED BY <3>2, <3>3
  <2>2. ASSUME NEW i \in EventsOf(e), followers[i].type = "accepted", followers[i].at <= a.at,
               \A j \in EventsOf(e) : j > i => followers[j].type # "deleted" \/ followers[j].at > a.at
        PROVE  e \in DOMAIN history /\ Contains(history[e], a.at)
    <3>1. i \in 1 .. fpos /\ i \in 1 .. Len(followers) /\ followers[i].edge = e
      BY <2>0, <2>2, <1>2
    <3>2. e \in DOMAIN history
      BY <3>1, <2>2 DEF HistoryIsTrue
    <3>3. PICK k \in 1 .. Len(followers) : Of(k, "accepted", e) /\ history[e].from = followers[k].at
      BY <3>2 DEF HistoryIsTrue
    <3>4. k = i
      BY <3>1, <3>3, <2>2, <1>1 DEF OnceEach, Of
    <3>5. history[e].from <= a.at
      BY <3>3, <3>4, <2>2
    <3>6. CASE history[e].until = Forever
      BY <3>2, <3>5, <3>6 DEF Contains
    <3>7. CASE history[e].until # Forever
      <4>1. PICK j \in 1 .. Len(followers) : Of(j, "deleted", e) /\ history[e].until = followers[j].at
        BY <3>2, <3>7 DEF HistoryIsTrue
      <4>2. j > i
        BY <4>1, <3>1, <2>2, <1>1 DEF OnceEach, Of
      <4>3. followers[j].at > a.at
        BY <4>1, <4>2, <2>0, <2>2 DEF Of
      <4> QED BY <3>2, <3>5, <4>1, <4>3, <1>1 DEF Contains
    <3> QED BY <3>6, <3>7
  <2>3. r \in RecipientsAt(a.user, a.at) <=> e \in DOMAIN history /\ Contains(history[e], a.at)
    BY DEF RecipientsAt, e
  <2>4. FollowsAt(r, a.user, a.at) <=>
           \E i \in EventsOf(e) :
              /\ followers[i].type = "accepted" /\ followers[i].at <= a.at
              /\ \A j \in EventsOf(e) : j > i => followers[j].type # "deleted" \/ followers[j].at > a.at
    BY DEF FollowsAt, e
  <2> QED BY <2>1, <2>2, <2>3, <2>4
<1> QED BY <1>3

\* An activity that is not late is handled for its audience.
LEMMA HandledForItsAudience ==
  ASSUME Typed, Timed, OnceEach, HistoryIsTrue, Handle, apos + 1 \notin late'
  PROVE  FollowersAndMentions(activities[apos + 1]) = Audience(apos + 1)
<1>1. apos + 1 \in 1 .. Len(activities)
  BY Sorts DEF Handle
<1>2. PICK a \in Acts : a = activities[apos + 1]
  BY <1>1, Sorts
<1>3. ASSUME a.public
      PROVE  RecipientsAt(a.user, a.at) = {r \in Remotes : FollowsAt(r, a.user, a.at)}
  <2>1. \A i \in fpos + 1 .. Len(followers) : ~(followers[i].at < a.at)
    BY <1>2, <1>3 DEF Handle
  <2>2. \A r \in Remotes : r \in RecipientsAt(a.user, a.at) <=> FollowsAt(r, a.user, a.at)
    BY <1>1, <1>2, <2>1, RecipientsExact
  <2>3. RecipientsAt(a.user, a.at) \subseteq Remotes
    BY DEF RecipientsAt
  <2> QED BY <2>2, <2>3
<1> QED BY <1>2, <1>3 DEF FollowersAndMentions, Audience, Followed

\* What a step can do to the fan-out.
LEMMA FanOutSteps ==
  ASSUME Typed, [Next]_vars
  PROVE  \/ UNCHANGED <<job, deliveries, late, apos>>
         \/ Handle \/ Persist \/ Finish
         \/ \E r \in Remotes : PublishDelivery(r)
         \/ job' = Idle /\ apos' \in {apos, 0} /\ UNCHANGED <<deliveries, late>>
BY DEF Next, vars, Follower, Activity, ApplyFollower, FollowersRebuilt, ActivitiesRebuilt, Restart

\* What a step of the fan-out does.
LEMMA Published ==
  ASSUME Typed, NEW r \in Remotes, PublishDelivery(r)
  PROVE  /\ job # Idle /\ r \in job.todo /\ r \in job.all
         /\ job'.pos = job.pos /\ job'.all = job.all /\ job'.todo = job.todo \ {r} /\ job'.stored = job.stored
         /\ deliveries \subseteq deliveries'
         /\ \A d \in deliveries' : d \in deliveries \/ d = [id |-> activities[job.pos].id, to |-> r, pos |-> job.pos]
         /\ \E d \in deliveries' : d.id = activities[job.pos].id /\ d.to = r
         /\ UNCHANGED <<late, topics, history, recipients, fpos, apos, starting>>
<1>1. r \in job.todo /\ UNCHANGED <<late, topics, history, recipients, fpos, apos, starting>>
  BY DEF PublishDelivery
<1>2. job # Idle /\ r \in job.all
  BY <1>1, IdleTyped DEF Typed
<1>3. job'.pos = job.pos /\ job'.all = job.all /\ job'.todo = job.todo \ {r} /\ job'.stored = job.stored
  <2>1. job' = [job EXCEPT !.todo = job.todo \ {r}]
    BY DEF PublishDelivery
  <2> QED BY <2>1 DEF Typed, Jobs
<1> DEFINE d == [id |-> activities[job.pos].id, to |-> r, pos |-> job.pos]
<1>4. d.id = activities[job.pos].id /\ d.to = r
  OBVIOUS
<1>5. CASE Queued(activities[job.pos].id, r)
  <2>1. deliveries' = deliveries
    BY <1>5 DEF PublishDelivery
  <2> QED BY <1>1, <1>2, <1>3, <1>5, <2>1 DEF Queued
<1>6. CASE ~Queued(activities[job.pos].id, r)
  <2>1. deliveries' = deliveries \cup {d}
    BY <1>6 DEF PublishDelivery
  <2> HIDE DEF d
  <2>2. /\ deliveries \subseteq deliveries' /\ \A x \in deliveries' : x \in deliveries \/ x = d
        /\ \E x \in deliveries' : x.id = activities[job.pos].id /\ x.to = r
    BY <2>1, <1>4
  <2> QED BY <1>1, <1>2, <1>3, <2>2 DEF d
<1> QED BY <1>5, <1>6

LEMMA Persisted ==
  ASSUME Typed, Persist
  PROVE  /\ job # Idle /\ job'.pos = job.pos /\ job'.all = job.all /\ job'.todo = job.todo /\ job'.stored = TRUE
         /\ UNCHANGED <<topics, history, fpos, apos, deliveries, late, starting>>
<1>1. job' = [job EXCEPT !.stored = TRUE] /\ UNCHANGED <<topics, history, fpos, apos, deliveries, late, starting>>
  BY DEF Persist
<1>2. job # Idle
  BY IdleTyped DEF Persist
<1>3. job'.pos = job.pos /\ job'.all = job.all /\ job'.todo = job.todo /\ job'.stored = TRUE
  BY <1>1 DEF Typed, Jobs
<1> QED BY <1>1, <1>2, <1>3

LEMMA Handled ==
  ASSUME Typed, Handle
  PROVE  /\ apos + 1 \in 1 .. Len(activities) /\ job = Idle
         /\ job'.pos = apos + 1 /\ job'.all = RecipientsOf(activities[apos + 1]) /\ job'.todo = job'.all
         /\ job'.stored = ~Keeps(activities[apos + 1])
         /\ late \subseteq late' /\ late' \subseteq late \cup {apos + 1}
         /\ UNCHANGED <<topics, history, recipients, fpos, apos, deliveries, starting>>
<1>1. apos + 1 \in 1 .. Len(activities) /\ job = Idle
  BY Sorts DEF Handle
<1>2. PICK a \in Acts : a = activities[apos + 1]
  BY <1>1, Sorts
<1>3. job' = [pos |-> apos + 1, all |-> RecipientsOf(a), todo |-> RecipientsOf(a), stored |-> ~Keeps(a)]
  BY <1>2 DEF Handle
<1>4. job'.pos = apos + 1 /\ job'.all = RecipientsOf(a) /\ job'.todo = job'.all /\ job'.stored = ~Keeps(a)
  BY <1>3
<1>5. late \subseteq late' /\ late' \subseteq late \cup {apos + 1}
  BY DEF Handle
<1>6. UNCHANGED <<topics, history, recipients, fpos, apos, deliveries, starting>>
  BY DEF Handle
<1> QED BY <1>1, <1>2, <1>4, <1>5, <1>6

LEMMA AccountedKept ==
  ASSUME Typed, Accounted, [Next]_vars
  PROVE  Accounted'
<1>1. \A i \in 1 .. Len(activities) : i \in 1 .. Len(activities') /\ activities'[i] = activities[i]
  BY TopicsGrow, Sorts
<1>2. job # Idle => job.pos \in 1 .. Len(activities)
  BY Sorts
<1>3. CASE UNCHANGED <<job, deliveries, late, apos>>
  BY <1>1, <1>2, <1>3 DEF Accounted, Queued
<1>4. CASE job' = Idle /\ UNCHANGED deliveries
  BY <1>1, <1>4 DEF Accounted
<1>5. CASE Handle
  BY <1>5, <1>1, Handled DEF Accounted
<1>6. CASE Persist
  BY <1>6, <1>1, <1>2, Persisted DEF Accounted, Queued
<1>7. CASE Finish
  BY <1>7, <1>4 DEF Finish
<1>8. ASSUME NEW r \in Remotes, PublishDelivery(r)
      PROVE  Accounted'
  <2>1. /\ job # Idle /\ job'.pos = job.pos /\ job'.all = job.all /\ job'.todo = job.todo \ {r}
        /\ deliveries \subseteq deliveries'
        /\ \A d \in deliveries' : d \in deliveries \/ d = [id |-> activities[job.pos].id, to |-> r, pos |-> job.pos]
        /\ \E d \in deliveries' : d.id = activities[job.pos].id /\ d.to = r
    BY <1>8, Published
  <2>2. \A d \in deliveries' : d.pos \in 1 .. Len(activities) /\ d.id = activities[d.pos].id
    BY <2>1, <1>2 DEF Accounted
  <2>3. \A d \in deliveries' : d.pos \in 1 .. Len(activities') /\ d.id = activities'[d.pos].id
    BY <2>2, <1>1
  <2>4. \A x \in job'.all \ job'.todo : \E d \in deliveries' : d.id = activities'[job'.pos].id /\ d.to = x
    BY <2>1, <1>1, <1>2 DEF Accounted, Queued
  <2> QED BY <2>3, <2>4 DEF Accounted, Queued
<1> QED BY <1>3, <1>4, <1>5, <1>6, <1>7, <1>8, FanOutSteps

LEMMA InAudienceKept ==
  ASSUME Typed, Timed, OnceEach, HistoryIsTrue, Accounted, InAudience, [Next]_vars
  PROVE  InAudience'
<1>1. \A i \in 1 .. Len(activities) : activities'[i] = activities[i] /\ Audience(i)' = Audience(i)
  BY TopicsGrow, AudienceStays
<1>2. job # Idle => job.pos \in 1 .. Len(activities)
  BY Sorts
<1>3. \A d \in deliveries : d.pos \in 1 .. Len(activities)
  BY DEF Accounted
<1>4. ASSUME late \subseteq late'
      PROVE  \A d \in deliveries : Is(d.pos, {"Create", "Announce"})' /\ d.pos \notin late' => d.to \in Audience(d.pos)'
  BY <1>1, <1>3, <1>4 DEF InAudience, Is
<1>5. ASSUME job # Idle, late' = late
      PROVE  \A p : p = job.pos /\ Is(p, {"Create", "Announce"})' /\ p \notin late' => job.all = Audience(p)'
  BY <1>1, <1>2, <1>5 DEF InAudience, Is
<1>6. CASE UNCHANGED <<job, deliveries, late, apos>>
  BY <1>4, <1>5, <1>6 DEF InAudience
<1>7. CASE job' = Idle /\ UNCHANGED <<deliveries, late>>
  BY <1>4, <1>7 DEF InAudience
<1>8. CASE Handle
  <2>1. PICK p \in 1 .. Len(activities) : p = apos + 1 /\ p = job'.pos
    BY <1>8, Handled
  <2>2. ASSUME Is(p, {"Create", "Announce"})', p \notin late'
        PROVE  job'.all = Audience(p)'
    <3>1. activities[p].verb \in {"Create", "Announce"}
      BY <2>2, <1>1 DEF Is
    <3>2. job'.all = FollowersAndMentions(activities[p])
      BY <1>8, <2>1, <3>1, Handled DEF RecipientsOf
    <3> QED BY <1>1, <1>8, <2>1, <2>2, <3>2, HandledForItsAudience
  <2>3. deliveries' = deliveries /\ late \subseteq late'
    BY <1>8, Handled
  <2> QED BY <2>1, <2>2, <2>3, <1>4 DEF InAudience
<1>9. CASE Persist
  BY <1>4, <1>5, <1>9, Persisted DEF InAudience
<1>10. CASE Finish
  BY <1>7, <1>10 DEF Finish
<1>11. ASSUME NEW r \in Remotes, PublishDelivery(r)
       PROVE  InAudience'
  <2>1. /\ job # Idle /\ r \in job.all /\ job'.pos = job.pos /\ job'.all = job.all /\ late' = late
        /\ \A d \in deliveries' : d \in deliveries \/ d = [id |-> activities[job.pos].id, to |-> r, pos |-> job.pos]
    BY <1>11, Published
  <2>2. \A d \in deliveries' : d \in deliveries \/ (d.pos = job.pos /\ d.to = r)
    BY <2>1
  <2>3. \A d \in deliveries' : Is(d.pos, {"Create", "Announce"})' /\ d.pos \notin late' => d.to \in Audience(d.pos)'
    BY <2>1, <2>2, <1>4, <1>5
  <2>4. PICK p \in 1 .. Len(activities) : p = job.pos /\ p = job'.pos
    BY <2>1, <1>2
  <2>5. Is(p, {"Create", "Announce"})' /\ p \notin late' => job'.all = Audience(p)'
    BY <2>1, <2>4, <1>5
  <2> QED BY <2>3, <2>4, <2>5 DEF InAudience
<1> QED BY <1>6, <1>7, <1>8, <1>9, <1>10, <1>11, FanOutSteps

LEMMA ReachedKept ==
  ASSUME Typed, Timed, Accounted, InAudience, Reached, [Next]_vars
  PROVE  Reached'
<1>1. \A i \in 1 .. Len(activities) : activities'[i] = activities[i] /\ Audience(i)' = Audience(i)
  BY TopicsGrow, AudienceStays
<1>2. apos \in Nat /\ Len(activities) \in Nat /\ apos <= Len(activities)
  BY Sorts
<1>3. ASSUME late \subseteq late', deliveries \subseteq deliveries', apos' \in {apos, 0}
      PROVE  Reached'
  <2>1. \A i \in 1 .. apos' : i \in 1 .. apos /\ i \in 1 .. Len(activities)
    BY <1>2, <1>3
  <2>2. \A i \in 1 .. apos' : Received(i) \subseteq Received(i)'
    BY <2>1, <1>1, <1>3 DEF Received
  <2> QED BY <2>1, <2>2, <1>1, <1>3 DEF Reached, Is
<1>4. CASE Finish
  <2>1. job # Idle /\ job.todo = {} /\ apos' = apos + 1 /\ UNCHANGED <<topics, deliveries, late>>
    BY <1>4 DEF Finish
  <2>2. PICK p \in 1 .. Len(activities) : p = apos + 1 /\ p = job.pos
    BY <2>1, Sorts DEF Typed
  <2>3. job.all \subseteq Received(p)
    BY <2>1, <2>2 DEF Accounted, Queued, Received
  <2>4. p \notin late /\ Is(p, {"Create"}) => Audience(p) \subseteq Received(p)
    BY <2>1, <2>2, <2>3 DEF InAudience, Is
  <2>5. \A i \in 1 .. apos' : i \in 1 .. apos \/ i = p
    BY <2>1, <2>2, <1>2
  <2>6. \A i \in (1 .. apos') \ late : Is(i, {"Create"}) => Audience(i) \subseteq Received(i)
    BY <2>4, <2>5 DEF Reached
  <2>7. \A i \in 1 .. apos' : Received(i)' = Received(i) /\ Audience(i)' = Audience(i) /\ (Is(i, {"Create"})' <=> Is(i, {"Create"}))
    <3>1. activities' = activities /\ deliveries' = deliveries
      BY <2>1 DEF topics
    <3> QED BY <3>1, <1>1, <1>2, <2>1, <2>2, <2>5 DEF Received, Is
  <2> QED BY <2>1, <2>6, <2>7 DEF Reached
<1>5. CASE Handle
  BY <1>3, <1>5, Handled
<1>6. ASSUME NEW r \in Remotes, PublishDelivery(r)
      PROVE  Reached'
  BY <1>3, <1>6, Published
<1> QED BY <1>3, <1>4, <1>5, <1>6, FanOutSteps, Persisted

LEMMA StartedKept ==
  ASSUME Typed, Started, [Next]_vars
  PROVE  Started'
<1>1. Len(followers) \in Nat /\ clock \in Nat
  BY Sorts DEF Typed
<1>2. CASE \E type \in {"accepted", "deleted"}, edge \in Edges : Follower(type, edge)
  <2>1. PICK type \in {"accepted", "deleted"}, edge \in Edges : Follower(type, edge)
    BY <1>2
  <2>2. /\ Len(followers') = Len(followers) + 1
        /\ \A i \in 1 .. Len(followers) : followers'[i] = followers[i]
        /\ followers'[Len(followers) + 1] = [type |-> type, edge |-> edge, at |-> clock]
    BY <2>1, FollowerAppends
  <2>3. followers'[Len(followers) + 1].at = clock /\ clock' = clock + 1 /\ phase' = phase
    BY <2>1, <2>2 DEF Follower, starting
  <2>4. \A i \in 1 .. Len(followers') : i \in 1 .. Len(followers) \/ i = Len(followers) + 1
    BY <1>1, <2>2
  <2> QED BY <1>1, <2>2, <2>3, <2>4 DEF Started
<1>3. CASE followers' = followers
  <2>1. clock' = clock \/ clock' = clock + 1
    BY <1>3 DEF Next, vars, topics, Follower, Activity, ApplyFollower, Handle, Persist, PublishDelivery, Finish,
                FollowersRebuilt, ActivitiesRebuilt, Restart
  <2>2. phase' = phase \/ phase' \in {"followers", "rebuild", "live"}
    BY DEF Next, vars, starting, Follower, Activity, ApplyFollower, Handle, Persist, PublishDelivery, Finish,
           FollowersRebuilt, ActivitiesRebuilt, Restart
  <2> QED BY <1>1, <1>3, <2>1, <2>2 DEF Started
<1> QED BY <1>2, <1>3 DEF Next, vars, topics, Activity, ApplyFollower, Handle, Persist, PublishDelivery, Finish,
                          FollowersRebuilt, ActivitiesRebuilt, Restart

LEMMA SentInit ==
  ASSUME Init
  PROVE  SentInv
<1>1. /\ Empty \in [DOMAIN Empty -> Ranges] /\ Empty \in [DOMAIN Empty -> SUBSET Remotes] /\ DOMAIN Empty = {}
  BY DEF Empty
<1>2. Typed
  BY <1>1, IdleTyped DEF Init, Typed
<1>3. Timed /\ Started /\ OnceEach
  BY DEF Init, Timed, Started, OnceEach
<1>4. HistoryIsTrue
  BY <1>1 DEF Init, HistoryIsTrue
<1>5. Accounted /\ InAudience /\ Reached
  BY DEF Init, Accounted, InAudience, Reached
<1> QED BY <1>2, <1>3, <1>4, <1>5 DEF SentInv

LEMMA SentStep ==
  ASSUME Tidy, SentInv, [Next]_vars
  PROVE  SentInv'
BY TypedKept, TimedKept, StartedKept, OnceEachKept, HistoryKept, AccountedKept, InAudienceKept, ReachedKept DEF SentInv

LEMMA SentInvariant ==
  ASSUME Tidy
  PROVE  Spec => []SentInv
<1>1. Init => SentInv
  BY SentInit
<1>2. SentInv /\ [Next]_vars => SentInv'
  BY SentStep
<1> QED BY <1>1, <1>2, PTL DEF Spec

\* The tables have the ranges and the recipients they are declared to have: a follow begins
\* before it ends, and the fan-out is that of the next activity (storage.py, handlers.py).
THEOREM SplitterTypes ==
  ASSUME Tidy
  PROVE  Spec => []TypeOK
<1>1. ASSUME SentInv
      PROVE  TypeOK
  <2>1. /\ Typed /\ Timed /\ Started /\ OnceEach /\ HistoryIsTrue
        /\ clock \in Nat /\ \A i \in 1 .. Len(followers) : followers[i].at \in 1 .. clock - 1
    <3>1. Typed /\ Timed /\ Started /\ OnceEach /\ HistoryIsTrue
      BY <1>1 DEF SentInv
    <3>2. clock \in Nat
      BY <3>1 DEF Typed
    <3> QED BY <3>1, <3>2, Sorts DEF Timed, Started
  <2>2. ASSUME NEW e \in DOMAIN history
        PROVE  /\ history[e].from \in 1 .. clock - 1
               /\ history[e].until \in 1 .. clock - 1 \cup {Forever}
               /\ history[e].until # Forever => history[e].from < history[e].until
    <3>1. PICK i \in 1 .. Len(followers) : Of(i, "accepted", e) /\ history[e].from = followers[i].at
      BY <2>1 DEF HistoryIsTrue
    <3>2. ASSUME history[e].until # Forever
          PROVE  history[e].until \in 1 .. clock - 1 /\ history[e].from < history[e].until
      <4>1. PICK j \in 1 .. Len(followers) : Of(j, "deleted", e) /\ history[e].until = followers[j].at
        BY <2>1, <3>2 DEF HistoryIsTrue
      <4>2. i < j
        BY <2>1, <3>1, <4>1, Sorts DEF Of, OnceEach
      <4> QED BY <2>1, <3>1, <4>1, <4>2 DEF Timed
    <3> QED BY <2>1, <3>1, <3>2
  <2>3. job.pos \in {0, apos + 1}
    BY <2>1, IdleTyped DEF Typed
  <2>4. \A o \in DOMAIN recipients : recipients[o] \subseteq Remotes
    BY <2>1 DEF Typed
  <2> QED BY <2>1, <2>2, <2>3, <2>4 DEF TypeOK, Typed, Started
<1>2. SentInv => TypeOK
  BY <1>1
<1> QED BY <1>2, SentInvariant, PTL

\* A post goes to nobody who neither followed its author when it was written nor is named in
\* it: the history decides, not who follows when the event is handled (recipients.py).
THEOREM SentToNoStranger ==
  ASSUME Tidy
  PROVE  Spec => []NoStrangers
<1>1. ASSUME SentInv
      PROVE  NoStrangers
  <2>1. ASSUME NEW d \in deliveries, NEW a, a = activities[d.pos], a.verb = "Create", d.pos \notin late
        PROVE  d.to \in a.to \/ (a.public /\ FollowsAt(d.to, a.user, a.at))
    <3>1. d.to \in Audience(d.pos)
      BY <1>1, <2>1 DEF SentInv, InAudience, Is
    <3> QED BY <2>1, <3>1 DEF Audience, Followed
  <2> QED BY <2>1 DEF NoStrangers
<1>2. SentInv => NoStrangers
  BY <1>1
<1> QED BY <1>2, SentInvariant, PTL

\* Everyone who followed the author when a public post was written is sent it, when the
\* follower events that precede the post were projected by the time it was handled.
THEOREM SentToTheFollowersOfTheTime ==
  ASSUME Tidy
  PROVE  Spec => []FollowersOfTheTimeGetIt
<1>1. ASSUME SentInv
      PROVE  FollowersOfTheTimeGetIt
  <2>1. ASSUME NEW i \in (1 .. apos) \ late, activities[i].verb = "Create", activities[i].public,
               NEW r \in Remotes, FollowsAt(r, activities[i].user, activities[i].at)
        PROVE  r \in Received(i)
    <3>1. r \in Audience(i)
      BY <2>1 DEF Audience, Followed
    <3>2. Audience(i) \subseteq Received(i)
      BY <1>1, <2>1 DEF SentInv, Reached, Is
    <3> QED BY <3>1, <3>2
  <2> QED BY <2>1 DEF FollowersOfTheTimeGetIt
<1>2. SentInv => FollowersOfTheTimeGetIt
  BY <1>1
<1> QED BY <1>2, SentInvariant, PTL

-----------------------------------------------------------------------------
(* What is deleted. *)

\* A boost that can be undone was published.
LEMMA BoostedWasAnnounced ==
  ASSUME Typed, NEW u \in Users, NEW o \in Objects, Boosted(u, o)
  PROVE  \E i \in 1 .. Len(activities) : activities[i].verb = "Announce" /\ activities[i].obj = o
<1> DEFINE done == {i \in 1 .. Len(activities) :
                       activities[i].verb = "Announce" /\ activities[i].user = u /\ activities[i].obj = o}
<1> DEFINE undone == {i \in 1 .. Len(activities) :
                         activities[i].verb = "UndoAnnounce" /\ activities[i].user = u /\ activities[i].obj = o}
<1>1. Len(activities) \in Nat
  BY Sorts
<1>2. IsFiniteSet(1 .. Len(activities))
  BY <1>1, FS_Interval
<1>3. IsFiniteSet(undone)
  BY <1>2, FS_Subset
<1>4. Cardinality(undone) \in Nat
  BY <1>3, FS_CardinalityType
<1>5. Cardinality(done) > Cardinality(undone)
  BY DEF Boosted
<1>6. done # {}
  <2> HIDE DEF done, undone
  <2> QED BY <1>4, <1>5, FS_EmptySet
<1> QED BY <1>6

LEMMA LivesKept ==
  ASSUME Typed, Lives, [Next]_vars
  PROVE  Lives'
<1>1. CASE \E verb \in Verbs, u \in Users, o \in Objects, public \in BOOLEAN,
              to \in {{}} \cup {{r} : r \in Remotes} : Activity(verb, u, o, public, to)
  <2>1. PICK verb \in Verbs, u \in Users, o \in Objects, public \in BOOLEAN,
             to \in {{}} \cup {{r} : r \in Remotes} : Activity(verb, u, o, public, to)
    BY <1>1
  <2>2. PICK n \in Nat : n = Len(activities) + 1
    BY Sorts
  <2>3. /\ Len(activities') = n /\ Len(activities) \in Nat
        /\ \A i \in 1 .. Len(activities) : activities'[i] = activities[i]
        /\ activities'[n] = [verb |-> verb, id |-> IdOf(verb, o), user |-> u, obj |-> o,
                             public |-> public, to |-> to, at |-> clock]
    BY <2>1, <2>2, ActivityAppends, Sorts
  <2>4. activities'[n].verb = verb /\ activities'[n].obj = o /\ activities'[n].id = IdOf(verb, o)
    BY <2>3
  <2>5. \A i \in 1 .. n : i \in 1 .. Len(activities) \/ i = n
    BY <2>2, <2>3
  <2>6. Possible(verb, u, o) /\ verb \in AllVerbs
    BY <2>1, SplitterAssumption DEF Activity, AllVerbs
  <2>7. IdOf(verb, o) = [verb |-> IF verb = "Update" THEN "Create" ELSE verb, obj |-> o,
                         n |-> IF verb \in Posts THEN 0 ELSE n]
    BY <2>2, <2>6 DEF IdOf, Posts
  <2>8. verb \in Posts => o \in Own
    BY <2>6 DEF Possible, Posts, Lives, Sent
  <2>9. verb \in Boosts => o \in Boostable
    <3>1. verb = "Announce" => o \in Boostable
      BY <2>6 DEF Possible
    <3>2. verb = "UndoAnnounce" => o \in Boostable
      <4>1. ASSUME verb = "UndoAnnounce"
            PROVE  \E i \in 1 .. Len(activities) : activities[i].verb = "Announce" /\ activities[i].obj = o
        BY <2>6, <4>1, BoostedWasAnnounced DEF Possible
      <4> QED BY <4>1 DEF Lives, Boosts
    <3> QED BY <3>1, <3>2 DEF Boosts
  <2>10. \A i \in 1 .. Len(activities) : activities[i].obj = o /\ Is(i, Posts) => Sent("Create", o)
    BY DEF Lives, Sent, Is
  <2>11. \A i \in 1 .. Len(activities) : activities[i].obj = o /\ Is(i, {"Delete"}) => Sent("Delete", o)
    BY DEF Sent, Is
  <2>12. /\ verb = "Create" => ~Sent("Create", o)
         /\ verb \in {"Update", "Delete"} => Sent("Create", o) /\ ~Sent("Delete", o)
    BY <2>6 DEF Possible
  <2>13. \A i \in 1 .. n : /\ activities'[i].id = [verb |-> IF activities'[i].verb = "Update" THEN "Create"
                                                            ELSE activities'[i].verb, obj |-> activities'[i].obj,
                                                   n |-> IF activities'[i].verb \in Posts THEN 0 ELSE i]
                           /\ activities'[i].verb \in Posts => activities'[i].obj \in Own
                           /\ activities'[i].verb \in Boosts => activities'[i].obj \in Boostable
    <3>1. ASSUME NEW i \in 1 .. Len(activities)
          PROVE  /\ activities'[i].id = [verb |-> IF activities'[i].verb = "Update" THEN "Create"
                                                            ELSE activities'[i].verb, obj |-> activities'[i].obj,
                                                   n |-> IF activities'[i].verb \in Posts THEN 0 ELSE i]
                 /\ activities'[i].verb \in Posts => activities'[i].obj \in Own
                 /\ activities'[i].verb \in Boosts => activities'[i].obj \in Boostable
      BY <2>3 DEF Lives
    <3>2. /\ activities'[n].id = [verb |-> IF activities'[n].verb = "Update" THEN "Create"
                                           ELSE activities'[n].verb, obj |-> activities'[n].obj,
                                  n |-> IF activities'[n].verb \in Posts THEN 0 ELSE n]
          /\ activities'[n].verb \in Posts => activities'[n].obj \in Own
          /\ activities'[n].verb \in Boosts => activities'[n].obj \in Boostable
      BY <2>4, <2>7, <2>8, <2>9
    <3> QED BY <2>5, <3>1, <3>2
  <2>14. ASSUME NEW i \in 1 .. n, NEW j \in 1 .. n, i # j, activities'[i].obj = activities'[j].obj,
                activities'[j].verb \in Posts
         PROVE  /\ activities'[i].verb = "Create" => i < j
                /\ activities'[i].verb = "Delete" => j < i
    <3>1. CASE i \in 1 .. Len(activities) /\ j \in 1 .. Len(activities)
      BY <2>3, <2>14, <3>1 DEF Lives, Is
    <3>2. CASE i \in 1 .. Len(activities) /\ j = n
      <4>1. activities'[i] = activities[i] /\ i < n /\ activities[i].obj = o
        BY <2>2, <2>3, <2>4, <2>14, <3>2
      <4>2. activities[i].verb # "Delete"
        <5>1. activities[i].verb = "Delete" => Sent("Delete", o) /\ Sent("Create", o)
          BY <4>1, <3>2, <2>10, <2>11 DEF Is, Posts
        <5>2. verb \in Posts
          BY <2>4, <2>14, <3>2
        <5> QED BY <5>1, <5>2, <2>12 DEF Posts
      <4> QED BY <3>2, <4>1, <4>2
    <3>3. CASE i = n /\ j \in 1 .. Len(activities)
      <4>1. activities'[j] = activities[j] /\ j < n /\ activities[j].obj = o /\ Sent("Create", o)
        BY <2>2, <2>3, <2>4, <2>10, <2>14, <3>3 DEF Is
      <4> QED BY <2>4, <2>12, <3>3, <4>1
    <3> QED BY <2>5, <2>14, <3>1, <3>2, <3>3
  <2>15. \A i \in 1 .. n : activities'[i].verb \in Posts =>
            \E k \in 1 .. n : activities'[k].verb = "Create" /\ activities'[k].obj = activities'[i].obj
    <3>1. \A k \in 1 .. Len(activities) : k \in 1 .. n
      BY <2>2, <2>3
    <3>2. ASSUME NEW i \in 1 .. Len(activities), activities'[i].verb \in Posts
          PROVE  \E k \in 1 .. n : activities'[k].verb = "Create" /\ activities'[k].obj = activities'[i].obj
      <4>1. PICK k \in 1 .. Len(activities) : activities[k].verb = "Create" /\ activities[k].obj = activities[i].obj
        BY <2>3, <3>2 DEF Lives, Is
      <4> QED BY <2>3, <3>1, <4>1
    <3>3. ASSUME verb \in Posts
          PROVE  \E k \in 1 .. n : activities'[k].verb = "Create" /\ activities'[k].obj = o
      <4>1. CASE verb = "Create"
        BY <2>2, <2>4, <4>1
      <4>2. CASE verb \in {"Update", "Delete"}
        <5>1. PICK k \in 1 .. Len(activities) : activities[k].verb = "Create" /\ activities[k].obj = o
          BY <2>12, <4>2 DEF Sent
        <5> QED BY <2>3, <3>1, <5>1
      <4> QED BY <3>3, <4>1, <4>2 DEF Posts
    <3> QED BY <2>4, <2>5, <3>2, <3>3
  <2> QED BY <2>3, <2>13, <2>14, <2>15 DEF Lives, Is
<1>2. CASE activities' = activities
  BY <1>2 DEF Lives, Is
<1> QED BY <1>1, <1>2 DEF Next, vars, topics, Follower, ApplyFollower, Handle, Persist, PublishDelivery, Finish,
                          FollowersRebuilt, ActivitiesRebuilt, Restart

LEMMA KeepingKept ==
  ASSUME Typed, Keeping, [Next]_vars
  PROVE  Keeping'
<1>1. \A i \in 1 .. Len(activities) : activities'[i] = activities[i]
  BY TopicsGrow
<1>2. job # Idle => job.pos \in 1 .. Len(activities)
  BY Sorts
<1>3. CASE UNCHANGED job
  BY <1>1, <1>2, <1>3, IdleTyped DEF Keeping, Is
<1>4. CASE job' = Idle
  BY <1>4, IdleTyped DEF Keeping
<1>5. CASE Handle
  <2>1. /\ job'.pos = apos + 1 /\ job'.stored = ~Keeps(activities[apos + 1]) /\ apos + 1 \in 1 .. Len(activities)
    BY <1>5, Handled
  <2> QED BY <2>1, <1>1 DEF Keeping, Keeps, Is
<1>6. CASE Persist
  BY <1>6, Persisted DEF Keeping
<1>7. ASSUME NEW r \in Remotes, PublishDelivery(r)
      PROVE  Keeping'
  <2>1. job # Idle /\ job'.pos = job.pos /\ job'.stored = job.stored
    BY <1>7, Published
  <2> QED BY <2>1, <1>1, <1>2 DEF Keeping, Is
<1> QED BY <1>3, <1>4, <1>5, <1>6, <1>7, FanOutSteps DEF Finish

LEMMA LateGrows ==
  ASSUME Typed, [Next]_vars
  PROVE  late \subseteq late'
<1>1. \A r \in Remotes : PublishDelivery(r) => late' = late
  BY DEF PublishDelivery
<1> QED BY <1>1, FanOutSteps DEF Handle, Persist, Finish

\* The versions of an object, and who may have them, do not change after the fact.
LEMMA VersionsStay ==
  ASSUME Typed, Timed, [Next]_vars, NEW o
  PROVE  /\ \A p \in 1 .. Len(activities) : p \in Versions(o)' <=> p \in Versions(o)
         /\ \A p \in 1 .. Len(activities) : MayHave(o, p)' = MayHave(o, p)
         /\ Settled(o)' => Settled(o)
         /\ \A p \in 0 .. Len(activities) : /\ MayHave(o, p)' = MayHave(o, p)
                                            /\ DeletedBy(o, p)' <=> DeletedBy(o, p)
         /\ \A p \in Nat : MayHave(o, p) \subseteq MayHave(o, p)'
<1>1. /\ Len(activities) \in Nat /\ Len(activities') \in Nat /\ Len(activities) <= Len(activities')
      /\ \A p \in 1 .. Len(activities) : activities'[p] = activities[p] /\ Audience(p)' = Audience(p)
  BY TopicsGrow, AudienceStays, Sorts
<1>2. \A p \in 1 .. Len(activities) : p \in Versions(o)' <=> p \in Versions(o)
  BY <1>1 DEF Versions, Is
<1>3. Versions(o) \subseteq 1 .. Len(activities) /\ Versions(o)' \subseteq 1 .. Len(activities')
  BY DEF Versions
<1>4. Settled(o)' => Settled(o)
  BY <1>2, <1>3, LateGrows DEF Settled
<1>5. ASSUME NEW p \in 0 .. Len(activities)
      PROVE  MayHave(o, p)' = MayHave(o, p) /\ (DeletedBy(o, p)' <=> DeletedBy(o, p))
  <2>1. \A j \in Versions(o)' : j <= p => j \in 1 .. Len(activities)
    BY <1>1, <1>3, <1>5
  <2>2. \A j \in 1 .. p : activities'[j] = activities[j]
    BY <1>1, <1>5
  <2>3. DeletedBy(o, p)' <=> DeletedBy(o, p)
    BY <2>2 DEF DeletedBy, Is
  <2>4. \A r \in Remotes : r \in MayHave(o, p)' <=> r \in MayHave(o, p)
    BY <1>1, <1>2, <1>3, <2>1 DEF MayHave
  <2>5. MayHave(o, p) \subseteq Remotes /\ MayHave(o, p)' \subseteq Remotes
    BY DEF MayHave
  <2> QED BY <2>3, <2>4, <2>5
<1>6. \A p \in Nat : MayHave(o, p) \subseteq MayHave(o, p)'
  BY <1>1, <1>2, <1>3 DEF MayHave
<1>7. \A p \in 1 .. Len(activities) : p \in 0 .. Len(activities)
  BY <1>1
<1>8. \A p \in 1 .. Len(activities) : MayHave(o, p)' = MayHave(o, p)
  BY <1>5, <1>7
<1> QED BY <1>2, <1>4, <1>5, <1>6, <1>8

LEMMA MayHaveGrows ==
  ASSUME Typed, NEW o, NEW p \in Nat, NEW q \in Nat, p <= q
  PROVE  /\ MayHave(o, p) \subseteq MayHave(o, q)
         /\ q = p + 1 /\ q \notin Versions(o) => MayHave(o, q) = MayHave(o, p)
         /\ q = p + 1 /\ q \in Versions(o) => MayHave(o, q) = MayHave(o, p) \cup (Audience(q) \cap Remotes)
         /\ MayHave(o, 0) = {}
<1>1. Versions(o) \subseteq Nat /\ 0 \notin Versions(o)
  BY Sorts DEF Versions
<1>2. MayHave(o, p) \subseteq MayHave(o, q) /\ MayHave(o, 0) = {}
  BY <1>1 DEF MayHave
<1>3. ASSUME q = p + 1
      PROVE  \A j \in Versions(o) : j <= q <=> j <= p \/ j = q
  BY <1>1, <1>3
<1>4. q = p + 1 /\ q \notin Versions(o) => MayHave(o, q) = MayHave(o, p)
  BY <1>1, <1>3 DEF MayHave
<1>5. q = p + 1 /\ q \in Versions(o) => MayHave(o, q) = MayHave(o, p) \cup (Audience(q) \cap Remotes)
  BY <1>1, <1>3 DEF MayHave
<1> QED BY <1>2, <1>4, <1>5

\* The deliveries of an object under the id of its creation are those of its versions.
LEMMA HoldersOfVersions ==
  ASSUME Typed, Lives, NEW o
  PROVE  \A p \in 1 .. Len(activities) :
            activities[p].id = [verb |-> "Create", obj |-> o, n |-> 0] <=> p \in Versions(o)
<1>1. ASSUME NEW p \in 1 .. Len(activities)
      PROVE  activities[p].id = [verb |-> "Create", obj |-> o, n |-> 0] <=> p \in Versions(o)
  <2>1. activities[p].id = [verb |-> IF activities[p].verb = "Update" THEN "Create" ELSE activities[p].verb,
                            obj |-> activities[p].obj, n |-> IF activities[p].verb \in Posts THEN 0 ELSE p]
    BY DEF Lives
  <2>2. /\ activities[p].id.verb = IF activities[p].verb = "Update" THEN "Create" ELSE activities[p].verb
        /\ activities[p].id.obj = activities[p].obj
    BY <2>1
  <2>3. ASSUME activities[p].id = [verb |-> "Create", obj |-> o, n |-> 0]
        PROVE  p \in Versions(o)
    <3>1. activities[p].id.verb = "Create" /\ activities[p].id.obj = o
      BY <2>3
    <3> QED BY <2>2, <3>1 DEF Versions, Is
  <2>4. p \in Versions(o) => activities[p].id = [verb |-> "Create", obj |-> o, n |-> 0]
    BY <2>1 DEF Versions, Is, Posts
  <2> QED BY <2>3, <2>4
<1> QED BY <1>1

LEMMA HoldersReceived ==
  ASSUME Typed, Lives, Accounted, NEW o
  PROVE  /\ \A d \in deliveries : d.id = [verb |-> "Create", obj |-> o, n |-> 0] <=> d.pos \in Versions(o)
         /\ \A p \in Versions(o) : Received(p) = Holders(o)
<1>1. \A d \in deliveries : d.pos \in 1 .. Len(activities) /\ d.id = activities[d.pos].id
  BY DEF Accounted
<1>2. \A d \in deliveries : d.id = [verb |-> "Create", obj |-> o, n |-> 0] <=> d.pos \in Versions(o)
  BY <1>1, HoldersOfVersions
<1>3. \A p \in Versions(o) : p \in 1 .. Len(activities)
  BY DEF Versions
<1>4. \A p \in Versions(o) : activities[p].id = [verb |-> "Create", obj |-> o, n |-> 0]
  BY <1>3, HoldersOfVersions
<1>5. \A p \in Versions(o) : Received(p) = Holders(o)
  BY <1>4 DEF Received, Holders
<1> QED BY <1>2, <1>5

LEMMA TracedQuietly ==
  ASSUME Typed, Timed, Accounted, [Next]_vars, NEW o \in Own, Traced(o),
         UNCHANGED <<job, deliveries, recipients, apos, restarts>>
  PROVE  Traced(o)'
<1>1. PICK p \in 0 .. Len(activities) : p = apos
  BY Sorts
<1>2. p' = p /\ apos' = p /\ p + 1 \in Nat
  BY <1>1
<1>3. job # Idle => job.pos = p + 1 /\ job.pos \in 1 .. Len(activities) /\ p + 1 \in 0 .. Len(activities)
  BY <1>1, Sorts DEF Typed
<1>4. /\ \A i \in 1 .. Len(activities) : activities'[i] = activities[i]
      /\ \A i \in 1 .. Len(activities) : i \in Versions(o)' <=> i \in Versions(o)
      /\ Settled(o)' => Settled(o)
      /\ MayHave(o, p)' = MayHave(o, p) /\ (DeletedBy(o, p)' <=> DeletedBy(o, p))
      /\ \A i \in 1 .. Len(activities) : MayHave(o, i)' = MayHave(o, i)
      /\ MayHave(o, p + 1) \subseteq MayHave(o, p + 1)'
      /\ job # Idle => MayHave(o, p + 1)' = MayHave(o, p + 1)
  <2>1. \A i \in 1 .. Len(activities) : activities'[i] = activities[i]
    BY TopicsGrow
  <2>2. /\ \A i \in 1 .. Len(activities) : i \in Versions(o)' <=> i \in Versions(o)
        /\ Settled(o)' => Settled(o)
        /\ MayHave(o, p)' = MayHave(o, p) /\ (DeletedBy(o, p)' <=> DeletedBy(o, p))
        /\ \A i \in 1 .. Len(activities) : MayHave(o, i)' = MayHave(o, i)
        /\ MayHave(o, p + 1) \subseteq MayHave(o, p + 1)'
    BY <1>2, VersionsStay
  <2> QED BY <2>1, <2>2, <1>3
<1>5. /\ SendsVersion(o)' <=> SendsVersion(o)
      /\ SendsDelete(o)' <=> SendsDelete(o)
  BY <1>3, <1>4 DEF SendsVersion, SendsDelete, Is
<1>6. GetRecipients(o)' = GetRecipients(o) /\ Holders(o)' = Holders(o)
  BY DEF GetRecipients, Holders
<1>7. Remembered(o)'
  <2>1. \A i \in Versions(o) : i \in Versions(o)'
    BY <1>4 DEF Versions
  <2> QED BY <1>5, <1>6, <2>1 DEF Traced, Remembered
<1>8. NobodyForgotten(o)'
  BY <1>1, <1>2, <1>4, <1>5, <1>6 DEF Traced, NobodyForgotten
<1>9. EveryoneKnown(o)'
  <2>1. \A d \in deliveries : d.pos \in 1 .. Len(activities)
    BY DEF Accounted
  <2>2. SUFFICES ASSUME Settled(o)' PROVE /\ \A d \in deliveries' : d.pos \in Versions(o)' => d.to \in MayHave(o, d.pos)'
                                          /\ GetRecipients(o)' \subseteq MayHave(o, p + 1)'
                                          /\ SendsVersion(o)' => job' .all = MayHave(o, p + 1)'
                                          /\ ~DeletedBy(o, p)' /\ ~SendsDelete(o)' =>
                                                MayHave(o, p)' \subseteq GetRecipients(o)'
    BY <1>1, <1>2 DEF EveryoneKnown
  <2>3. EveryoneKnown(o) /\ Settled(o)
    BY <1>4, <2>2 DEF Traced
  <2>4. \A d \in deliveries' : d.pos \in Versions(o)' => d.to \in MayHave(o, d.pos)'
    BY <1>4, <2>1, <2>3 DEF EveryoneKnown
  <2>5. GetRecipients(o)' \subseteq MayHave(o, p + 1)'
    BY <1>1, <1>4, <1>6, <2>3 DEF EveryoneKnown
  <2>6. SendsVersion(o)' => job'.all = MayHave(o, p + 1)'
    BY <1>1, <1>4, <1>5, <2>3 DEF EveryoneKnown, SendsVersion
  <2>7. ~DeletedBy(o, p)' /\ ~SendsDelete(o)' => MayHave(o, p)' \subseteq GetRecipients(o)'
    BY <1>1, <1>4, <1>5, <1>6, <2>3 DEF EveryoneKnown
  <2> QED BY <2>4, <2>5, <2>6, <2>7
<1>10. Deleting(o)'
  BY <1>4, <1>5, <1>6 DEF Traced, Deleting
<1> QED BY <1>7, <1>8, <1>9, <1>10 DEF Traced

LEMMA TracedRestart ==
  ASSUME Typed, Timed, Accounted, Restart, NEW o \in Own, Traced(o)
  PROVE  Traced(o)'
<1>1. [Next]_vars
  BY DEF Next
<1>2. /\ apos' = 0 /\ job' = Idle /\ recipients' = Empty /\ restarts' # 0 /\ deliveries' = deliveries
  <2>1. restarts' = restarts + 1 /\ restarts \in Nat
    BY DEF Restart, Typed
  <2> QED BY <2>1 DEF Restart
<1>3. ~SendsVersion(o)' /\ ~SendsDelete(o)' /\ GetRecipients(o)' = {}
  BY <1>2 DEF SendsVersion, SendsDelete, GetRecipients, Empty
<1>4. Remembered(o)' /\ NobodyForgotten(o)' /\ Deleting(o)'
  BY <1>2, <1>3 DEF Remembered, NobodyForgotten, Deleting
<1>5. EveryoneKnown(o)'
  <2>1. /\ \A i \in 1 .. Len(activities) : i \in Versions(o)' <=> i \in Versions(o)
        /\ \A i \in 1 .. Len(activities) : MayHave(o, i)' = MayHave(o, i)
        /\ Settled(o)' => Settled(o)
    BY <1>1, VersionsStay
  <2>2. MayHave(o, 0)' = {}
    <3>1. 0 \in 0 .. Len(activities)
      BY Sorts
    <3>2. MayHave(o, 0)' = MayHave(o, 0)
      BY <1>1, <3>1, VersionsStay
    <3> QED BY <3>2, MayHaveGrows
  <2>3. \A d \in deliveries : d.pos \in 1 .. Len(activities)
    BY DEF Accounted
  <2>4. Settled(o)' => \A d \in deliveries' : d.pos \in Versions(o)' => d.to \in MayHave(o, d.pos)'
    BY <1>2, <2>1, <2>3 DEF Traced, EveryoneKnown
  <2> QED BY <1>2, <1>3, <2>2, <2>4 DEF EveryoneKnown
<1> QED BY <1>4, <1>5 DEF Traced

LEMMA TracedPublish ==
  ASSUME Typed, Timed, Accounted, Lives, NEW r \in Remotes, PublishDelivery(r), NEW o \in Own, Traced(o)
  PROVE  Traced(o)'
<1>1. /\ job # Idle /\ r \in job.all
      /\ job'.pos = job.pos /\ job'.all = job.all /\ job'.stored = job.stored
      /\ deliveries \subseteq deliveries'
      /\ \A d \in deliveries' : d \in deliveries \/ d = [id |-> activities[job.pos].id, to |-> r, pos |-> job.pos]
      /\ UNCHANGED <<late, topics, history, recipients, fpos, apos, starting>>
  BY Published
<1>2. job' # Idle
  <2>1. job' = Idle => job.pos = 0
    BY <1>1, IdleTyped
  <2>2. job.pos # 0
    BY <1>1, Sorts
  <2> QED BY <2>1, <2>2
<1>3. PICK p \in 1 .. Len(activities) : p = job.pos /\ p = apos + 1
  BY <1>1, Sorts DEF Typed
<1>4. \A d \in deliveries' : d \in deliveries \/ (d.id = activities[p].id /\ d.to = r /\ d.pos = p)
  BY <1>1, <1>3
<1>5. activities' = activities /\ followers' = followers /\ restarts' = restarts
  BY <1>1 DEF topics, starting
<1>6. \A i \in Nat : /\ Versions(o)' = Versions(o) /\ MayHave(o, i)' = MayHave(o, i)
                     /\ DeletedBy(o, i)' = DeletedBy(o, i)
  BY <1>5 DEF Versions, Is, MayHave, DeletedBy, Audience, Followed, FollowsAt, EventsOf
<1>7. Settled(o)' <=> Settled(o)
  BY <1>1, <1>6 DEF Settled
<1>8. /\ SendsVersion(o)' <=> SendsVersion(o)
      /\ SendsDelete(o)' <=> SendsDelete(o)
      /\ SendsVersion(o) <=> p \in Versions(o)
      /\ SendsDelete(o) => p \notin Versions(o)
  BY <1>1, <1>2, <1>3, <1>5 DEF SendsVersion, SendsDelete, Versions, Is
<1>9. GetRecipients(o)' = GetRecipients(o)
  BY <1>1 DEF GetRecipients
<1>10. Holders(o)' \subseteq Holders(o) \cup (IF p \in Versions(o) THEN {r} ELSE {})
  BY <1>4, HoldersOfVersions DEF Holders
<1>11. Remembered(o)'
  BY <1>1, <1>2, <1>6, <1>8, <1>9 DEF Traced, Remembered
<1>12. NobodyForgotten(o)'
  <2>1. apos \in Nat /\ apos' = apos
    BY <1>1, Sorts
  <2> QED BY <1>1, <1>5, <1>6, <1>8, <1>9, <1>10, <2>1 DEF Traced, NobodyForgotten
<1>13. EveryoneKnown(o)'
  <2>1. PICK q \in Nat : q = apos
    BY Sorts
  <2>2. apos' = q /\ p = q + 1 /\ q + 1 \in Nat
    BY <1>1, <1>3, <2>1
  <2>3. SUFFICES ASSUME Settled(o)
                 PROVE  /\ \A d \in deliveries' : d.pos \in Versions(o) => d.to \in MayHave(o, d.pos)
                        /\ GetRecipients(o) \subseteq MayHave(o, q + 1)
                        /\ SendsVersion(o) => job.all = MayHave(o, q + 1)
                        /\ ~DeletedBy(o, q) /\ ~SendsDelete(o) => MayHave(o, q) \subseteq GetRecipients(o)
    <3>1. \A i \in Versions(o) : i \in Nat
      BY DEF Versions
    <3> QED BY <1>1, <1>6, <1>7, <1>8, <1>9, <2>2, <3>1 DEF EveryoneKnown
  <2>4. EveryoneKnown(o)
    BY DEF Traced
  <2>5. \A d \in deliveries' : d.pos \in Versions(o) => d.to \in MayHave(o, d.pos)
    <3>1. ASSUME p \in Versions(o)
          PROVE  r \in MayHave(o, p)
      BY <1>1, <1>8, <2>1, <2>2, <2>3, <2>4, <3>1 DEF EveryoneKnown
    <3> QED BY <1>4, <2>3, <2>4, <3>1 DEF EveryoneKnown
  <2> QED BY <2>1, <2>3, <2>4, <2>5 DEF EveryoneKnown
<1>14. Deleting(o)'
  BY <1>1, <1>5, <1>7, <1>8, <1>10 DEF Traced, Deleting
<1> QED BY <1>11, <1>12, <1>13, <1>14 DEF Traced

LEMMA Static ==
  ASSUME UNCHANGED <<followers, activities>>, NEW o
  PROVE  /\ Versions(o)' = Versions(o)
         /\ \A i \in Nat : MayHave(o, i)' = MayHave(o, i) /\ DeletedBy(o, i)' = DeletedBy(o, i)
BY DEF Versions, Is, MayHave, DeletedBy, Audience, Followed, FollowsAt, EventsOf

\* Of an object that is written here and boosted by nobody, only its posts are kept.
LEMMA KeepsPosts ==
  ASSUME Own \cap Boostable = {}, Typed, Lives, Keeping, ~job.stored, NEW o \in Own, activities[job.pos].obj = o
  PROVE  job # Idle /\ Is(job.pos, Posts)
<1>1. job # Idle
  BY IdleTyped
<1>2. job.pos \in 1 .. Len(activities)
  BY <1>1, Sorts
<1>3. activities[job.pos].verb \in AllVerbs /\ activities[job.pos].verb # "Directed"
  BY <1>2, Sorts DEF Keeping, Is
<1>4. activities[job.pos].verb \notin Boosts
  BY <1>2 DEF Lives
<1> QED BY <1>1, <1>3, <1>4 DEF AllVerbs, Boosts, Posts, Is

LEMMA TracedPersist ==
  ASSUME Own \cap Boostable = {}, Typed, Lives, Keeping, Persist, NEW o \in Own, Traced(o)
  PROVE  Traced(o)'
<1>1. /\ job # Idle /\ job'.pos = job.pos /\ job'.all = job.all /\ job'.todo = job.todo /\ job'.stored = TRUE
      /\ UNCHANGED <<topics, history, fpos, apos, deliveries, late, starting>>
  BY Persisted
<1>2. ~job.stored
  BY DEF Persist
<1>3. job' # Idle
  <2>1. job' = Idle => job.pos = 0
    BY <1>1, IdleTyped
  <2>2. job.pos # 0
    BY <1>1, Sorts
  <2> QED BY <2>1, <2>2
<1>4. PICK p \in 1 .. Len(activities) : p = job.pos /\ p = apos + 1
  BY <1>1, Sorts DEF Typed
<1>5. activities' = activities /\ followers' = followers /\ restarts' = restarts
  BY <1>1 DEF topics, starting
<1>6. /\ Versions(o)' = Versions(o)
      /\ \A i \in Nat : MayHave(o, i)' = MayHave(o, i) /\ DeletedBy(o, i)' = DeletedBy(o, i)
  BY <1>5, Static
<1>7. Settled(o)' <=> Settled(o)
  BY <1>1, <1>6 DEF Settled
<1>8. /\ SendsVersion(o)' <=> SendsVersion(o)
      /\ SendsDelete(o)' <=> SendsDelete(o)
      /\ SendsVersion(o) <=> p \in Versions(o)
      /\ SendsDelete(o) => p \notin Versions(o)
  BY <1>1, <1>3, <1>4, <1>5 DEF SendsVersion, SendsDelete, Versions, Is
<1>9. Holders(o)' = Holders(o)
  BY <1>1 DEF Holders
<1>10. \/ ~SendsVersion(o) /\ ~SendsDelete(o) /\ GetRecipients(o)' = GetRecipients(o)
       \/ SendsVersion(o) /\ ~SendsDelete(o) /\ GetRecipients(o)' = job.all
       \/ ~SendsVersion(o) /\ SendsDelete(o) /\ GetRecipients(o)' = {}
  <2>1. recipients' = IF activities[p].verb \in {"Delete", "UndoAnnounce"} THEN Drop(recipients, activities[p].obj)
                      ELSE Put(recipients, activities[p].obj, job.all)
    BY <1>4 DEF Persist
  <2>2. CASE activities[p].obj # o
    <3>1. GetRecipients(o)' = GetRecipients(o)
      BY <2>1, <2>2 DEF GetRecipients, Drop, Put
    <3> QED BY <3>1, <2>2, <1>4 DEF SendsVersion, SendsDelete
  <2>3. CASE activities[p].obj = o
    <3>1. activities[p].verb \in Posts
      BY <1>2, <1>4, <2>3, KeepsPosts DEF Is
    <3>2. CASE activities[p].verb = "Delete"
      <4>1. GetRecipients(o)' = {}
        BY <2>1, <2>3, <3>2 DEF GetRecipients, Drop
      <4> QED BY <4>1, <1>1, <1>4, <2>3, <3>2 DEF SendsVersion, SendsDelete, Is
    <3>3. CASE activities[p].verb \in {"Create", "Update"}
      <4>1. GetRecipients(o)' = job.all
        BY <2>1, <2>3, <3>3 DEF GetRecipients, Put
      <4> QED BY <4>1, <1>1, <1>4, <2>3, <3>3 DEF SendsVersion, SendsDelete, Is
    <3> QED BY <3>1, <3>2, <3>3 DEF Posts
  <2> QED BY <2>2, <2>3
<1>11. Remembered(o)'
  BY <1>1, <1>3, <1>4, <1>6, <1>8, <1>10 DEF Traced, Remembered
<1>12. NobodyForgotten(o)'
  <2>1. apos \in Nat /\ apos' = apos
    BY <1>1, Sorts
  <2> QED BY <1>1, <1>5, <1>6, <1>8, <1>9, <1>10, <2>1 DEF Traced, NobodyForgotten
<1>13. EveryoneKnown(o)'
  <2>1. PICK q \in Nat : q = apos
    BY Sorts
  <2>2. apos' = q /\ p = q + 1 /\ q + 1 \in Nat
    BY <1>1, <1>4, <2>1
  <2>3. SUFFICES ASSUME Settled(o)
                 PROVE  /\ \A d \in deliveries : d.pos \in Versions(o) => d.to \in MayHave(o, d.pos)
                        /\ GetRecipients(o)' \subseteq MayHave(o, q + 1)
                        /\ SendsVersion(o) => job.all = MayHave(o, q + 1)
                        /\ ~DeletedBy(o, q) /\ ~SendsDelete(o) => MayHave(o, q) \subseteq GetRecipients(o)'
    <3>1. \A i \in Versions(o) : i \in Nat
      BY DEF Versions
    <3> QED BY <1>1, <1>6, <1>7, <1>8, <2>2, <3>1 DEF EveryoneKnown
  <2>4. EveryoneKnown(o)
    BY DEF Traced
  <2>5. MayHave(o, q) \subseteq MayHave(o, q + 1)
    BY <2>2, MayHaveGrows
  <2> QED BY <1>10, <2>1, <2>3, <2>4, <2>5 DEF EveryoneKnown
<1>14. Deleting(o)'
  BY <1>1, <1>5, <1>7, <1>8, <1>9 DEF Traced, Deleting
<1> QED BY <1>11, <1>12, <1>13, <1>14 DEF Traced

LEMMA TracedHandle ==
  ASSUME SentInv, Lives, Handle, NEW o \in Own, Traced(o)
  PROVE  Traced(o)'
<1>1. /\ apos + 1 \in 1 .. Len(activities) /\ job = Idle
      /\ job'.pos = apos + 1 /\ job'.all = RecipientsOf(activities[apos + 1]) /\ job'.todo = job'.all
      /\ job'.stored = ~Keeps(activities[apos + 1])
      /\ late \subseteq late' /\ late' \subseteq late \cup {apos + 1}
      /\ UNCHANGED <<topics, history, recipients, fpos, apos, deliveries, starting>>
  BY Handled DEF SentInv
<1>2. PICK p \in 1 .. Len(activities) : p = job'.pos /\ p = apos + 1
  BY <1>1
<1>3. job' # Idle
  <2>1. job' = Idle => p = 0
    BY <1>2, IdleTyped
  <2>2. p # 0
    BY Sorts DEF SentInv
  <2> QED BY <2>1, <2>2
<1>4. PICK q \in Nat : q = apos /\ apos' = q /\ p = q + 1 /\ p \in Nat
  BY <1>1, <1>2, Sorts DEF SentInv
<1>5. activities' = activities /\ followers' = followers /\ restarts' = restarts
  BY <1>1 DEF topics, starting
<1>6. /\ Versions(o)' = Versions(o)
      /\ \A i \in Nat : MayHave(o, i)' = MayHave(o, i) /\ DeletedBy(o, i)' = DeletedBy(o, i)
  BY <1>5, Static
<1>7. Settled(o)' => Settled(o) /\ (p \in Versions(o) => p \notin late')
  BY <1>1, <1>6 DEF Settled
<1>8. /\ ~SendsVersion(o) /\ ~SendsDelete(o)
      /\ SendsVersion(o)' <=> p \in Versions(o)
      /\ SendsDelete(o)' <=> activities[p].verb = "Delete" /\ activities[p].obj = o
      /\ ~(p \in Versions(o) /\ activities[p].verb = "Delete")
  BY <1>1, <1>2, <1>3, <1>5 DEF SendsVersion, SendsDelete, Versions, Is
<1>9. Holders(o)' = Holders(o) /\ GetRecipients(o)' = GetRecipients(o)
  BY <1>1 DEF Holders, GetRecipients
<1>10. \A j \in Versions(o) : /\ j \in 1 .. Len(activities) /\ j \in Nat
                              /\ activities[j].obj = o /\ activities[j].verb \in Posts
  BY DEF Versions, Is, Posts
<1>11. activities[p].verb = "Create" /\ activities[p].obj = o =>
          /\ GetRecipients(o) = {} /\ MayHave(o, q) = {}
  <2>1. ASSUME activities[p].verb = "Create", activities[p].obj = o, NEW j \in Versions(o), j <= q
        PROVE  FALSE
    <3>1. j # p /\ ~(p < j)
      BY <1>4, <1>10, <2>1
    <3> QED BY <1>10, <2>1, <3>1 DEF Lives, Is
  <2>2. MayHave(o, q) = {} \/ \E j \in Versions(o) : j <= q
    BY DEF MayHave
  <2>3. GetRecipients(o) = {} \/ \E j \in Versions(o) : j <= q
    BY <1>1, <1>4 DEF Traced, Remembered
  <2> QED BY <2>1, <2>2, <2>3
<1>12. p \in Versions(o) => /\ GetRecipients(o) \subseteq job'.all
                            /\ job'.all = GetRecipients(o) \cup FollowersAndMentions(activities[p])
  <2>1. CASE activities[p].verb = "Create"
    <3>1. p \in Versions(o) => GetRecipients(o) = {}
      BY <1>11, <2>1 DEF Versions
    <3> QED BY <3>1, <1>1, <1>2, <2>1 DEF RecipientsOf
  <2>2. CASE activities[p].verb = "Update"
    <3>1. job'.all = GetRecipients(activities[p].obj) \cup FollowersAndMentions(activities[p])
      BY <1>1, <1>2, <2>2 DEF RecipientsOf
    <3> QED BY <3>1 DEF Versions
  <2> QED BY <2>1, <2>2 DEF Versions, Is
<1>13. SendsDelete(o)' => job'.all = GetRecipients(o)
  BY <1>1, <1>2, <1>8 DEF RecipientsOf
<1>14. p \in Versions(o) => ~job'.stored /\ ~DeletedBy(o, q)
  <2>1. p \in Versions(o) => ~job'.stored
    BY <1>1, <1>2 DEF Keeps, Versions, Is
  <2>2. ASSUME p \in Versions(o), NEW i \in 1 .. q, Is(i, {"Delete"}), activities[i].obj = o
        PROVE  FALSE
    <3>1. i \in 1 .. Len(activities) /\ i # p /\ ~(p < i)
      BY <1>4, <2>2, <1>10
    <3> QED BY <1>10, <2>2, <3>1 DEF Lives, Is
  <2> QED BY <2>1, <2>2 DEF DeletedBy
<1>15. Remembered(o)'
  <2>1. SendsVersion(o)' => ~job'.stored
    BY <1>8, <1>14
  <2> QED BY <2>1, <1>1, <1>6, <1>9 DEF Traced, Remembered
<1>16. NobodyForgotten(o)'
  BY <1>4, <1>5, <1>6, <1>8, <1>9, <1>12 DEF Traced, NobodyForgotten
<1>17. EveryoneKnown(o)'
  <2>1. SUFFICES ASSUME Settled(o), p \in Versions(o) => p \notin late'
                 PROVE  /\ \A d \in deliveries : d.pos \in Versions(o) => d.to \in MayHave(o, d.pos)
                        /\ GetRecipients(o) \subseteq MayHave(o, p)
                        /\ p \in Versions(o) => job'.all = MayHave(o, p)
                        /\ ~DeletedBy(o, q) => MayHave(o, q) \subseteq GetRecipients(o)
    BY <1>1, <1>4, <1>6, <1>7, <1>8, <1>9, <1>10 DEF EveryoneKnown
  <2>2. EveryoneKnown(o)
    BY DEF Traced
  <2>3. ASSUME p \in Versions(o)
        PROVE  job'.all = MayHave(o, p)
    <3>1. FollowersAndMentions(activities[p]) = Audience(p)
      BY <1>4, <2>1, <2>3, HandledForItsAudience DEF SentInv
    <3>2. GetRecipients(o) \subseteq MayHave(o, p) /\ MayHave(o, q) \subseteq GetRecipients(o)
      BY <1>4, <1>8, <1>14, <2>1, <2>2, <2>3 DEF EveryoneKnown
    <3>3. MayHave(o, p) = MayHave(o, q) \cup (Audience(p) \cap Remotes)
      <4>1. q \in Nat /\ p \in Nat /\ q <= p /\ p = q + 1
        BY <1>4
      <4> QED BY <2>3, <4>1, MayHaveGrows DEF SentInv
    <3>4. Audience(p) \subseteq Remotes
      BY Sorts DEF Audience, Followed, SentInv
    <3> QED BY <1>12, <2>3, <3>1, <3>2, <3>3, <3>4
  <2> QED BY <1>4, <1>8, <2>1, <2>2, <2>3 DEF EveryoneKnown
<1>18. Deleting(o)'
  <2>1. SUFFICES ASSUME SendsDelete(o)', restarts = 0 \/ Settled(o)
                 PROVE  Holders(o) \subseteq GetRecipients(o)
    BY <1>5, <1>7, <1>9, <1>13 DEF Deleting
  <2>2. activities[p].verb = "Delete" /\ activities[p].obj = o
    BY <1>8, <2>1
  <2>3. ~DeletedBy(o, q)
    <3>1. ASSUME NEW i \in 1 .. q, Is(i, {"Delete"}), activities[i].obj = o
          PROVE  FALSE
      <4>1. i \in 1 .. Len(activities) /\ i # p /\ ~(p < i)
        BY <1>4, <3>1
      <4> QED BY <2>2, <3>1, <4>1 DEF Lives, Is, Posts
    <3> QED BY <3>1 DEF DeletedBy
  <2>4. CASE restarts = 0
    BY <1>4, <1>8, <2>3, <2>4 DEF Traced, NobodyForgotten
  <2>5. CASE Settled(o)
    <3>1. MayHave(o, q) \subseteq GetRecipients(o)
      BY <1>4, <1>8, <2>3, <2>5 DEF Traced, EveryoneKnown
    <3>2. ASSUME NEW d \in deliveries, d.pos \in Versions(o)
          PROVE  d.to \in MayHave(o, q)
      <4>1. PICK j \in Versions(o) : j = d.pos
        BY <3>2
      <4>2. j # p /\ j < p
        BY <1>10, <2>2, <4>1 DEF Lives, Is, Versions
      <4>3. j <= q /\ j \in Nat
        BY <1>4, <1>10, <4>2
      <4>4. d.to \in MayHave(o, j)
        BY <2>5, <3>2, <4>1 DEF Traced, EveryoneKnown
      <4> QED BY <4>3, <4>4, MayHaveGrows DEF SentInv
    <3>3. \A d \in deliveries : d.id = [verb |-> "Create", obj |-> o, n |-> 0] <=> d.pos \in Versions(o)
      BY HoldersReceived DEF SentInv
    <3> QED BY <3>1, <3>2, <3>3 DEF Holders
  <2> QED BY <2>1, <2>4, <2>5
<1> QED BY <1>15, <1>16, <1>17, <1>18 DEF Traced

LEMMA TracedFinish ==
  ASSUME Typed, Lives, Finish, NEW o \in Own, Traced(o)
  PROVE  Traced(o)'
<1>1. /\ job # Idle /\ job.todo = {} /\ job.stored /\ job' = Idle /\ apos' = apos + 1
      /\ UNCHANGED <<topics, history, recipients, fpos, deliveries, late, starting>>
  BY DEF Finish
<1>2. PICK p \in 1 .. Len(activities) : p = job.pos /\ p = apos + 1
  BY <1>1, Sorts DEF Typed
<1>3. PICK q \in Nat : q = apos /\ apos' = p /\ p = q + 1 /\ p \in Nat /\ p + 1 \in Nat
  BY <1>1, <1>2, Sorts
<1>4. activities' = activities /\ followers' = followers /\ restarts' = restarts
  BY <1>1 DEF topics, starting
<1>5. /\ Versions(o)' = Versions(o)
      /\ \A i \in Nat : MayHave(o, i)' = MayHave(o, i) /\ DeletedBy(o, i)' = DeletedBy(o, i)
  BY <1>4, Static
<1>6. Settled(o)' <=> Settled(o)
  BY <1>1, <1>5 DEF Settled
<1>7. /\ ~SendsVersion(o)' /\ ~SendsDelete(o)'
      /\ SendsVersion(o) <=> p \in Versions(o)
      /\ SendsDelete(o) => p \notin Versions(o)
  BY <1>1, <1>2, <1>4 DEF SendsVersion, SendsDelete, Versions, Is
<1>8. Holders(o)' = Holders(o) /\ GetRecipients(o)' = GetRecipients(o)
  BY <1>1 DEF Holders, GetRecipients
<1>9. ~DeletedBy(o, p) => ~DeletedBy(o, q) /\ ~SendsDelete(o)
  BY <1>1, <1>2, <1>3 DEF DeletedBy, SendsDelete
<1>10. SendsVersion(o) => GetRecipients(o) = job.all
  BY <1>1 DEF Traced, Remembered
<1>11. Remembered(o)'
  <2>1. \A j \in Versions(o) : j <= q \/ j = p => j <= p
    BY <1>3 DEF Versions
  <2>2. GetRecipients(o) # {} => \E j \in Versions(o) : j <= p
    BY <1>2, <1>3, <2>1 DEF Traced, Remembered
  <2> QED BY <1>3, <1>5, <1>7, <1>8, <2>2 DEF Remembered
<1>12. NobodyForgotten(o)'
  BY <1>3, <1>4, <1>5, <1>7, <1>8, <1>9, <1>10 DEF Traced, NobodyForgotten
<1>13. EveryoneKnown(o)'
  <2>1. SUFFICES ASSUME Settled(o)
                 PROVE  /\ \A d \in deliveries : d.pos \in Versions(o) => d.to \in MayHave(o, d.pos)
                        /\ GetRecipients(o) \subseteq MayHave(o, p + 1)
                        /\ ~DeletedBy(o, p) => MayHave(o, p) \subseteq GetRecipients(o)
    <3>1. \A i \in Versions(o) : i \in Nat
      BY DEF Versions
    <3> QED BY <1>1, <1>3, <1>5, <1>6, <1>7, <1>8, <3>1 DEF EveryoneKnown
  <2>2. EveryoneKnown(o)
    BY DEF Traced
  <2>3. GetRecipients(o) \subseteq MayHave(o, p + 1)
    <3>1. MayHave(o, p) \subseteq MayHave(o, p + 1)
      BY <1>3, MayHaveGrows
    <3> QED BY <1>3, <2>1, <2>2, <3>1 DEF EveryoneKnown
  <2>4. ~DeletedBy(o, p) => MayHave(o, p) \subseteq GetRecipients(o)
    <3>1. CASE p \in Versions(o)
      BY <1>3, <1>7, <1>10, <2>1, <2>2, <3>1 DEF EveryoneKnown
    <3>2. CASE p \notin Versions(o)
      <4>1. q <= p
        BY <1>3
      <4>2. MayHave(o, p) = MayHave(o, q)
        BY <1>3, <3>2, <4>1, MayHaveGrows
      <4> QED BY <1>3, <1>9, <2>1, <2>2, <4>2 DEF EveryoneKnown
    <3> QED BY <3>1, <3>2
  <2> QED BY <2>1, <2>2, <2>3, <2>4 DEF EveryoneKnown
<1>14. Deleting(o)'
  BY <1>7 DEF Deleting
<1> QED BY <1>11, <1>12, <1>13, <1>14 DEF Traced

\* What precedes the deletion of an object are its versions.
LEMMA SeenAreVersions ==
  ASSUME Typed, Lives, NEW i \in 1 .. Len(activities), activities[i].verb = "Delete", NEW o, o = activities[i].obj
  PROVE  About({"Create", "Update"}, o, i) = Versions(o) /\ o \in Own /\ \A j \in Versions(o) : j < i
<1>1. Len(activities) \in Nat
  BY Sorts
<1>2. \A j \in 1 .. i - 1 : j \in 1 .. Len(activities)
  BY <1>1
<1>3. ASSUME NEW j \in Versions(o)
      PROVE  j < i /\ j \in 1 .. i - 1
  <2>1. j \in 1 .. Len(activities) /\ activities[j].obj = o /\ activities[j].verb \in {"Create", "Update"}
    BY DEF Versions, Is
  <2>2. j # i
    BY <2>1
  <2>3. j < i
    BY <2>1, <2>2 DEF Lives, Is, Posts
  <2> QED BY <2>1, <2>3, <1>1
<1>4. o \in Own
  BY DEF Lives, Posts
<1> QED BY <1>2, <1>3, <1>4 DEF About, Versions, Is

\* A deletion that has been handled has reached everyone, and nobody is sent the object after it.
LEMMA ReachedByDelete ==
  ASSUME SentInv, Lives, \A o \in Own : Traced(o), DeleteReachesEveryone, [Next]_vars
  PROVE  DeleteReachesEveryone'
<1> USE DEF SentInv
<1>1. /\ Len(activities) \in Nat /\ apos \in Nat /\ apos <= Len(activities)
      /\ \A i \in 1 .. Len(activities) : activities'[i] = activities[i]
      /\ late \subseteq late'
  BY Sorts, TopicsGrow, LateGrows
<1>2. \A i \in 1 .. apos : i \in 1 .. Len(activities) /\ \A j \in 1 .. i - 1 : j \in 1 .. Len(activities)
  BY <1>1
<1>3. ASSUME NEW i \in 1 .. apos
      PROVE  About({"Create", "Update"}, activities[i].obj, i)' = About({"Create", "Update"}, activities[i].obj, i)
  BY <1>1, <1>2 DEF About
<1>4. \A i, j \in 1 .. Len(activities) : deliveries \subseteq deliveries' => Received(i) \subseteq Received(i)'
  BY <1>1 DEF Received
<1>5. ASSUME UNCHANGED deliveries, UNCHANGED restarts, apos' = apos
      PROVE  DeleteReachesEveryone'
  <2>1. ASSUME NEW i \in 1 .. apos, activities'[i].verb = "Delete",
               restarts = 0 \/ About({"Create", "Update"}, activities[i].obj, i)' \cap late' = {},
               NEW j \in About({"Create", "Update"}, activities[i].obj, i)'
        PROVE  Received(j)' \subseteq Received(i)'
    <3>1. activities'[i] = activities[i] /\ i \in 1 .. Len(activities)
      BY <1>1, <1>2
    <3>2. /\ j \in About({"Create", "Update"}, activities[i].obj, i)
          /\ restarts = 0 \/ About({"Create", "Update"}, activities[i].obj, i) \cap late = {}
      BY <1>1, <1>3, <2>1, <3>1
    <3>3. Received(j) \subseteq Received(i)
      BY <2>1, <3>1, <3>2 DEF DeleteReachesEveryone
    <3>4. j \in 1 .. Len(activities)
      BY <1>2, <3>2 DEF About
    <3>5. Received(j)' = Received(j) /\ Received(i)' = Received(i)
      BY <1>1, <1>5, <3>1, <3>4 DEF Received
    <3> QED BY <3>3, <3>5
  <2> QED BY <1>5, <2>1 DEF DeleteReachesEveryone
<1>6. CASE Restart
  BY <1>6 DEF Restart, DeleteReachesEveryone
<1>7. ASSUME NEW r \in Remotes, PublishDelivery(r)
      PROVE  DeleteReachesEveryone'
  <2>1. /\ job # Idle /\ deliveries \subseteq deliveries'
        /\ \A d \in deliveries' : d \in deliveries \/ d = [id |-> activities[job.pos].id, to |-> r, pos |-> job.pos]
        /\ UNCHANGED <<late, topics, history, recipients, fpos, apos, starting>>
    BY <1>7, Published
  <2>2. activities' = activities /\ restarts' = restarts /\ apos' = apos /\ late' = late
    BY <2>1 DEF topics, starting
  <2>3. PICK p \in 1 .. Len(activities) : p = job.pos /\ p = apos + 1
    BY <2>1, Sorts DEF Typed
  <2>4. \A d \in deliveries' : d \in deliveries \/ d.id = activities[p].id
    BY <2>1, <2>3
  <2>5. ASSUME NEW i \in 1 .. apos, activities[i].verb = "Delete",
               restarts = 0 \/ About({"Create", "Update"}, activities[i].obj, i) \cap late = {},
               NEW j \in About({"Create", "Update"}, activities[i].obj, i)
        PROVE  Received(j)' \subseteq Received(i)'
    <3>1. PICK o : o = activities[i].obj
      OBVIOUS
    <3>2. i \in 1 .. Len(activities) /\ i < p /\ ~(p < i)
      BY <1>1, <2>3
    <3>3. /\ About({"Create", "Update"}, o, i) = Versions(o) /\ \A k \in Versions(o) : k < i
      BY <2>5, <3>1, <3>2, SeenAreVersions
    <3>4. j \in Versions(o) /\ p \notin Versions(o)
      BY <2>5, <3>1, <3>2, <3>3
    <3>5. activities[j].id # activities[p].id
      <4>1. j \in 1 .. Len(activities)
        BY <3>4 DEF Versions
      <4> QED BY <3>4, <4>1, HoldersOfVersions
    <3>6. Received(j)' \subseteq Received(j)
      BY <2>2, <2>4, <3>5 DEF Received
    <3>7. Received(j) \subseteq Received(i)
      BY <2>5 DEF DeleteReachesEveryone
    <3>8. Received(i) \subseteq Received(i)'
      BY <2>1, <2>2 DEF Received
    <3> QED BY <3>6, <3>7, <3>8
  <2>6. \A i \in 1 .. apos : About({"Create", "Update"}, activities[i].obj, i)' = About({"Create", "Update"}, activities[i].obj, i)
    BY <2>2 DEF About
  <2> QED BY <2>2, <2>5, <2>6 DEF DeleteReachesEveryone
<1>8. CASE Finish
  <2>1. /\ job # Idle /\ job.todo = {} /\ apos' = apos + 1
        /\ UNCHANGED <<topics, deliveries, late, starting>>
    BY <1>8 DEF Finish
  <2>2. activities' = activities /\ restarts' = restarts
    BY <2>1 DEF topics, starting
  <2>3. PICK p \in 1 .. Len(activities) : p = job.pos /\ p = apos + 1
    BY <2>1, Sorts DEF Typed
  <2>4. job.all \subseteq Received(p)
    BY <2>1, <2>3 DEF Accounted, Queued, Received
  <2>5. \A i \in 1 .. apos' : i \in 1 .. apos \/ i = p
    BY <2>1, <2>3, <1>1
  <2>6. ASSUME NEW i \in 1 .. apos', activities[i].verb = "Delete",
               restarts = 0 \/ About({"Create", "Update"}, activities[i].obj, i) \cap late = {},
               NEW j \in About({"Create", "Update"}, activities[i].obj, i)
        PROVE  Received(j) \subseteq Received(i)
    <3>1. CASE i \in 1 .. apos
      BY <2>6, <3>1 DEF DeleteReachesEveryone
    <3>2. CASE i = p
      <4>1. PICK o : o = activities[p].obj
        OBVIOUS
      <4>2. About({"Create", "Update"}, o, p) = Versions(o) /\ o \in Own
        BY <2>6, <3>2, <4>1, SeenAreVersions
      <4>3. SendsDelete(o) /\ (restarts = 0 \/ Settled(o))
        BY <2>1, <2>3, <2>6, <3>2, <4>1, <4>2 DEF SendsDelete, Is, Settled
      <4>4. Holders(o) \subseteq job.all
        BY <4>2, <4>3 DEF Traced, Deleting
      <4>5. Received(j) = Holders(o)
        BY <2>6, <3>2, <4>1, <4>2, HoldersReceived
      <4> QED BY <2>4, <3>2, <4>4, <4>5
    <3> QED BY <2>5, <3>1, <3>2
  <2>7. \A i : Received(i)' = Received(i)
    BY <2>1, <2>2 DEF Received
  <2>8. \A i \in 1 .. apos' : About({"Create", "Update"}, activities[i].obj, i)' = About({"Create", "Update"}, activities[i].obj, i)
    BY <2>2 DEF About
  <2> QED BY <2>1, <2>2, <2>6, <2>7, <2>8 DEF DeleteReachesEveryone
<1>9. CASE Handle \/ Persist
  BY <1>5, <1>9 DEF Handle, Persist, starting
<1>10. CASE UNCHANGED <<deliveries, restarts, apos>>
  BY <1>5, <1>10
<1> QED BY <1>6, <1>7, <1>8, <1>9, <1>10 DEF Next, vars, starting, Follower, Activity, ApplyFollower, FollowersRebuilt,
                                             ActivitiesRebuilt

LEMMA DeleteInit ==
  ASSUME Init
  PROVE  DeleteInv
<1>1. Lives
  BY DEF Init, Lives
<1>2. Keeping
  BY IdleTyped DEF Init, Keeping
<1>3. ASSUME NEW o \in Own
      PROVE  Traced(o)
  <2>1. GetRecipients(o) = {} /\ Holders(o) = {} /\ deliveries = {} /\ apos = 0
    BY DEF Init, GetRecipients, Empty, Holders
  <2>2. ~SendsVersion(o) /\ ~SendsDelete(o)
    BY DEF Init, SendsVersion, SendsDelete
  <2>3. MayHave(o, 0) = {}
    BY DEF Init, MayHave, Versions
  <2> QED BY <2>1, <2>2, <2>3 DEF Traced, Remembered, NobodyForgotten, EveryoneKnown, Deleting
<1>4. DeleteReachesEveryone
  BY DEF Init, DeleteReachesEveryone
<1> QED BY <1>1, <1>2, <1>3, <1>4 DEF DeleteInv

LEMMA DeleteStep ==
  ASSUME ~Interrupts, Own \cap Boostable = {}, SentInv, DeleteInv, [Next]_vars
  PROVE  DeleteInv'
<1>1. /\ Lives /\ Keeping /\ DeleteReachesEveryone /\ \A o \in Own : Traced(o)
      /\ Typed /\ Timed /\ Accounted
  BY DEF DeleteInv, SentInv
<1>2. ASSUME NEW o \in Own
      PROVE  Traced(o)'
  <2>1. ASSUME UNCHANGED <<job, deliveries, recipients, apos, restarts>>
        PROVE  Traced(o)'
    BY <1>1, <2>1, TracedQuietly
  <2>2. CASE Handle
    BY <1>1, <2>2, TracedHandle
  <2>3. CASE Persist
    BY <1>1, <2>3, TracedPersist
  <2>4. ASSUME NEW r \in Remotes, PublishDelivery(r)
        PROVE  Traced(o)'
    BY <1>1, <2>4, TracedPublish
  <2>5. CASE Finish
    BY <1>1, <2>5, TracedFinish
  <2>6. CASE Restart
    BY <1>1, <2>6, TracedRestart
  <2>7. CASE ActivitiesRebuilt
    BY <2>1, <2>7 DEF ActivitiesRebuilt
  <2>8. CASE UNCHANGED <<job, deliveries, recipients, apos, restarts>>
    BY <2>1, <2>8
  <2> QED BY <2>2, <2>3, <2>4, <2>5, <2>6, <2>7, <2>8
          DEF Next, vars, starting, Follower, Activity, ApplyFollower, FollowersRebuilt
<1>3. Lives' /\ Keeping' /\ DeleteReachesEveryone'
  BY <1>1, LivesKept, KeepingKept, ReachedByDelete
<1> QED BY <1>2, <1>3 DEF DeleteInv

\* A deletion goes to everyone who was ever sent the object, whoever follows by then, through
\* restarts too unless an audience was taken from a history that lagged: when the drain of
\* the rebuild waits for the fan-out it is in, and the object is boosted by nobody here.
THEOREM DeletedFromEveryone ==
  ASSUME Tidy, ~Interrupts, Own \cap Boostable = {}
  PROVE  Spec => []DeleteReachesEveryone
<1>1. Init => SentInv /\ DeleteInv
  BY SentInit, DeleteInit
<1>2. SentInv /\ DeleteInv /\ [Next]_vars => SentInv' /\ DeleteInv'
  BY SentStep, DeleteStep
<1>3. DeleteInv => DeleteReachesEveryone
  BY DEF DeleteInv
<1> QED BY <1>1, <1>2, <1>3, PTL DEF Spec

-----------------------------------------------------------------------------
(* What is undone. The table has one set of recipients per object: two users who boost the  *)
(* same object overwrite each other's, so that the claim is about objects with one booster. *)
AnnouncedBy(u, o) == {i \in 1 .. Len(activities) :
                         activities[i].verb = "Announce" /\ activities[i].user = u /\ activities[i].obj = o}
UndoneBy(u, o) == {i \in 1 .. Len(activities) :
                      activities[i].verb = "UndoAnnounce" /\ activities[i].user = u /\ activities[i].obj = o}
SoleBooster ==
    \A i, j \in 1 .. Len(activities) :
       Is(i, Boosts) /\ Is(j, Boosts) /\ activities[i].obj = activities[j].obj => activities[i].user = activities[j].user

\* A user boosts and undoes in turn.
InTurn(u, o) ==
    /\ Cardinality(UndoneBy(u, o)) <= Cardinality(AnnouncedBy(u, o))
    /\ (\E j \in AnnouncedBy(u, o) : \A k \in UndoneBy(u, o) : k < j) => Boosted(u, o)
    /\ \A i, j \in AnnouncedBy(u, o) : i < j => \E k \in UndoneBy(u, o) : i < k /\ k < j

\* The boosts before a position that are not undone before it.
Undos(o) == {i \in 1 .. Len(activities) : Is(i, {"UndoAnnounce"}) /\ activities[i].obj = o}
Standing(o, p) == {j \in 1 .. Len(activities) : /\ Is(j, {"Announce"}) /\ activities[j].obj = o /\ j < p
                                                /\ \A k \in Undos(o) : ~(j < k /\ k < p)}
SendsBoost(o) == job # Idle /\ Is(job.pos, {"Announce"}) /\ activities[job.pos].obj = o
SendsUndo(o) == job # Idle /\ Is(job.pos, {"UndoAnnounce"}) /\ activities[job.pos].obj = o
Trusted(j) == restarts = 0 \/ j \notin late

\* Before the first restart nothing is sent ahead of its turn.
Fresh == restarts = 0 => \A d \in deliveries : d.pos <= apos \/ (job # Idle /\ d.pos = job.pos)

\* The table, and then the fan-out, has everyone who was sent the boost that stands.
Spread(o) ==
    /\ ~SendsUndo(o) => \A j \in Standing(o, apos + 1) : Trusted(j) => Received(j) \subseteq GetRecipients(o)
    /\ SendsUndo(o) => \A j \in Standing(o, apos + 1) : Trusted(j) => Received(j) \subseteq job.all
    /\ SendsBoost(o) => /\ Trusted(apos + 1) => Received(apos + 1) \subseteq job.all
                        /\ job.stored => GetRecipients(o) = job.all

UndoInv ==
    /\ \A u \in Users, o \in Objects : InTurn(u, o)
    /\ Fresh /\ (\A o \in Boostable : Spread(o)) /\ UndoneBoostReachesEveryone

LEMMA Counts ==
  ASSUME Typed, NEW u \in Users, NEW o \in Objects
  PROVE  /\ IsFiniteSet(AnnouncedBy(u, o)) /\ Cardinality(AnnouncedBy(u, o)) \in Nat
         /\ IsFiniteSet(UndoneBy(u, o)) /\ Cardinality(UndoneBy(u, o)) \in Nat
         /\ AnnouncedBy(u, o) \subseteq 1 .. Len(activities) /\ UndoneBy(u, o) \subseteq 1 .. Len(activities)
         /\ Boosted(u, o) <=> Cardinality(AnnouncedBy(u, o)) > Cardinality(UndoneBy(u, o))
<1>1. Len(activities) \in Nat
  BY Sorts
<1>2. IsFiniteSet(1 .. Len(activities))
  BY <1>1, FS_Interval
<1>3. AnnouncedBy(u, o) \subseteq 1 .. Len(activities) /\ UndoneBy(u, o) \subseteq 1 .. Len(activities)
  BY DEF AnnouncedBy, UndoneBy
<1>4. IsFiniteSet(AnnouncedBy(u, o)) /\ IsFiniteSet(UndoneBy(u, o))
  BY <1>2, <1>3, FS_Subset
<1>5. Cardinality(AnnouncedBy(u, o)) \in Nat /\ Cardinality(UndoneBy(u, o)) \in Nat
  BY <1>4, FS_CardinalityType
<1>6. Boosted(u, o) <=> Cardinality(AnnouncedBy(u, o)) > Cardinality(UndoneBy(u, o))
  BY DEF Boosted, AnnouncedBy, UndoneBy
<1> QED BY <1>3, <1>4, <1>5, <1>6

LEMMA InTurnKept ==
  ASSUME Typed, NEW u \in Users, NEW o \in Objects, InTurn(u, o), [Next]_vars
  PROVE  InTurn(u, o)'
<1>1. CASE UNCHANGED activities
  BY <1>1 DEF InTurn, AnnouncedBy, UndoneBy, Boosted
<1>2. ASSUME NEW verb \in Verbs, NEW v \in Users, NEW x \in Objects, NEW public \in BOOLEAN,
             NEW to \in {{}} \cup {{r} : r \in Remotes}, Activity(verb, v, x, public, to)
      PROVE  InTurn(u, o)'
  <2>1. PICK n \in Nat : n = Len(activities) + 1
    BY Sorts
  <2>2. /\ Len(activities') = n /\ Len(activities) \in Nat
        /\ \A i \in 1 .. Len(activities) : activities'[i] = activities[i]
        /\ activities'[n] = [verb |-> verb, id |-> IdOf(verb, x), user |-> v, obj |-> x,
                             public |-> public, to |-> to, at |-> clock]
    BY <1>2, <2>1, ActivityAppends, Sorts
  <2>3. activities'[n].verb = verb /\ activities'[n].obj = x /\ activities'[n].user = v
    BY <2>2
  <2>4. \A i : i \in 1 .. n <=> i \in 1 .. Len(activities) \/ i = n
    BY <2>1, <2>2
  <2>5. /\ AnnouncedBy(u, o)' = IF verb = "Announce" /\ v = u /\ x = o THEN AnnouncedBy(u, o) \cup {n} ELSE AnnouncedBy(u, o)
        /\ UndoneBy(u, o)' = IF verb = "UndoAnnounce" /\ v = u /\ x = o THEN UndoneBy(u, o) \cup {n} ELSE UndoneBy(u, o)
    BY <2>2, <2>3, <2>4 DEF AnnouncedBy, UndoneBy
  <2>6. Typed'
    BY TypedKept
  <2>7. Boosted(u, o)' <=> Cardinality(AnnouncedBy(u, o)') > Cardinality(UndoneBy(u, o)')
    BY DEF Boosted, AnnouncedBy, UndoneBy
  <2>8. /\ \A i \in AnnouncedBy(u, o) : i < n /\ i \in Nat
        /\ \A i \in UndoneBy(u, o) : i < n /\ i \in Nat
    BY <2>1, <2>2, Counts
  <2>9. n \notin AnnouncedBy(u, o) /\ n \notin UndoneBy(u, o)
    BY <2>1, <2>8
  <2>10. Cardinality(AnnouncedBy(u, o) \cup {n}) = Cardinality(AnnouncedBy(u, o)) + 1
    BY <2>9, Counts, FS_AddElement
  <2>11. Cardinality(UndoneBy(u, o) \cup {n}) = Cardinality(UndoneBy(u, o)) + 1
    BY <2>9, Counts, FS_AddElement
  <2>12. /\ Cardinality(AnnouncedBy(u, o)) \in Nat /\ Cardinality(UndoneBy(u, o)) \in Nat
         /\ Boosted(u, o) <=> Cardinality(AnnouncedBy(u, o)) > Cardinality(UndoneBy(u, o))
    BY Counts
  <2>13. CASE verb = "Announce" /\ v = u /\ x = o
    <3>1. AnnouncedBy(u, o)' = AnnouncedBy(u, o) \cup {n} /\ UndoneBy(u, o)' = UndoneBy(u, o)
      BY <2>5, <2>13
    <3>2. ~Boosted(u, o)
      BY <1>2, <2>13 DEF Activity, Possible
    <3>3. /\ Cardinality(UndoneBy(u, o)') <= Cardinality(AnnouncedBy(u, o)')
          /\ Cardinality(AnnouncedBy(u, o)') > Cardinality(UndoneBy(u, o)')
      BY <2>10, <2>12, <3>1 DEF InTurn
    <3>4. \A i, j \in AnnouncedBy(u, o)' : i < j => \E k \in UndoneBy(u, o)' : i < k /\ k < j
      <4>1. ASSUME NEW i \in AnnouncedBy(u, o)
            PROVE  \E k \in UndoneBy(u, o) : i < k
        <5>1. PICK k \in UndoneBy(u, o) : ~(k < i)
          BY <3>2 DEF InTurn
        <5>2. k # i
          BY DEF UndoneBy, AnnouncedBy
        <5> QED BY <5>1, <5>2, <2>8
      <4>2. \A i \in AnnouncedBy(u, o) : \E k \in UndoneBy(u, o) : i < k /\ k < n
        BY <4>1, <2>8
      <4>3. \A j \in AnnouncedBy(u, o) : ~(n < j)
        BY <2>8
      <4> QED BY <3>1, <4>2, <4>3 DEF InTurn
    <3> QED BY <2>7, <3>3, <3>4 DEF InTurn
  <2>14. CASE verb = "UndoAnnounce" /\ v = u /\ x = o
    <3>1. AnnouncedBy(u, o)' = AnnouncedBy(u, o) /\ UndoneBy(u, o)' = UndoneBy(u, o) \cup {n}
      BY <2>5, <2>14
    <3>2. Boosted(u, o)
      BY <1>2, <2>14 DEF Activity, Possible
    <3>3. Cardinality(UndoneBy(u, o)') <= Cardinality(AnnouncedBy(u, o)')
      BY <2>11, <2>12, <3>1, <3>2
    <3>4. ~\E j \in AnnouncedBy(u, o)' : \A k \in UndoneBy(u, o)' : k < j
      BY <2>8, <3>1
    <3>5. \A i, j \in AnnouncedBy(u, o)' : i < j => \E k \in UndoneBy(u, o)' : i < k /\ k < j
      BY <3>1 DEF InTurn
    <3> QED BY <3>3, <3>4, <3>5 DEF InTurn
  <2>15. CASE ~(verb \in Boosts /\ v = u /\ x = o)
    <3>1. AnnouncedBy(u, o)' = AnnouncedBy(u, o) /\ UndoneBy(u, o)' = UndoneBy(u, o)
      BY <2>5, <2>15 DEF Boosts
    <3> QED BY <2>7, <2>12, <3>1 DEF InTurn
  <2> QED BY <2>13, <2>14, <2>15 DEF Boosts
<1> QED BY <1>1, <1>2 DEF Next, vars, topics, Follower, ApplyFollower, Handle, Persist, PublishDelivery, Finish,
                          FollowersRebuilt, ActivitiesRebuilt, Restart

LEMMA FreshKept ==
  ASSUME Typed, Fresh, ~Interrupts, [Next]_vars
  PROVE  Fresh'
<1>1. apos \in Nat /\ (job # Idle => job.pos = apos + 1 /\ job.pos \in Nat) /\ restarts \in Nat
      /\ \A d \in deliveries : d.pos \in Nat
  BY Sorts DEF Typed, Deliveries
<1>2. CASE UNCHANGED <<job, deliveries, apos, restarts>>
  BY <1>2 DEF Fresh
<1>3. CASE Handle
  BY <1>3, Handled DEF Fresh, starting
<1>4. CASE Persist
  <2>1. /\ job # Idle /\ job'.pos = job.pos /\ UNCHANGED <<apos, deliveries, starting>>
    BY <1>4, Persisted
  <2>2. job' # Idle
    BY <1>1, <2>1, IdleTyped
  <2> QED BY <2>1, <2>2 DEF Fresh, starting
<1>5. ASSUME NEW r \in Remotes, PublishDelivery(r)
      PROVE  Fresh'
  <2>1. /\ job # Idle /\ job'.pos = job.pos /\ UNCHANGED <<apos, starting>>
        /\ \A d \in deliveries' : d \in deliveries \/ d = [id |-> activities[job.pos].id, to |-> r, pos |-> job.pos]
    BY <1>5, Published
  <2>2. job' # Idle
    BY <1>1, <2>1, IdleTyped
  <2>3. \A d \in deliveries' : d \in deliveries \/ d.pos = job.pos
    BY <2>1
  <2> QED BY <2>1, <2>2, <2>3 DEF Fresh, starting
<1>6. CASE Finish
  <2>1. job # Idle /\ apos' = apos + 1 /\ UNCHANGED <<deliveries, starting>>
    BY <1>6 DEF Finish
  <2> QED BY <1>1, <2>1 DEF Fresh, starting
<1>7. CASE Restart
  BY <1>1, <1>7 DEF Restart, Fresh
<1> QED BY <1>2, <1>3, <1>4, <1>5, <1>6, <1>7 DEF Next, vars, starting, Follower, Activity, ApplyFollower, FollowersRebuilt,
                                                   ActivitiesRebuilt

\* Boosts and undos have ids of their own.
LEMMA BoostIds ==
  ASSUME Typed, Lives, NEW p \in 1 .. Len(activities), activities[p].verb \in Boosts
  PROVE  \A q \in 1 .. Len(activities) : activities[q].id = activities[p].id => q = p
<1>1. ASSUME NEW q \in 1 .. Len(activities)
      PROVE  activities[q].id.n = IF activities[q].verb \in Posts THEN 0 ELSE q
  <2>1. activities[q].id = [verb |-> IF activities[q].verb = "Update" THEN "Create" ELSE activities[q].verb,
                            obj |-> activities[q].obj, n |-> IF activities[q].verb \in Posts THEN 0 ELSE q]
    BY DEF Lives
  <2> QED BY <2>1
<1>2. activities[p].id.n = p
  BY <1>1 DEF Boosts, Posts
<1>3. \A q \in 1 .. Len(activities) : q # 0
  BY Sorts
<1> QED BY <1>1, <1>2, <1>3

LEMMA ReceivedAtItsTurn ==
  ASSUME Typed, Lives, Accounted, NEW p \in 1 .. Len(activities), activities[p].verb \in Boosts
  PROVE  Received(p) = {d.to : d \in {e \in deliveries : e.pos = p}}
<1>1. \A d \in deliveries : d.id = activities[p].id <=> d.pos = p
  BY BoostIds DEF Accounted
<1> QED BY <1>1 DEF Received

LEMMA StandingStays ==
  ASSUME Typed, [Next]_vars, NEW o
  PROVE  \A p \in Nat : p <= Len(activities) + 1 => Standing(o, p)' = Standing(o, p)
<1>1. /\ Len(activities) \in Nat /\ Len(activities') \in Nat /\ Len(activities) <= Len(activities')
      /\ \A i \in 1 .. Len(activities) : activities'[i] = activities[i]
  BY Sorts, TopicsGrow
<1>2. ASSUME NEW p \in Nat, p <= Len(activities) + 1
      PROVE  Standing(o, p)' = Standing(o, p)
  <2>1. \A i \in 1 .. Len(activities') : i < p => i \in 1 .. Len(activities)
    BY <1>1, <1>2
  <2>2. \A i \in 1 .. Len(activities) : i \in 1 .. Len(activities')
    BY <1>1
  <2>3. \A k \in Nat : k < p => (k \in Undos(o)' <=> k \in Undos(o))
    BY <1>1, <2>1, <2>2 DEF Undos, Is
  <2>4. \A k \in Undos(o) \cup Undos(o)' : k \in Nat
    BY <1>1 DEF Undos
  <2>5. \A j \in 1 .. Len(activities) : (\A k \in Undos(o)' : ~(j < k /\ k < p)) <=> (\A k \in Undos(o) : ~(j < k /\ k < p))
    BY <2>3, <2>4
  <2> QED BY <1>1, <2>1, <2>2, <2>5 DEF Standing, Is
<1> QED BY <1>2

\* A boost that stands before an activity stands after it, unless it is the one that is undone
\* there; and the next one is the boost itself.
LEMMA StandingNext ==
  ASSUME Typed, NEW o, NEW p \in 1 .. Len(activities)
  PROVE  /\ \A j \in Standing(o, p + 1) : j = p \/ j \in Standing(o, p)
         /\ Standing(o, 0) = {} /\ Standing(o, 1) = {}
         /\ Is(p, {"UndoAnnounce"}) /\ activities[p].obj = o => Standing(o, p + 1) = {}
         /\ p \in Standing(o, p + 1) => Is(p, {"Announce"}) /\ activities[p].obj = o
         /\ \A j \in Standing(o, p) : j \in 1 .. Len(activities) /\ j < p
<1>1. Len(activities) \in Nat /\ p \in Nat /\ p >= 1
  BY Sorts
<1>2. \A k \in Undos(o) : k \in Nat
  BY <1>1 DEF Undos
<1>3. \A j \in Standing(o, p + 1) : j = p \/ j \in Standing(o, p)
  BY <1>1, <1>2 DEF Standing
<1>4. Standing(o, 0) = {} /\ Standing(o, 1) = {}
  BY <1>1 DEF Standing
<1>5. Is(p, {"UndoAnnounce"}) /\ activities[p].obj = o => Standing(o, p + 1) = {}
  <2>1. ASSUME Is(p, {"UndoAnnounce"}), activities[p].obj = o, NEW j \in Standing(o, p + 1)
        PROVE  FALSE
    <3>1. p \in Undos(o)
      BY <2>1 DEF Undos
    <3>2. j # p /\ j < p + 1 /\ j \in 1 .. Len(activities)
      BY <2>1 DEF Standing, Is
    <3> QED BY <1>1, <2>1, <3>1, <3>2 DEF Standing
  <2> QED BY <2>1
<1>6. p \in Standing(o, p + 1) => Is(p, {"Announce"}) /\ activities[p].obj = o
  BY DEF Standing
<1>7. \A j \in Standing(o, p) : j \in 1 .. Len(activities) /\ j < p
  BY DEF Standing
<1> QED BY <1>3, <1>4, <1>5, <1>6, <1>7

\* With one booster, no other boost of the object stands when it is boosted.
LEMMA NothingStands ==
  ASSUME Typed, SoleBooster, \A u \in Users, o \in Objects : InTurn(u, o),
         NEW p \in 1 .. Len(activities), activities[p].verb = "Announce", NEW o, activities[p].obj = o
  PROVE  Standing(o, p) = {}
<1>1. ASSUME NEW j \in Standing(o, p)
      PROVE  FALSE
  <2>1. j \in 1 .. Len(activities) /\ activities[j].verb = "Announce" /\ activities[j].obj = o /\ j < p
    BY DEF Standing, Is
  <2>2. PICK u \in Users : u = activities[p].user
    BY Sorts
  <2>3. activities[j].user = u /\ o \in Objects
    BY <2>1, <2>2, Sorts DEF SoleBooster, Is, Boosts
  <2>4. j \in AnnouncedBy(u, o) /\ p \in AnnouncedBy(u, o)
    BY <2>1, <2>2, <2>3 DEF AnnouncedBy
  <2>5. PICK k \in UndoneBy(u, o) : j < k /\ k < p
    BY <2>1, <2>3, <2>4 DEF InTurn
  <2>6. k \in Undos(o)
    BY DEF UndoneBy, Undos, Is
  <2> QED BY <2>5, <2>6 DEF Standing
<1> QED BY <1>1

LEMMA SpreadQuietly ==
  ASSUME Typed, [Next]_vars, NEW o \in Boostable, Spread(o),
         UNCHANGED <<job, deliveries, recipients, apos, restarts>>
  PROVE  Spread(o)'
<1>1. PICK q \in Nat : q = apos /\ q <= Len(activities) /\ apos' = q
  BY Sorts
<1>2. q + 1 \in Nat /\ q + 1 <= Len(activities) + 1
  BY <1>1, Sorts
<1>3. Standing(o, q + 1)' = Standing(o, q + 1) /\ \A j \in Standing(o, q + 1) : j \in 1 .. Len(activities)
  BY <1>2, StandingStays DEF Standing
<1>4. \A i \in 1 .. Len(activities) : activities'[i] = activities[i]
  BY TopicsGrow
<1>5. \A i \in 1 .. Len(activities) : Received(i)' = Received(i)
  BY <1>4 DEF Received
<1>6. job # Idle => job.pos = q + 1 /\ q + 1 \in 1 .. Len(activities)
  BY <1>1, Sorts DEF Typed
<1>7. /\ SendsBoost(o)' <=> SendsBoost(o)
      /\ SendsUndo(o)' <=> SendsUndo(o)
  BY <1>4, <1>6 DEF SendsBoost, SendsUndo, Is
<1>8. GetRecipients(o)' = GetRecipients(o)
  BY DEF GetRecipients
<1>9. \A j : Trusted(j)' => Trusted(j)
  BY LateGrows DEF Trusted
<1>10. SendsBoost(o) => job # Idle
  BY DEF SendsBoost
<1> QED BY <1>1, <1>3, <1>5, <1>6, <1>7, <1>8, <1>9, <1>10 DEF Spread

LEMMA SpreadRestart ==
  ASSUME Typed, Restart, NEW o \in Boostable
  PROVE  Spread(o)'
<1>1. apos' = 0 /\ job' = Idle
  BY DEF Restart
<1>2. ~SendsBoost(o)' /\ ~SendsUndo(o)'
  BY <1>1 DEF SendsBoost, SendsUndo
<1>3. Standing(o, 1)' = {}
  <2>1. \A j \in 1 .. Len(activities') : ~(j < 1)
    OBVIOUS
  <2> QED BY <2>1 DEF Standing
<1> QED BY <1>1, <1>2, <1>3 DEF Spread

LEMMA SpreadHandle ==
  ASSUME SentInv, Lives, Fresh, Handle, NEW o \in Boostable, Spread(o)
  PROVE  Spread(o)'
<1>1. /\ apos + 1 \in 1 .. Len(activities) /\ job = Idle
      /\ job'.pos = apos + 1 /\ job'.all = RecipientsOf(activities[apos + 1])
      /\ job'.stored = ~Keeps(activities[apos + 1])
      /\ late \subseteq late'
      /\ UNCHANGED <<topics, history, recipients, fpos, apos, deliveries, starting>>
  BY Handled DEF SentInv
<1>2. PICK p \in 1 .. Len(activities) : p = job'.pos /\ p = apos + 1
  BY <1>1
<1>3. PICK q \in Nat : q = apos /\ apos' = q /\ p = q + 1 /\ p \in Nat
  BY <1>1, <1>2, Sorts DEF SentInv
<1>4. activities' = activities /\ followers' = followers /\ restarts' = restarts
  BY <1>1 DEF topics, starting
<1>5. job' # Idle
  <2>1. job' = Idle => p = 0
    BY <1>2, IdleTyped
  <2> QED BY <1>3, <2>1
<1>6. /\ Standing(o, p)' = Standing(o, p) /\ \A i : Received(i)' = Received(i)
      /\ GetRecipients(o)' = GetRecipients(o)
  BY <1>1, <1>4 DEF Standing, Undos, Is, Received, GetRecipients
<1>7. \A j : Trusted(j)' => Trusted(j) /\ (restarts = 0 \/ j \notin late')
  BY <1>1, <1>4 DEF Trusted
<1>8. ~SendsUndo(o) /\ \A j \in Standing(o, p) : Trusted(j) => Received(j) \subseteq GetRecipients(o)
  BY <1>1, <1>2 DEF Spread, SendsUndo
<1>9. SendsUndo(o)' => job'.all = GetRecipients(o)
  BY <1>1, <1>2, <1>4 DEF SendsUndo, Is, RecipientsOf
<1>10. ASSUME SendsBoost(o)'
       PROVE  (Trusted(p)' => Received(p) \subseteq job'.all) /\ ~job'.stored
  <2>1. activities[p].verb = "Announce" /\ activities[p].obj = o
    BY <1>2, <1>4, <1>10 DEF SendsBoost, Is
  <2>2. ~job'.stored /\ job'.all = FollowersAndMentions(activities[p])
    BY <1>1, <1>2, <2>1 DEF Keeps, RecipientsOf
  <2>3. Received(p) = {d.to : d \in {e \in deliveries : e.pos = p}}
    BY <2>1, ReceivedAtItsTurn DEF SentInv, Boosts
  <2>4. CASE restarts = 0
    <3>1. \A d \in deliveries : d.pos # p
      BY <1>1, <1>3, <2>4 DEF Fresh, SentInv, Typed, Deliveries
    <3> QED BY <2>2, <2>3, <3>1
  <2>5. CASE p \notin late'
    <3>1. FollowersAndMentions(activities[p]) = Audience(p)
      BY <1>3, <2>5, HandledForItsAudience DEF SentInv
    <3>2. \A d \in deliveries : d.pos = p => d.to \in Audience(p)
      BY <1>1, <2>1, <2>5 DEF SentInv, InAudience, Is
    <3> QED BY <2>2, <2>3, <3>1, <3>2
  <2> QED BY <1>7, <2>2, <2>4, <2>5
<1> QED BY <1>3, <1>6, <1>7, <1>8, <1>9, <1>10 DEF Spread

LEMMA SpreadPersist ==
  ASSUME Own \cap Boostable = {}, SoleBooster, \A u \in Users, x \in Objects : InTurn(u, x),
         Typed, Lives, Keeping, Persist, NEW o \in Boostable, Spread(o)
  PROVE  Spread(o)'
<1>1. /\ job # Idle /\ job'.pos = job.pos /\ job'.all = job.all /\ job'.stored = TRUE
      /\ UNCHANGED <<topics, history, fpos, apos, deliveries, late, starting>>
  BY Persisted
<1>2. ~job.stored
  BY DEF Persist
<1>3. PICK p \in 1 .. Len(activities) : p = job.pos /\ p = apos + 1 /\ p # 0
  BY <1>1, Sorts DEF Typed
<1>4. job' # Idle
  <2>1. job' = Idle => p = 0
    BY <1>1, <1>3, IdleTyped
  <2> QED BY <1>3, <2>1
<1>5. activities' = activities /\ restarts' = restarts
  BY <1>1 DEF topics, starting
<1>6. Standing(o, p)' = Standing(o, p) /\ (\A i : Received(i)' = Received(i)) /\ \A i : Trusted(i)' <=> Trusted(i)
  BY <1>1, <1>5 DEF Standing, Undos, Is, Received, Trusted
<1>7. /\ SendsBoost(o)' <=> SendsBoost(o)
      /\ SendsUndo(o)' <=> SendsUndo(o)
      /\ SendsBoost(o) <=> activities[p].verb = "Announce" /\ activities[p].obj = o
      /\ SendsUndo(o) <=> activities[p].verb = "UndoAnnounce" /\ activities[p].obj = o
  BY <1>1, <1>3, <1>4, <1>5 DEF SendsBoost, SendsUndo, Is
<1>8. recipients' = IF activities[p].verb \in {"Delete", "UndoAnnounce"} THEN Drop(recipients, activities[p].obj)
                    ELSE Put(recipients, activities[p].obj, job.all)
  BY <1>3 DEF Persist
<1>9. CASE activities[p].obj # o
  <2>1. GetRecipients(o)' = GetRecipients(o)
    BY <1>8, <1>9 DEF GetRecipients, Drop, Put
  <2> QED BY <1>1, <1>3, <1>6, <1>7, <1>9, <2>1 DEF Spread
<1>10. CASE activities[p].obj = o
  <2>1. activities[p].verb \in Boosts
    <3>1. activities[p].verb \in AllVerbs /\ activities[p].verb # "Directed"
      BY <1>2, <1>3, Sorts DEF Keeping, Is
    <3>2. activities[p].verb \notin Posts
      BY <1>10 DEF Lives
    <3> QED BY <3>1, <3>2 DEF AllVerbs, Boosts, Posts
  <2>2. CASE activities[p].verb = "UndoAnnounce"
    BY <1>1, <1>3, <1>6, <1>7, <1>10, <2>2 DEF Spread
  <2>3. CASE activities[p].verb = "Announce"
    <3>1. GetRecipients(o)' = job.all
      BY <1>8, <1>10, <2>3 DEF GetRecipients, Put
    <3>2. Standing(o, p) = {}
      BY <1>10, <2>3, NothingStands
    <3> QED BY <1>1, <1>3, <1>6, <1>7, <1>10, <2>3, <3>1, <3>2 DEF Spread
  <2> QED BY <2>1, <2>2, <2>3 DEF Boosts
<1> QED BY <1>9, <1>10

LEMMA SpreadPublish ==
  ASSUME Typed, Accounted, Lives, NEW r \in Remotes, PublishDelivery(r), NEW o \in Boostable, Spread(o)
  PROVE  Spread(o)'
<1>1. /\ job # Idle /\ r \in job.all
      /\ job'.pos = job.pos /\ job'.all = job.all /\ job'.stored = job.stored
      /\ \A d \in deliveries' : d \in deliveries \/ d = [id |-> activities[job.pos].id, to |-> r, pos |-> job.pos]
      /\ UNCHANGED <<late, topics, history, recipients, fpos, apos, starting>>
  BY Published
<1>2. PICK p \in 1 .. Len(activities) : p = job.pos /\ p = apos + 1 /\ p # 0
  BY <1>1, Sorts DEF Typed
<1>3. job' # Idle
  <2>1. job' = Idle => p = 0
    BY <1>1, <1>2, IdleTyped
  <2> QED BY <1>2, <2>1
<1>4. activities' = activities /\ restarts' = restarts
  BY <1>1 DEF topics, starting
<1>5. \A d \in deliveries' : d \in deliveries \/ (d.id = activities[p].id /\ d.to = r)
  BY <1>1, <1>2
<1>6. /\ Standing(o, p)' = Standing(o, p) /\ (\A i : Trusted(i)' <=> Trusted(i)) /\ GetRecipients(o)' = GetRecipients(o)
  BY <1>1, <1>4 DEF Standing, Undos, Is, Trusted, GetRecipients
<1>7. /\ SendsBoost(o)' <=> SendsBoost(o)
      /\ SendsUndo(o)' <=> SendsUndo(o)
  BY <1>1, <1>3, <1>4 DEF SendsBoost, SendsUndo, Is
<1>8. \A j \in Standing(o, p) : Received(j)' \subseteq Received(j)
  <2>1. ASSUME NEW j \in Standing(o, p)
        PROVE  Received(j)' \subseteq Received(j)
    <3>1. j \in 1 .. Len(activities) /\ activities[j].verb = "Announce" /\ j # p
      <4>1. j \in 1 .. Len(activities) /\ Is(j, {"Announce"}) /\ j < p
        BY DEF Standing
      <4> QED BY <4>1, Sorts DEF Is
    <3>2. activities[p].id # activities[j].id
      BY <3>1, BoostIds DEF Boosts
    <3> QED BY <1>4, <1>5, <3>2 DEF Received
  <2> QED BY <2>1
<1>9. Received(p)' \subseteq Received(p) \cup {r}
  BY <1>4, <1>5 DEF Received
<1> QED BY <1>1, <1>2, <1>6, <1>7, <1>8, <1>9 DEF Spread

LEMMA SpreadFinish ==
  ASSUME Typed, Finish, NEW o \in Boostable, Spread(o)
  PROVE  Spread(o)'
<1>1. /\ job # Idle /\ job.stored /\ job' = Idle /\ apos' = apos + 1
      /\ UNCHANGED <<topics, history, recipients, fpos, deliveries, late, starting>>
  BY DEF Finish
<1>2. PICK p \in 1 .. Len(activities) : p = job.pos /\ p = apos + 1 /\ apos' = p
  BY <1>1, Sorts DEF Typed
<1>3. activities' = activities /\ restarts' = restarts
  BY <1>1 DEF topics, starting
<1>4. /\ \A i : Standing(o, i)' = Standing(o, i) /\ Received(i)' = Received(i) /\ (Trusted(i)' <=> Trusted(i))
      /\ GetRecipients(o)' = GetRecipients(o)
  BY <1>1, <1>3 DEF Standing, Undos, Is, Received, Trusted, GetRecipients
<1>5. ~SendsBoost(o)' /\ ~SendsUndo(o)'
  BY <1>1 DEF SendsBoost, SendsUndo
<1>6. ASSUME NEW j \in Standing(o, p + 1), Trusted(j)
      PROVE  Received(j) \subseteq GetRecipients(o)
  <2>1. CASE j = p
    <3>1. SendsBoost(o)
      BY <1>1, <1>2, <1>6, <2>1, StandingNext DEF SendsBoost
    <3> QED BY <1>1, <1>2, <1>6, <2>1, <3>1 DEF Spread
  <2>2. CASE j \in Standing(o, p)
    <3>1. ~SendsUndo(o)
      <4>1. ~(Is(p, {"UndoAnnounce"}) /\ activities[p].obj = o)
        BY <1>6, StandingNext
      <4> QED BY <1>2, <4>1 DEF SendsUndo
    <3> QED BY <1>2, <1>6, <2>2, <3>1 DEF Spread
  <2> QED BY <1>6, <2>1, <2>2, StandingNext
<1> QED BY <1>2, <1>4, <1>5, <1>6 DEF Spread

\* The undo of a boost that has been handled has reached everyone.
LEMMA ReachedByUndo ==
  ASSUME Own \cap Boostable = {}, SoleBooster, Typed, Accounted, Lives, \A o \in Boostable : Spread(o),
         UndoneBoostReachesEveryone, [Next]_vars
  PROVE  UndoneBoostReachesEveryone'
<1> DEFINE Undone(i, j) == /\ activities[i].verb = "UndoAnnounce" /\ j \in About({"Announce"}, activities[i].obj, i)
                           /\ activities[j].user = activities[i].user /\ (restarts = 0 \/ j \notin late)
                           /\ \A k \in j + 1 .. i - 1 : ~(/\ activities[k].verb = "UndoAnnounce"
                                                          /\ activities[k].obj = activities[i].obj
                                                          /\ activities[k].user = activities[i].user)
<1>1. UndoneBoostReachesEveryone <=> \A i \in 1 .. apos : \A j : Undone(i, j) => Received(j) \subseteq Received(i)
  BY DEF UndoneBoostReachesEveryone
<1>2. UndoneBoostReachesEveryone' <=>
         \A i \in 1 .. apos' : \A j : Undone(i, j)' => Received(j)' \subseteq Received(i)'
  BY DEF UndoneBoostReachesEveryone
<1>3. /\ Len(activities) \in Nat /\ apos \in Nat /\ apos <= Len(activities)
      /\ \A i \in 1 .. Len(activities) : activities'[i] = activities[i]
      /\ late \subseteq late'
  BY Sorts, TopicsGrow, LateGrows
<1>4. ASSUME NEW i \in 1 .. Len(activities), NEW j, Undone(i, j)
      PROVE  /\ j \in 1 .. Len(activities) /\ j < i /\ activities[j].verb = "Announce"
             /\ activities[j].obj = activities[i].obj /\ activities[i].verb = "UndoAnnounce"
  BY <1>3, <1>4 DEF About
<1>5. ASSUME restarts' = restarts, NEW i \in 1 .. Len(activities), NEW j, Undone(i, j)'
      PROVE  Undone(i, j)
  <2>1. activities'[i] = activities[i] /\ \A k \in 1 .. i - 1 : activities'[k] = activities[k]
    BY <1>3
  <2>2. About({"Announce"}, activities[i].obj, i)' = About({"Announce"}, activities[i].obj, i)
    BY <2>1 DEF About
  <2>3. j \in About({"Announce"}, activities[i].obj, i)
    BY <1>5, <2>2
  <2>4. j \in 1 .. i - 1
    BY <2>3 DEF About
  <2>5. \A k \in j + 1 .. i - 1 : k \in 1 .. i - 1
    BY <1>3, <2>4
  <2> QED BY <1>3, <1>5, <2>1, <2>3, <2>4, <2>5
<1> HIDE DEF Undone
<1>6. ASSUME UNCHANGED <<deliveries, restarts, apos>>
      PROVE  UndoneBoostReachesEveryone'
  <2>1. ASSUME NEW i \in 1 .. apos, NEW j, Undone(i, j)'
        PROVE  Received(j)' \subseteq Received(i)'
    <3>1. i \in 1 .. Len(activities) /\ Undone(i, j)
      BY <1>3, <1>5, <1>6, <2>1
    <3>2. Received(j) \subseteq Received(i)
      BY <1>1, <2>1, <3>1
    <3>3. Received(j)' = Received(j) /\ Received(i)' = Received(i)
      BY <1>3, <1>4, <1>6, <3>1 DEF Received
    <3> QED BY <3>2, <3>3
  <2> QED BY <1>2, <1>6, <2>1
<1>7. CASE Restart
  BY <1>2, <1>7 DEF Restart
<1>8. ASSUME NEW r \in Remotes, PublishDelivery(r)
      PROVE  UndoneBoostReachesEveryone'
  <2>1. /\ job # Idle /\ deliveries \subseteq deliveries'
        /\ \A d \in deliveries' : d \in deliveries \/ d = [id |-> activities[job.pos].id, to |-> r, pos |-> job.pos]
        /\ UNCHANGED <<late, topics, history, recipients, fpos, apos, starting>>
    BY <1>8, Published
  <2>2. activities' = activities /\ restarts' = restarts /\ apos' = apos
    BY <2>1 DEF topics, starting
  <2>3. PICK p \in 1 .. Len(activities) : p = job.pos /\ p = apos + 1
    BY <2>1, Sorts DEF Typed
  <2>4. \A d \in deliveries' : d \in deliveries \/ d.id = activities[p].id
    BY <2>1, <2>3
  <2>5. ASSUME NEW i \in 1 .. apos, NEW j, Undone(i, j)'
        PROVE  Received(j)' \subseteq Received(i)'
    <3>1. i \in 1 .. Len(activities) /\ Undone(i, j) /\ i < p
      BY <1>3, <1>5, <2>2, <2>3, <2>5
    <3>2. j \in 1 .. Len(activities) /\ j # p /\ activities[j].verb = "Announce"
      BY <1>3, <1>4, <3>1
    <3>3. activities[p].id # activities[j].id
      BY <3>2, BoostIds DEF Boosts
    <3>4. Received(j)' \subseteq Received(j)
      BY <2>2, <2>4, <3>3 DEF Received
    <3>5. Received(j) \subseteq Received(i)
      BY <1>1, <2>5, <3>1
    <3>6. Received(i) \subseteq Received(i)'
      BY <2>1, <2>2 DEF Received
    <3> QED BY <3>4, <3>5, <3>6
  <2> QED BY <1>2, <2>2, <2>5
<1>9. CASE Finish
  <2>1. /\ job # Idle /\ job.todo = {} /\ apos' = apos + 1
        /\ UNCHANGED <<topics, deliveries, late, starting>>
    BY <1>9 DEF Finish
  <2>2. activities' = activities /\ restarts' = restarts
    BY <2>1 DEF topics, starting
  <2>3. PICK p \in 1 .. Len(activities) : p = job.pos /\ p = apos + 1
    BY <2>1, Sorts DEF Typed
  <2>4. job.all \subseteq Received(p)
    BY <2>1, <2>3 DEF Accounted, Queued, Received
  <2>5. \A i \in 1 .. apos' : i \in 1 .. apos \/ i = p
    BY <2>1, <2>3, <1>3
  <2>6. ASSUME NEW j, Undone(p, j)
        PROVE  Received(j) \subseteq Received(p)
    <3>1. PICK o \in Boostable : o = activities[p].obj
      BY <1>4, <2>6 DEF Lives, Boosts
    <3>2. j \in Standing(o, p)
      <4>1. j \in 1 .. Len(activities) /\ j < p /\ activities[j].verb = "Announce" /\ activities[j].obj = o
        BY <1>4, <2>6, <3>1
      <4>2. ASSUME NEW k \in Undos(o), j < k, k < p
            PROVE  FALSE
        <5>1. k \in 1 .. Len(activities) /\ activities[k].verb = "UndoAnnounce" /\ activities[k].obj = o
          BY DEF Undos, Is
        <5>2. activities[k].user = activities[p].user
          BY <1>4, <2>6, <3>1, <5>1 DEF SoleBooster, Is, Boosts
        <5>3. k \in j + 1 .. p - 1
          BY <1>3, <4>1, <4>2, <5>1
        <5> QED BY <2>6, <3>1, <5>1, <5>2, <5>3 DEF Undone
      <4> QED BY <4>1, <4>2 DEF Standing, Is
    <3>3. SendsUndo(o) /\ Trusted(j)
      BY <1>4, <2>1, <2>3, <2>6, <3>1 DEF SendsUndo, Is, Trusted, Undone
    <3> QED BY <2>3, <2>4, <3>2, <3>3 DEF Spread
  <2>7. ASSUME NEW i \in 1 .. apos', NEW j, Undone(i, j)'
        PROVE  Received(j)' \subseteq Received(i)'
    <3>1. i \in 1 .. Len(activities)
      BY <1>3, <2>1, <2>3, <2>5
    <3>2. Undone(i, j)
      BY <1>5, <2>2, <2>7, <3>1
    <3>3. Received(j) \subseteq Received(i)
      BY <1>1, <2>5, <2>6, <3>2
    <3> QED BY <2>1, <2>2, <3>3 DEF Received
  <2> QED BY <1>2, <2>7
<1>10. CASE Handle \/ Persist
  <2>1. UNCHANGED <<deliveries, restarts, apos>>
    BY <1>10 DEF Handle, Persist, starting
  <2> QED BY <1>6, <2>1
<1>11. CASE UNCHANGED <<deliveries, restarts, apos>>
  BY <1>6, <1>11
<1> QED BY <1>7, <1>8, <1>9, <1>10, <1>11 DEF Next, vars, starting, Follower, Activity, ApplyFollower, FollowersRebuilt,
                                              ActivitiesRebuilt

LEMMA UndoInit ==
  ASSUME Init
  PROVE  UndoInv
<1>1. ASSUME NEW u \in Users, NEW o \in Objects
      PROVE  InTurn(u, o)
  <2>1. AnnouncedBy(u, o) = {} /\ UndoneBy(u, o) = {}
    BY DEF Init, AnnouncedBy, UndoneBy
  <2>2. Cardinality(UndoneBy(u, o)) <= Cardinality(AnnouncedBy(u, o))
    BY <2>1, FS_EmptySet
  <2> QED BY <2>1, <2>2 DEF InTurn
<1>2. Fresh /\ UndoneBoostReachesEveryone
  BY DEF Init, Fresh, UndoneBoostReachesEveryone
<1>3. ASSUME NEW o \in Boostable
      PROVE  Spread(o)
  <2>1. Standing(o, 1) = {}
    BY DEF Init, Standing
  <2> QED BY <2>1 DEF Init, Spread, SendsBoost, SendsUndo
<1> QED BY <1>1, <1>2, <1>3 DEF UndoInv

LEMMA UndoStep ==
  ASSUME ~Interrupts, Own \cap Boostable = {}, SoleBooster, SentInv, Lives, Keeping, UndoInv, [Next]_vars
  PROVE  UndoInv'
<1>1. /\ Fresh /\ (\A o \in Boostable : Spread(o)) /\ UndoneBoostReachesEveryone
      /\ (\A u \in Users, o \in Objects : InTurn(u, o))
      /\ Typed /\ Timed /\ Accounted
  BY DEF UndoInv, SentInv
<1>2. ASSUME NEW o \in Boostable
      PROVE  Spread(o)'
  <2>1. ASSUME UNCHANGED <<job, deliveries, recipients, apos, restarts>>
        PROVE  Spread(o)'
    BY <1>1, <2>1, SpreadQuietly
  <2>2. CASE Handle
    BY <1>1, <2>2, SpreadHandle
  <2>3. CASE Persist
    BY <1>1, <2>3, SpreadPersist
  <2>4. ASSUME NEW r \in Remotes, PublishDelivery(r)
        PROVE  Spread(o)'
    BY <1>1, <2>4, SpreadPublish
  <2>5. CASE Finish
    BY <1>1, <2>5, SpreadFinish
  <2>6. CASE Restart
    BY <1>1, <2>6, SpreadRestart
  <2>7. CASE ActivitiesRebuilt
    BY <2>1, <2>7 DEF ActivitiesRebuilt
  <2>8. CASE UNCHANGED <<job, deliveries, recipients, apos, restarts>>
    BY <2>1, <2>8
  <2> QED BY <2>2, <2>3, <2>4, <2>5, <2>6, <2>7, <2>8
          DEF Next, vars, starting, Follower, Activity, ApplyFollower, FollowersRebuilt
<1>3. Fresh' /\ UndoneBoostReachesEveryone'
  BY <1>1, FreshKept, ReachedByUndo
<1>4. \A u \in Users, o \in Objects : InTurn(u, o)'
  BY <1>1, InTurnKept
<1> QED BY <1>2, <1>3, <1>4 DEF UndoInv

\* What is taken back is taken back from everyone who has it: a deletion goes to everyone who
\* was sent the object, the undo of a boost to everyone who was sent the boost, under the
\* conditions of the deletion, and as long as no object is boosted by two users.
THEOREM TakenBackFromEveryone ==
  ASSUME Tidy, ~Interrupts, Own \cap Boostable = {}
  PROVE  Spec /\ []SoleBooster => []WithdrawnFromEveryone
<1>1. Init => SentInv /\ DeleteInv /\ UndoInv
  BY SentInit, DeleteInit, UndoInit
<1>2. SentInv /\ DeleteInv /\ [Next]_vars => SentInv' /\ DeleteInv'
  BY SentStep, DeleteStep
<1>3. SoleBooster /\ SentInv /\ DeleteInv /\ UndoInv /\ [Next]_vars => UndoInv'
  BY UndoStep DEF DeleteInv
<1>4. DeleteInv /\ UndoInv => WithdrawnFromEveryone
  BY DEF DeleteInv, UndoInv, WithdrawnFromEveryone
<1> QED BY <1>1, <1>2, <1>3, <1>4, PTL DEF Spec
=============================================================================
