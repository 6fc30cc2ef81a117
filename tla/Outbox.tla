---------------------------------- MODULE Outbox ----------------------------------
(***************************************************************************)
(* What the server API serves of a local author: the collection of his     *)
(* activities and his notes, to whom the one who signs the request may see *)
(* them.  An activity says in to and cc for whom it is; the projection of  *)
(* "deliverable_activities" keeps what that amounts to with the activity,  *)
(* the projection of "followers" keeps who follows him.  An actor that     *)
(* signs for a server reads for everybody of its host.                     *)
(*                                                                         *)
(* One note, published, linked to further accounts by polish_activities    *)
(* and deleted by the client API, and one activity more.                   *)
(***************************************************************************)
EXTENDS Naturals, Sequences, FiniteSets, SequencesExt

CONSTANTS People,          \* actors of other servers
          HostOf,          \* actor -> host
          Servers,         \* those of them that are actors of a server
          Fans,            \* those who may follow the author
          Answered,        \* the author of the status that a reply answers
          MaxActivities,   \* bound: activities of the author
          MaxMoves,        \* bound: changes of the followers
          MaxOutStarts     \* bound: restarts

ASSUME OutboxAssumption ==
  /\ IsFiniteSet(Fans)
  /\ {"Public", "me/followers"} \cap (People \cup {Answered}) = {}

VARIABLES outgoing,        \* activities that have not reached the topic
          deliverable,     \* the topic "deliverable_activities": [verb, to, cc]
          outboxAt,        \* events of it that the projection has handled
          outbox,          \* table s2s_outbox: [verb, visibility, recipients, nr]
          followings,      \* the topic "followers": [verb, who]
          followingsAt,
          fans,            \* table s2s_outbox_followers
          posted,          \* what the author chose: [visibility, to, linked]
          removed,         \* the author has deleted the note
          overtaken,       \* the deletion reached the topic before the note
          outStarts

ovars == <<outgoing, deliverable, outboxAt, outbox, followings, followingsAt, fans,
           posted, removed, overtaken, outStarts>>

Public == "Public"
FollowersOf == "me/followers"
Anonymous == "nobody"
Unposted == [visibility |-> "", to |-> {}, linked |-> {}]

-----------------------------------------------------------------------------
(* Addressing.                                                               *)

\* addressing and replied_to of create_status.  A direct reply is for those
\* who take part in the conversation.
ToOf(visibility, recipients) ==
  CASE visibility = "direct" -> recipients
    [] visibility \in {"private", "unlisted"} -> {FollowersOf}
    [] OTHER -> {Public}
CcOf(visibility, answered) ==
  LET addressed == CASE visibility = "unlisted" -> {Public}
                     [] visibility = "public" -> {FollowersOf}
                     [] OTHER -> {}
  IN addressed \cup (IF visibility = "direct" THEN {} ELSE answered)

\* The Create names in to whom the note names there; cc is added by polish.
Activity(verb, to, cc) == [verb |-> verb, to |-> to, cc |-> cc]

Audience(a) == a.to \cup a.cc
VisibilityOf(a) ==
  IF Public \in Audience(a) THEN "public"
  ELSE IF FollowersOf \in Audience(a) THEN "followers" ELSE "direct"
RecipientsOf(a) == Audience(a) \ {Public, FollowersOf}

\* _publish_activity
Send(activity) ==
  /\ Len(outgoing) + Len(deliverable) < MaxActivities
  /\ outgoing' = Append(outgoing, activity)

CreateStatus(visibility, recipients, answered, linked) ==
  /\ posted = Unposted
  /\ posted' = [visibility |-> visibility, linked |-> linked,
                to |-> IF visibility = "direct" THEN recipients ELSE answered]
  /\ Send(Activity("Create", ToOf(visibility, recipients),
                    CcOf(visibility, answered) \cup linked))
  /\ UNCHANGED <<deliverable, outboxAt, outbox, followings, followingsAt, fans, removed, overtaken, outStarts>>

\* polish_activities publishes the post again when a mentioned actor is discovered.
Relink(a) ==
  /\ posted # Unposted /\ a \notin posted.linked /\ ~removed
  /\ posted' = [posted EXCEPT !.linked = @ \cup {a}]
  /\ Send(Activity("Update", ToOf(posted.visibility, posted.to),
                    CcOf(posted.visibility, posted.to) \cup posted'.linked))
  /\ UNCHANGED <<deliverable, outboxAt, outbox, followings, followingsAt, fans, removed, overtaken, outStarts>>

DeleteStatus ==
  /\ posted # Unposted /\ ~removed /\ removed' = TRUE
  /\ Send(Activity("Delete", {}, {}))
  /\ UNCHANGED <<deliverable, outboxAt, outbox, followings, followingsAt, fans, posted, overtaken, outStarts>>

\* A follow names nobody, a reaction the author of its status.
OtherActivity(verb, to) ==
  /\ Send(Activity(verb, to, {}))
  /\ UNCHANGED <<deliverable, outboxAt, outbox, followings, followingsAt, fans, posted, removed, overtaken, outStarts>>

\* polish_activities and preview_activities pass an activity on.  The deletion
\* of a note does not wait for its previews.
ReachTopic ==
  \E i \in DOMAIN outgoing :
    /\ i = 1 \/ (outgoing[i].verb = "Delete" /\ \A j \in 1..(i - 1) : outgoing[j].verb \in {"Create", "Update"})
    /\ overtaken' = (overtaken \/ i # 1)
    /\ deliverable' = Append(deliverable, outgoing[i])
    /\ outgoing' = RemoveAt(outgoing, i)
    /\ UNCHANGED <<outboxAt, outbox, followings, followingsAt, fans, posted, removed, outStarts>>

\* Whoever was accepted last, in the first n events.
FollowersAfter(n) ==
  {a \in Fans : \E i \in 1..n : /\ followings[i] = [verb |-> "accepted", who |-> a]
                               /\ \A j \in 1..n : followings[j].who = a => j <= i}
Follows(a) == a \in FollowersAfter(Len(followings))
FollowerMoves(a) ==
  /\ Len(followings) < MaxMoves
  /\ followings' = Append(followings, [verb |-> IF Follows(a) THEN "deleted" ELSE "accepted", who |-> a])
  /\ UNCHANGED <<outgoing, deliverable, outboxAt, outbox, followingsAt, fans, posted, removed, overtaken, outStarts>>

-----------------------------------------------------------------------------
(* The projections.                                                          *)

Projected == {"Create", "Update", "Delete", "Follow", "Accept", "Reject", "Undo", "Like", "Announce", "Block"}

MRow(a) ==                 \* mutant: a note is for the followers unless it says otherwise
  [verb |-> a.verb, visibility |-> IF Public \in Audience(a) THEN "public" ELSE "followers",
   recipients |-> RecipientsOf(a)]

Row(a) == [verb |-> a.verb, visibility |-> VisibilityOf(a), recipients |-> RecipientsOf(a)]
AddRow(rows, a) == IF a.verb \in Projected THEN Append(rows, Row(a)) ELSE rows

StoreActivity ==
  /\ outboxAt < Len(deliverable) /\ outboxAt' = outboxAt + 1
  /\ outbox' = AddRow(outbox, deliverable[outboxAt'])
  /\ UNCHANGED <<outgoing, deliverable, followings, followingsAt, fans, posted, removed, overtaken, outStarts>>

MovedFollower(table, m) == IF m.verb = "accepted" THEN table \cup {m.who} ELSE table \ {m.who}
StoreFollower ==
  /\ followingsAt < Len(followings) /\ followingsAt' = followingsAt + 1
  /\ fans' = MovedFollower(fans, followings[followingsAt'])
  /\ UNCHANGED <<outgoing, deliverable, outboxAt, outbox, followings, posted, removed, overtaken, outStarts>>

\* The table that the first n events make.
RowsAfter[n \in 0..Len(deliverable)] ==
  IF n = 0 THEN <<>> ELSE AddRow(RowsAfter[n - 1], deliverable[n])

\* The tables are empty at the start, and nobody reads them before both topics
\* were read up to their ends.  The last event may be handled twice; a table
\* without a key then has its row twice.
RestartOutbox ==
  /\ outStarts < MaxOutStarts /\ outStarts' = outStarts + 1
  /\ outboxAt' = Len(deliverable) /\ followingsAt' = Len(followings)
  /\ LET rows == RowsAfter[Len(deliverable)]
     IN outbox' \in {rows} \cup (IF rows = <<>> THEN {} ELSE {AddRow(rows, Last(deliverable))})
  /\ fans' = FollowersAfter(Len(followings))
  /\ UNCHANGED <<outgoing, deliverable, followings, posted, removed, overtaken>>

OutboxInit ==
  /\ outgoing = <<>> /\ deliverable = <<>> /\ outboxAt = 0 /\ outbox = <<>>
  /\ \E before \in SUBSET Fans :
       /\ followings = SetToSeq({[verb |-> "accepted", who |-> a] : a \in before})
       /\ followingsAt = Len(followings) /\ fans = before
  /\ posted = Unposted /\ removed = FALSE /\ overtaken = FALSE /\ outStarts = 0

Readers == People \ Servers
OutboxNext ==
  \/ \E v \in {"public", "unlisted", "private", "direct"}, A \in SUBSET Readers, L \in {{}, Readers} :
       /\ v # "direct" => A \subseteq {Answered}
       /\ v = "direct" => L = {}
       /\ CreateStatus(v, A, A, L)
  \/ (\E a \in Readers : Relink(a)) \/ \E a \in Fans : FollowerMoves(a)
  \/ \E verb \in {"Follow", "Like"} : OtherActivity(verb, IF verb = "Follow" THEN {} ELSE {Answered})
  \/ DeleteStatus \/ ReachTopic \/ StoreActivity \/ StoreFollower \/ RestartOutbox

-----------------------------------------------------------------------------
(* The requests, signed by an actor or by nobody.                            *)

\* _reach_of: whom the signer reads for, and if one of them follows the author.
Reach(r) == {a \in People : a = r \/ (r \in Servers /\ HostOf[a] = HostOf[r])}
ReachFollows(r) == Reach(r) \cap fans # {}

\* resolve_outbox
MaySee(row, r) ==
  \/ row.visibility = "public"
  \/ row.visibility = "followers" /\ ReachFollows(r)
  \/ row.recipients \cap Reach(r) # {}
Listed(r) == {row \in Range(outbox) : MaySee(row, r)}

\* latest_for_object, resolve_note
OfTheNote == {i \in DOMAIN outbox : outbox[i].verb \in {"Create", "Update", "Delete"}}
Latest == outbox[CHOOSE i \in OfTheNote : \A j \in OfTheNote : j <= i]
ResolveNote(r) ==
  IF OfTheNote = {} THEN "unknown"
  ELSE IF ~MaySee(Latest, r) THEN "refused"
  ELSE IF Latest.verb = "Delete" THEN "tombstone" ELSE "note"

\* The answer may be kept by a cache that others read from.
Cacheable(r) == ResolveNote(r) = "note" /\ Latest.visibility = "public"

-----------------------------------------------------------------------------
CaughtUp == outgoing = <<>> /\ outboxAt = Len(deliverable) /\ followingsAt = Len(followings)

\* For whom the author meant the note: everybody, whom he addressed or linked,
\* his followers, and the servers of these.
Meant(r) ==
  \/ posted.visibility \in {"public", "unlisted"}
  \/ \E a \in posted.to \cup posted.linked : a \in Reach(r)
  \/ posted.visibility = "private" /\ \E a \in Reach(r) : Follows(a)

\* When the projections have caught up, a reader is served a note if it is meant
\* for him, however often it was published again and whoever has stopped
\* following since, and nobody is served a deleted one, except where its
\* deletion has overtaken it.  A shared cache keeps only what is meant for
\* everybody.  The collection of a reader has the Create only if he is
\* served the note, a reaction if he reads for the author of its status, and
\* nothing that names nobody.
ServedToTheEntitled ==
  (CaughtUp /\ posted # Unposted) =>
    \A r \in People \cup {Anonymous} :
      /\ Cacheable(r) => Meant(Anonymous)
      /\ ~removed => ResolveNote(r) = (IF Meant(r) THEN "note" ELSE "refused")
      /\ (removed /\ ~overtaken) => ResolveNote(r) # "note"
      /\ \A row \in Listed(r) : /\ row.verb \in {"Create", "Update"} => Meant(r)
                                /\ row.verb # "Follow"
                                /\ row.verb = "Like" => Answered \in Reach(r)

\* A deleted note is answered with a tombstone to those whom it was meant for.
DeletedNotesAreTombstones ==
  (CaughtUp /\ removed /\ ~overtaken) =>
    \A r \in People \cup {Anonymous} : Meant(r) => ResolveNote(r) = "tombstone"
=============================================================================
