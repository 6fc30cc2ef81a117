------------------------------ MODULE Statuses ------------------------------
(***************************************************************************)
(* The statuses of the client API: what the translators own_statuses,      *)
(* own_timeline and incoming_timeline put on the topic "timeline", the     *)
(* tables that the projection makes of it (as_objects with the boosts and  *)
(* reactions derived from it, user_timeline), the compressor that makes    *)
(* boosts of boosts direct, the sweeper, and the requests of one local     *)
(* user who boosts and reacts, which read the tables and publish to a      *)
(* topic that the projection has not seen yet.                             *)
(*                                                                         *)
(* The url of an object determines its kind, author, emoji, visibility and *)
(* recipients.  The text of a status is not modelled.  mastodon_id is the  *)
(* moment an activity was emitted; an own activity reaches the timeline    *)
(* later than that, by way of three topics.                                *)
(***************************************************************************)
EXTENDS Naturals, Sequences, FiniteSets, SequencesExt, FiniteSetsExt

CONSTANTS Contents,     \* urls of notes
          Announces,    \* urls of boosts
          Likes,        \* urls of reactions
          Author,       \* url -> actor
          EmojiOf,      \* url of a reaction -> emoji
          Nr,           \* url -> number; unused urls are taken in this order
          Direct,       \* notes that are addressed to their recipients only
          Recipients,   \* url -> the local users it is addressed to
          Me,           \* the local user whose requests are modelled
          Users,        \* local users
          Casts,        \* sets of urls; a behaviour has those of one of them
          MaxEvents,    \* bound: activities in a behaviour
          MaxRestarts   \* bound: restarts of the process

Urls == Contents \cup Announces \cup Likes
Actors == {Author[u] : u \in Urls}

VARIABLES pending,   \* own activities that have not reached the timeline
          timeline,  \* the topic
          applied,   \* events the projection has handled
          objects,   \* as_objects: url -> row, for the urls stored
          access,    \* private_object_access
          edges,     \* boosts, boost_counts, reactions, reaction_counts
          home,      \* user_timeline
          tx,        \* a compression that has chosen and not committed
          half,      \* a request that has published one of two activities
          emitted, restarts, rebuiltTo,
          raced,     \* a request was made before the one before it showed, or on counts
                     \* that may be wrong
          overlapped, \* an event was projected while a compression ran
          cast       \* the urls of this behaviour

vars == <<pending, timeline, applied, objects, access, edges, home, tx, half,
          emitted, restarts, rebuiltTo, raced, overlapped, cast>>

NoUrl == "no url"

\* An url is of one thing, and what is addressed to its recipients only is a note.
ASSUME StatusesAssumption ==
  /\ Contents \cap Announces = {} /\ Contents \cap Likes = {} /\ Announces \cap Likes = {}
  /\ NoUrl \notin Urls /\ Direct \subseteq Contents /\ Me \in Users
  /\ \A chosen \in Casts : chosen \subseteq Urls

Kind(u) == IF u \in Contents THEN "content"
           ELSE IF u \in Announces THEN "announce" ELSE "like"
\* The rows of one table over those of another.
Over(f, g) == [k \in DOMAIN f \cup DOMAIN g |-> IF k \in DOMAIN f THEN f[k] ELSE g[k]]
NoEdges == [boosts |-> {}, nBoosts |-> <<>>, reactions |-> {}, nReactions |-> <<>>]

-----------------------------------------------------------------------------
(* The edges derived from as_objects.  T is a content of the table.         *)

\* The edges of kind k to object c, one per actor and emoji: the oldest.
Valid(T, k, c) ==
  LET to == {u \in DOMAIN T : Kind(u) = k /\ T[u].target = c}
  IN IF c \notin DOMAIN T \/ Kind(c) # "content" THEN {}
     ELSE {u \in to : \A v \in to :
             Author[v] = Author[u] /\ EmojiOf[v] = EmojiOf[u] => T[u].id <= T[v].id}

\* Rows of a table of edges after a refresh of the objects S: those that are
\* no longer valid leave, the valid ones enter unless they conflict with a
\* row that stayed, by url or by actor, object and emoji.
Edges(rows, valid, S) ==
  LET kept == {r \in rows : r[2] \in S => r[1] \in {v[1] : v \in valid}}
  IN kept \cup {v \in valid : \A r \in kept :
                  /\ r[1] # v[1]
                  /\ <<Author[r[1]], EmojiOf[r[1]], r[2]>> # <<Author[v[1]], EmojiOf[v[1]], v[2]>>}

ValidRows(T, k, S) == UNION {{<<u, c>> : u \in Valid(T, k, c)} : c \in S}

RefreshBoosts(T, E, valid, S) ==
  [boosts     |-> Edges(E.boosts, valid, S),
   nBoosts    |-> Over([c \in {c \in S : c \in DOMAIN T /\ Kind(c) = "content"} |->
                          Cardinality({v \in valid : v[2] = c})], E.nBoosts),
   reactions  |-> E.reactions,
   nReactions |-> E.nReactions]

RefreshReactions(E, valid, S) ==
  LET counted == {<<v[2], EmojiOf[v[1]]>> : v \in valid}
      stay    == {k \in DOMAIN E.nReactions : k[1] \in S => k \in counted}
  IN [boosts     |-> E.boosts,
      nBoosts    |-> E.nBoosts,
      reactions  |-> Edges(E.reactions, valid, S),
      nReactions |-> Over([k \in counted |->
                             Cardinality({v \in valid : <<v[2], EmojiOf[v[1]]>> = k})],
                          [k \in stay |-> E.nReactions[k]])]

RefreshEdges(T, E, S) ==
  RefreshReactions(RefreshBoosts(T, E, ValidRows(T, "announce", S), S),
                   ValidRows(T, "like", S), S)

-----------------------------------------------------------------------------
(* The projection.                                                          *)

StoreObject(u, id, target, vis) ==
  LET T == Over(objects, [v \in {u} |-> [id |-> id, target |-> target, vis |-> vis]])
  IN /\ objects' = T
     /\ access' = access \cup (IF vis = "direct" THEN {u} \X Recipients[u] ELSE {})
     /\ edges' = RefreshEdges(T, edges, ({u} \cap Contents) \cup ({target} \ {NoUrl}))

MDeleteObject(u) ==                    \* mutant: the target is not refreshed
  /\ objects' = [v \in DOMAIN objects \ {u} |-> objects[v]]
  /\ UNCHANGED <<edges, access>>

DeleteObject(u) ==
  LET T == [v \in DOMAIN objects \ {u} |-> objects[v]]
  IN /\ objects' = T
     /\ edges' = RefreshEdges(T, edges,
                   IF u \in DOMAIN objects THEN {objects[u].target} \ {NoUrl} ELSE {})
     /\ UNCHANGED access

MOnStore(e) ==                         \* mutant: the first recipient only
  /\ StoreObject(e.url, e.id, e.target, IF e.url \in Direct THEN "direct" ELSE "public")
  /\ home' = IF e.url \in DOMAIN objects THEN home ELSE home \cup {<<e.user, e.url>>}

\* Create and Announce.
OnStore(e) ==
  /\ StoreObject(e.url, e.id, e.target, IF e.url \in Direct THEN "direct" ELSE "public")
  /\ home' = home \cup {<<e.user, e.url>>}

\* An update of a status that was never stored stores it, with the default
\* visibility and on nobody's timeline.
OnUpdate(e) == StoreObject(e.url, e.id, e.target, "public") /\ UNCHANGED home

OnReact(e) == StoreObject(e.url, e.id, e.target, "public") /\ UNCHANGED home

OnDelete(e) ==
  /\ DeleteObject(e.url)
  /\ home' = {h \in home : h[2] # e.url}

Blocked(u) == tx # <<>> /\ u \in DOMAIN tx[1].refs

\* The next event of the timeline.  A row that a compression has changed and
\* not committed cannot be deleted before it commits.
Apply ==
  /\ applied < Len(timeline)
  /\ LET e == timeline[applied + 1]
     IN \/ e.verb \in {"Create", "Announce"} /\ OnStore(e)
        \/ e.verb = "Update" /\ OnUpdate(e)
        \/ e.verb = "Like" /\ OnReact(e)
        \/ e.verb = "Delete" /\ ~Blocked(e.url) /\ OnDelete(e)
  /\ applied' = applied + 1
  /\ overlapped' = (overlapped \/ tx # <<>>)
  /\ UNCHANGED <<pending, timeline, tx, half, emitted, restarts, rebuiltTo, raced, cast>>

Ready == applied >= rebuiltTo

-----------------------------------------------------------------------------
(* The compressor and the sweeper.                                          *)

Smallest(T, S) == CHOOSE u \in S : \A v \in S : T[u].id <= T[v].id

MNewRef(T, a, b, c) ==                 \* mutant: the note itself is forgotten
  IF T[c].target = NoUrl /\ c \notin Contents THEN c ELSE Smallest(T, {a, b, c})

\* What a row that points at b, which points at c, shall point at.
NewRef(T, a, b, c) ==
  IF T[c].target = NoUrl THEN c
  ELSE IF T[c].target = a THEN Smallest(T, {a, b, c})
  ELSE IF T[c].target = b THEN Smallest(T, {b, c})
  ELSE T[c].target

\* The view reblog_compression.
Compressible(T) ==
  {p \in {[a |-> a, b |-> T[a].target, ref |-> NewRef(T, a, T[a].target, T[T[a].target].target),
           start |-> \A o \in DOMAIN T : T[o].target # a] :
            a \in {x \in DOMAIN T : /\ T[x].target \in DOMAIN T
                                    /\ T[T[x].target].target \in DOMAIN T}} :
     p.ref \notin {p.a, p.b}}

\* One statement: every row named by a picked pair moves to one of the
\* references it is given.
Moves(T, picked) ==
  LET named == {u \in {p.a : p \in picked} \cup {p.b : p \in picked} :
                  \E p \in picked : u \in {p.a, p.b} /\ p.ref # T[u].target}
      refs(u) == {p.ref : p \in {q \in picked : u \in {q.a, q.b}}} \ {T[u].target}
  IN {m \in [named -> UNION {refs(u) : u \in named}] : \A u \in named : m[u] \in refs(u)}

\* All chains, or one of the others.
Picks(T) == (IF \E p \in Compressible(T) : p.start
             THEN {{p \in Compressible(T) : p.start}} ELSE {})
            \cup {{p} : p \in {q \in Compressible(T) : ~q.start}}

Moved(T, m) == [u \in DOMAIN T |-> IF u \in DOMAIN m THEN [T[u] EXCEPT !.target = m[u]] ELSE T[u]]

\* The transaction of a compression that finds something to do: its update,
\* and the edges that are valid then, read before what others commit.
Compress ==
  /\ Ready /\ tx = <<>>
  /\ \E picked \in Picks(objects) : \E m \in Moves(objects, picked) :
       LET T == Moved(objects, m)
           S == {m[u] : u \in DOMAIN m}
       IN tx' = <<[refs |-> m, boosts |-> ValidRows(T, "announce", S),
                   reactions |-> ValidRows(T, "like", S)]>>
  /\ UNCHANGED <<pending, timeline, applied, objects, access, edges, home, half,
                 emitted, restarts, rebuiltTo, raced, overlapped, cast>>

\* The rest of it.
CompressCommits ==
  /\ tx # <<>>
  /\ LET m == tx[1].refs
         T == Moved(objects, m)
         S == {m[u] : u \in DOMAIN m}
     IN /\ objects' = T
        /\ edges' = RefreshReactions(RefreshBoosts(T, edges, tx[1].boosts, S), tx[1].reactions, S)
  /\ tx' = <<>>
  /\ UNCHANGED <<pending, timeline, applied, access, home, half, emitted, restarts,
                 rebuiltTo, raced, overlapped, cast>>

Orphans == {c \in Contents \ DOMAIN objects :
              \/ c \in DOMAIN edges.nBoosts
              \/ \E r \in edges.boosts \cup edges.reactions : r[2] = c
              \/ \E k \in DOMAIN edges.nReactions : k[1] = c}

Sweep ==
  /\ Ready /\ Orphans # {}
  /\ edges' = [boosts     |-> {r \in edges.boosts : r[2] \in DOMAIN objects},
               nBoosts    |-> [c \in DOMAIN edges.nBoosts \cap DOMAIN objects |-> edges.nBoosts[c]],
               reactions  |-> {r \in edges.reactions : r[2] \in DOMAIN objects},
               nReactions |-> [k \in {k \in DOMAIN edges.nReactions : k[1] \in DOMAIN objects} |->
                                 edges.nReactions[k]]]
  /\ UNCHANGED <<pending, timeline, applied, objects, access, home, tx, half,
                 emitted, restarts, rebuiltTo, raced, overlapped, cast>>

-----------------------------------------------------------------------------
(* Queries.                                                                 *)

\* resolve_content and content_url.
Content(T, u) ==
  LET t == IF u \notin DOMAIN T THEN u
           ELSE IF T[u].target = NoUrl THEN u ELSE T[u].target
  IN IF u \in DOMAIN T /\ t \in DOMAIN T /\ Kind(t) = "content" THEN t ELSE NoUrl

Visible(u, viewer) ==
  u \in DOMAIN objects /\ (objects[u].vis = "public" \/ Author[u] = viewer \/ <<u, viewer>> \in access)

\* The home timeline of a user, without its order and limit.
Home(user) ==
  {u \in DOMAIN objects : /\ <<user, u>> \in home
                          /\ Content(objects, u) # NoUrl
                          /\ Visible(Content(objects, u), user)}

\* The statuses on the page of an author.
FetchByActor(actor, viewer) ==
  {u \in DOMAIN objects : /\ Author[u] = actor /\ Kind(u) # "like"
                          /\ Content(objects, u) # NoUrl
                          /\ Visible(u, viewer) /\ Visible(Content(objects, u), viewer)}

\* What a list of urls (bookmarks, pinned statuses, search) shows.
RowsForUrls(urls, viewer) ==
  {u \in urls \cap DOMAIN objects :
     Visible(u, viewer) /\ Visible(IF objects[u].target = NoUrl THEN u ELSE objects[u].target, viewer)}

\* get: the status a request is about, by the content it shows.
Shown(u, viewer) == IF Visible(u, viewer) THEN Content(objects, u) ELSE NoUrl

\* What is shown below a note: how many boosts and reactions there are, and
\* whether the viewer has a part in them.
BoostedBy(c) == {r[1] : r \in {x \in edges.boosts : x[2] = c /\ x[1] \in DOMAIN objects}}
ReactedBy(c) == {r[1] : r \in {x \in edges.reactions : x[2] = c /\ x[1] \in DOMAIN objects}}
BoostStats(c, viewer) ==
  [n |-> IF c \in DOMAIN edges.nBoosts THEN edges.nBoosts[c] ELSE 0,
   mine |-> \E r \in edges.boosts : r[2] = c /\ Author[r[1]] = viewer]
ReactionBreakdown(c, viewer) ==
  {[emoji |-> k[2], n |-> edges.nReactions[k],
    mine |-> \E r \in edges.reactions : r[2] = c /\ EmojiOf[r[1]] = k[2] /\ Author[r[1]] = viewer] :
     k \in {k \in DOMAIN edges.nReactions : k[1] = c /\ edges.nReactions[k] > 0}}

BoostOf(actor, c) == {r[1] : r \in {x \in edges.boosts : Author[x[1]] = actor /\ x[2] = c}}
OwnReaction(actor, c) == {r[1] : r \in {x \in edges.reactions : Author[x[1]] = actor /\ x[2] = c}}

-----------------------------------------------------------------------------
(* Activities.                                                              *)

Event(verb, u, target, user) ==
  [verb |-> verb, url |-> u, target |-> target, user |-> user, id |-> emitted + 1]

Used == {timeline[i].url : i \in DOMAIN timeline} \cup {pending[i].url : i \in DOMAIN pending}

\* The url of the next activity of an author among S: which unused url it
\* gets makes no difference.
Fresh(S) == {u \in (S \cap cast) \ Used : \A v \in (S \cap cast) \ Used : Author[v] = Author[u] => Nr[u] <= Nr[v]}

Incoming(e) == /\ emitted < MaxEvents
               /\ emitted' = emitted + 1
               /\ timeline' = Append(timeline, e)
               /\ UNCHANGED <<pending, applied, objects, access, edges, home, tx, half,
                              restarts, rebuiltTo, raced, overlapped, cast>>

\* A note of a remote author reaches one of its recipients; a repeated
\* delivery has an event of its own.
RemoteCreate ==
  \E c \in Contents \cap cast, user \in Users :
    /\ Author[c] # Me /\ (c \in Direct => user \in Recipients[c])
    /\ ~\E i \in DOMAIN timeline : timeline[i].verb = "Create" /\ timeline[i].url = c /\ timeline[i].user = user
    /\ Incoming(Event("Create", c, NoUrl, user))

\* An edit, or a referenced note that the activity_resolver has fetched.
RemoteUpdate == \E c \in Contents \cap cast : /\ Author[c] # Me
                                    /\ Incoming(Event("Update", c, NoUrl, Me))

\* Boosts of notes and of boosts, whether or not these have arrived.
RemoteAnnounce ==
  \E a \in Fresh(Announces), t \in (Contents \cup Announces) \cap cast :
    Author[a] # Me /\ t # a /\ Incoming(Event("Announce", a, t, Me))

RemoteLike ==
  \E l \in Fresh(Likes), t \in (Contents \cup Announces) \cap cast :
    Author[l] # Me /\ Incoming(Event("Like", l, t, Me))

\* A Delete of a note, or the Undo of a boost or reaction.
RemoteDelete == \E u \in Used : Author[u] # Me /\ Incoming(Event("Delete", u, NoUrl, Me))

Own(e) == pending' = Append(pending, e) /\ emitted' = emitted + 1

\* Requests of the local user.  A request that is made before the events of
\* the one before it have been projected, or after an event was projected while
\* a compression ran, is remembered.
Request(c) ==
  /\ Ready /\ half = <<>> /\ emitted < MaxEvents /\ c # NoUrl
  /\ raced' = (raced \/ overlapped \/ pending # <<>>
                     \/ \E i \in (applied + 1)..Len(timeline) : Author[timeline[i].url] = Me)
  /\ UNCHANGED <<timeline, applied, objects, access, edges, home, tx, restarts, rebuiltTo, overlapped, cast>>

Reblog ==
  \E u \in DOMAIN objects, a \in Fresh(Announces) :
    LET c == Shown(u, Me)
    IN /\ Request(c) /\ Author[a] = Me /\ BoostOf(Me, c) = {}
       /\ Own(Event("Announce", a, c, Me)) /\ UNCHANGED half

Unreblog ==
  \E u \in DOMAIN objects : \E a \in BoostOf(Me, Shown(u, Me)) :
    Request(Shown(u, Me)) /\ Own(Event("Delete", a, NoUrl, Me)) /\ UNCHANGED half

\* A reaction with another emoji is undone first, in a publish of its own.
React ==
  \E u \in DOMAIN objects, l \in Fresh(Likes) :
    LET c == Shown(u, Me)
    IN /\ Request(c) /\ Author[l] = Me
       /\ \/ /\ OwnReaction(Me, c) = {}
             /\ Own(Event("Like", l, c, Me)) /\ UNCHANGED half
          \/ \E own \in OwnReaction(Me, c) :
               /\ EmojiOf[own] # EmojiOf[l]
               /\ Own(Event("Delete", own, NoUrl, Me))
               /\ half' = <<[url |-> l, target |-> c]>>

Reacted ==
  /\ half # <<>> /\ emitted < MaxEvents
  /\ Own(Event("Like", half[1].url, half[1].target, Me))
  /\ half' = <<>>
  /\ UNCHANGED <<timeline, applied, objects, access, edges, home, tx, restarts, rebuiltTo,
                 raced, overlapped, cast>>

Unreact ==
  \E u \in DOMAIN objects : \E l \in OwnReaction(Me, Shown(u, Me)) :
    Request(Shown(u, Me)) /\ Own(Event("Delete", l, NoUrl, Me)) /\ UNCHANGED half

\* own_statuses and own_timeline.
Forward ==
  /\ pending # <<>>
  /\ timeline' = Append(timeline, Head(pending))
  /\ pending' = Tail(pending)
  /\ UNCHANGED <<applied, objects, access, edges, home, tx, half, emitted,
                 restarts, rebuiltTo, raced, overlapped, cast>>

\* The process starts again: the schema is dropped and replayed.
Restart ==
  /\ restarts < MaxRestarts
  /\ restarts' = restarts + 1
  /\ applied' = 0 /\ objects' = <<>> /\ access' = {} /\ edges' = NoEdges /\ home' = {}
  /\ tx' = <<>> /\ half' = <<>>
  /\ rebuiltTo' = Len(timeline) /\ overlapped' = FALSE
  /\ UNCHANGED <<pending, timeline, emitted, raced, cast>>

-----------------------------------------------------------------------------
StatusesInit ==
  /\ pending = <<>> /\ timeline = <<>> /\ applied = 0
  /\ objects = <<>> /\ access = {} /\ edges = NoEdges /\ home = {}
  /\ tx = <<>> /\ half = <<>>
  /\ cast \in Casts
  /\ emitted = 0 /\ restarts = 0 /\ rebuiltTo = 0
  /\ raced = FALSE /\ overlapped = FALSE

StatusesNext ==
  \/ Apply \/ Compress \/ CompressCommits \/ Sweep \/ Forward \/ Restart
  \/ RemoteCreate \/ RemoteUpdate \/ RemoteAnnounce \/ RemoteLike \/ RemoteDelete
  \/ Reblog \/ Unreblog \/ React \/ Reacted \/ Unreact

-----------------------------------------------------------------------------
StatusesTypeOK ==
  /\ applied \in 0..Len(timeline)
  /\ DOMAIN objects \subseteq Urls
  /\ \A u \in DOMAIN objects : objects[u] \in [id : 1..MaxEvents, target : Urls \cup {NoUrl},
                                               vis : {"public", "direct"}]
  /\ access \subseteq Urls \X Users /\ home \subseteq Users \X Urls
  /\ edges.boosts \subseteq Announces \X Contents
  /\ edges.reactions \subseteq Likes \X Contents
  /\ DOMAIN edges.nBoosts \subseteq Contents
  /\ \A k \in DOMAIN edges.nReactions : k[1] \in Contents

\* Whatever was stored, deleted, compressed and swept, in whatever order: the
\* boosts and reactions of every note that is there, and their counters, are
\* those that the objects amount to, one per actor (and emoji), the oldest.
\* Except after an event was projected while a compression ran: the counter
\* may then be the one that was read first and written last.
CountsAreTrue == ~overlapped =>
  \A c \in Contents \cap DOMAIN objects :
    LET boosts == Valid(objects, "announce", c)
        likes == Valid(objects, "like", c)
        mine(S) == \E v \in S : Author[v] = Me
    IN /\ BoostedBy(c) = boosts /\ ReactedBy(c) = likes
       /\ BoostStats(c, Me) = [n |-> Cardinality(boosts), mine |-> mine(boosts)]
       /\ ReactionBreakdown(c, Me) =
            {LET same == {v \in likes : EmojiOf[v] = EmojiOf[l]}
             IN [emoji |-> EmojiOf[l], n |-> Cardinality(same), mine |-> mine(same)] : l \in likes}

\* The events that stored an object since it was last deleted, and the table as
\* it is without compression: each object as the first of them stored it.
StoredBy(u) ==
  {i \in 1..applied : /\ timeline[i].url = u /\ timeline[i].verb # "Delete"
                     /\ \A j \in (i + 1)..applied : ~(timeline[j].url = u /\ timeline[j].verb = "Delete")}
Plain ==
  [u \in {v \in cast : StoredBy(v) # {}} |->
     LET first == timeline[Min(StoredBy(u))] IN [id |-> first.id, target |-> first.target]]

\* The urls in T that are reached from u along the targets of T.
Reached(T, u) ==
  {v \in DOMAIN T : \A S \in SUBSET DOMAIN T :
     (u \in S /\ \A w \in S : T[w].target \in DOMAIN T => T[w].target \in S) => v \in S}

\* Compression changes how a boost gets to its note and nothing else: the
\* same objects are there as without it, whatever note a boost led to it still
\* leads to, it leads to no note that it was never made to lead to, and once
\* nothing is left to compress it leads there at once.
CompressionKeepsContent ==
  LET plain == Plain
  IN /\ DOMAIN objects = DOMAIN plain
     /\ \A u \in DOMAIN objects :
          /\ objects[u].id = plain[u].id
          /\ Reached(plain, u) \cap Contents \subseteq Reached(objects, u)
          /\ Picks(objects) = {} => Reached(objects, u) \cap Contents \subseteq {Content(objects, u)}

\* Everyone whom a note was delivered to finds it on the home timeline and on
\* the page of its author until it is deleted, and what he finds there, a note
\* or a boost of it, he can open.
RecipientsCanRead ==
  \A i \in 1..applied :
    LET e == timeline[i]
    IN (/\ e.verb = "Create"
        /\ \A j \in (i + 1)..applied : ~(timeline[j].verb = "Delete" /\ timeline[j].url = e.url))
       => /\ e.url \in Home(e.user) \cap FetchByActor(Author[e.url], e.user)
          /\ \A u \in Home(e.user) : /\ Shown(u, e.user) = Content(objects, u)
                                     /\ u \in RowsForUrls({u}, e.user)

\* One who waits until a request shows before making the next has at most
\* one boost and one reaction of a note, and an undone one is undone; if no
\* event was projected while a compression ran, which may drop his boost from
\* the edges that a request reads.
OneOfEach ==
  (~raced /\ applied = Len(timeline)) =>
    \A c \in Contents : \A k \in {"announce", "like"} :
      Cardinality({u \in DOMAIN objects : Kind(u) = k /\ Author[u] = Me /\ Content(objects, u) = c}) <= 1

\* The compressor comes to rest: no two compressions undo each other.
CompressionSettles == <>[](tx = <<>> /\ Picks(objects) = {})
=============================================================================
