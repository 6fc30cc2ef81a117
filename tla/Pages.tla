--------------------------------- MODULE Pages ---------------------------------
(***************************************************************************)
(* Walking through a list of the API page by page: each answer has         *)
(* in its header Link the cursor for the next one, the last row that it    *)
(* returned.  The rows change between the pages: new ones appear on top,   *)
(* an own activity, which has its id before it reaches the timeline,       *)
(* further down, and rows are deleted.                                     *)
(*                                                                         *)
(* A timeline of blocks shows each pair of a thread and who boosted it     *)
(* once, at its newest row; the other lists (bookmarks, who boosted, who   *)
(* reacted) drop rows that they have nothing to show for.  The collections *)
(* of reactions of the server API leave such rows (those without an emoji, *)
(* in one of the two) out of the query, and end with a page that is short. *)
(***************************************************************************)
EXTENDS Naturals, FiniteSets

CONSTANTS Ids,         \* cursors, numbers
          Limit,       \* rows or blocks on a page
          MaxChanges   \* bound: changes of the list during a walk

\* Rows are numbered in the order of their ids.
ASSUME PagesAssumption == IsFiniteSet(Ids) /\ Ids = 1..Cardinality(Ids) /\ Limit \in Nat \ {0}

VARIABLES mode,      \* "blocks", "rows" or "reactions"
          thing,     \* id -> what the row shows: a pair of root and booster, a
                     \* status or an account, named by its oldest row
          nothing,   \* the things that there is nothing to show for
          table,     \* the ids in the list
          cursor,    \* max_id of the next request
          walked,    \* the ids that the pages so far returned
          walking,
          cutShort,  \* a page had rows, and nothing to show for any of them
          touched,   \* the things whose rows changed during the walk
          changes

pvars == <<mode, thing, nothing, table, cursor, walked, walking, cutShort, touched, changes>>

-----------------------------------------------------------------------------
\* ORDER BY ... DESC LIMIT.
Newest(rows, limit) == {i \in rows : Cardinality({j \in rows : j > i}) < limit}

\* The rows of which there is something to show.
WithContent(rows) == {i \in rows : thing[i] \notin nothing}

MTimelineBlocks(maxId, limit) ==       \* mutant: rows above the cursor are skipped
  Newest({i \in WithContent(table) : i < maxId /\ \A j \in table : i < j /\ j < maxId => thing[j] # thing[i]}, limit)

\* timeline_blocks: a page, as the ids of its blocks.  Rows above the cursor
\* are looked at, for what they show has been shown.
TimelineBlocks(maxId, limit) ==
  Newest({i \in WithContent(table) : i < maxId /\ \A j \in table : i < j => thing[j] # thing[i]}, limit)

\* The rows of a page of the other lists.
Rows(maxId, limit) == Newest({i \in table : i < maxId}, limit)

\* The next page begins below the last row of this one.
LastOf(page) == CHOOSE i \in page : \A j \in page : i <= j

Turn(page) ==
  /\ walked' = walked \cup page
  /\ IF page = {} THEN walking' = FALSE /\ UNCHANGED cursor
     ELSE cursor' = LastOf(page) /\ UNCHANGED walking
  /\ UNCHANGED <<mode, thing, nothing, table, touched, changes>>

PageOfBlocks ==
  /\ walking /\ mode = "blocks"
  /\ Turn(TimelineBlocks(cursor, Limit)) /\ UNCHANGED cutShort

PageOfRows ==
  /\ walking /\ mode = "rows"
  /\ LET rows == Rows(cursor, Limit)
     IN Turn(WithContent(rows)) /\ cutShort' = (rows # {} /\ WithContent(rows) = {})

ReactionRows(before, limit) == Newest({i \in WithContent(table) : i < before}, limit)

\* _page of the reactions, and the address of the next one, _next_url.
PageOfReactions ==
  /\ walking /\ mode = "reactions"
  /\ LET page == ReactionRows(cursor, Limit)
     IN /\ walked' = walked \cup page
        /\ IF Cardinality(page) = Limit THEN cursor' = LastOf(page) /\ UNCHANGED walking
           ELSE walking' = FALSE /\ UNCHANGED cursor
  /\ UNCHANGED <<mode, thing, nothing, table, touched, changes, cutShort>>

Change(id) ==
  /\ walking /\ changes < MaxChanges
  /\ changes' = changes + 1
  /\ touched' = touched \cup {thing[id]}
  /\ UNCHANGED <<mode, thing, nothing, cursor, walked, walking, cutShort>>

Appear ==
  mode # "reactions" /\ \E id \in Ids \ table : Change(id) /\ table' = table \cup {id}
Vanish ==
  mode # "reactions" /\ \E id \in table : Change(id) /\ table' = table \ {id}

\* The projection of the reactions, _on_react and _on_delete.
Recorded ==
  mode = "reactions" /\ \E id \in Ids \ table : Change(id) /\ table' = table \cup {id}
Forgotten ==
  mode = "reactions" /\ \E id \in table : Change(id) /\ table' = table \ {id}

\* A bookmark, a boost or a reaction has a row of its own.
PagesInit ==
  /\ mode \in {"blocks", "rows", "reactions"}
  /\ thing \in [Ids -> Ids]
  /\ \A i \in Ids : thing[i] <= i /\ thing[thing[i]] = thing[i]
  /\ mode # "blocks" => \A i \in Ids : thing[i] = i
  /\ nothing \in SUBSET {thing[i] : i \in Ids}
  /\ table \in SUBSET Ids
  /\ cursor = 1 + Cardinality(Ids)
  /\ walked = {} /\ walking = TRUE /\ cutShort = FALSE /\ touched = {} /\ changes = 0

PagesNext == PageOfBlocks \/ PageOfRows \/ PageOfReactions \/ Appear \/ Vanish \/ Recorded \/ Forgotten

-----------------------------------------------------------------------------
PagesTypeOK ==
  /\ table \subseteq Ids /\ walked \subseteq Ids /\ cursor \in 1..(1 + Cardinality(Ids))

\* Whatever else appears and vanishes during a walk, a thing whose own rows do
\* not change is returned at most once, and by a walk that ended exactly once
\* if there is something to show for it.  Except that a list ends early after a
\* page with nothing to show, which has no link.
WalkMissesNothing ==
  \A t \in {thing[i] : i \in Ids} \ touched :
    LET times == Cardinality({id \in walked : thing[id] = t})
        there == \E id \in table : thing[id] = t
    IN /\ times <= 1
       /\ (~walking /\ ~cutShort) => times = (IF there /\ t \notin nothing THEN 1 ELSE 0)
=============================================================================
