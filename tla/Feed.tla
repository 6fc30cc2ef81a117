-------------------------------- MODULE Feed --------------------------------
(***************************************************************************)
(* What a topic promises the projection that reads it: the reader looks at *)
(* the rows visible above its position, and is given the rows of one look  *)
(* in ascending order. A row that becomes visible below the position stays *)
(* unread until the reader starts again from the first row.                *)
(***************************************************************************)
EXTENDS Naturals

CONSTANT RowIds

VARIABLES visible,    \* rows of the topic
          todo,       \* rows of the last look that were not given yet
          position,   \* last row given
          given       \* rows given since the start

feedVars == <<visible, todo, position, given>>

FeedInit == visible = {} /\ todo = {} /\ position = 0 /\ given = {}

Append == /\ \E i \in RowIds \ visible : visible' = visible \cup {i}
          /\ UNCHANGED <<todo, position, given>>

Look == /\ todo' = {i \in visible : i > position}
        /\ UNCHANGED <<visible, position, given>>

Give == \E r \in todo :
           /\ \A s \in todo : r <= s
           /\ todo' = todo \ {r} /\ position' = r /\ given' = given \cup {r}
           /\ UNCHANGED visible

\* A failed look, or a new subscription from the same position.
Drop == todo' = {} /\ UNCHANGED <<visible, position, given>>

StartAgain == /\ todo' = {} /\ position' = 0 /\ given' = {}
              /\ UNCHANGED visible

FeedNext == Append \/ Look \/ Give \/ Drop \/ StartAgain
FeedSpec == FeedInit /\ [][FeedNext]_feedVars
=============================================================================
