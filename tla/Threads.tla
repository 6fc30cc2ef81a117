-------------------------------- MODULE Threads --------------------------------
(***************************************************************************)
(* The threads of the client API: how a thread or a discussion is found in *)
(* as_objects, from a reply upwards and from a root downwards, and how the *)
(* parts that the viewer may not read are collapsed to placeholders.       *)
(*                                                                         *)
(* Notes are numbered by the time at which they were written.  They arrive *)
(* in any order, and go.                                                   *)
(***************************************************************************)
EXTENDS Naturals, FiniteSets

CONSTANTS Notes,     \* numbers
          Authors,
          MaxDepth   \* max_depth of the queries

NoNote == 0

ASSUME ThreadsAssumption == Notes \subseteq Nat \ {NoNote} /\ MaxDepth \in Nat \ {0}

VARIABLES inReplyTo,   \* note -> the note it replies to, or 0
          author,      \* note -> actor
          visible,     \* the notes that the viewer may read
          stored       \* the notes in as_objects

tvars == <<inReplyTo, author, visible, stored>>

-----------------------------------------------------------------------------
\* One step of the queries; a thread, unlike a discussion, ends at another
\* author.
Up(n, breakOnAuthor) ==
  IF /\ n \in stored /\ inReplyTo[n] \in stored
     /\ breakOnAuthor => author[inReplyTo[n]] = author[n]
  THEN inReplyTo[n] ELSE NoNote

\* The notes i steps above n.
Above(n, breakOnAuthor) ==
  LET at[i \in 0..MaxDepth] == IF i = 0 THEN n
                               ELSE IF at[i - 1] = NoNote THEN NoNote
                               ELSE Up(at[i - 1], breakOnAuthor)
  IN at

\* ancestor_chain counts the note itself.
AncestorChain(n, breakOnAuthor) ==
  {Above(n, breakOnAuthor)[i] : i \in 0..(MaxDepth - 1)} \ {NoNote}

\* find_root: the one that is farthest away.
FindRoot(n, breakOnAuthor) ==
  CHOOSE a \in AncestorChain(n, breakOnAuthor) : \A b \in AncestorChain(n, breakOnAuthor) : a <= b

MDescendantsOf(root, breakOnAuthor) ==  \* mutant: the deepest level is left out
  {n \in stored : \E i \in 0..(MaxDepth - 2) : Above(n, breakOnAuthor)[i] = root}

\* descendants_of does not count the root.
DescendantsOf(root, breakOnAuthor) ==
  {n \in stored : \E i \in 0..MaxDepth : Above(n, breakOnAuthor)[i] = root}

ThreadRoot(n) == FindRoot(n, TRUE)
ThreadOf(root) == DescendantsOf(root, TRUE)

-----------------------------------------------------------------------------
(* hidden.                                                                  *)

\* The topmost hidden note of the run that n belongs to.
TopOfRun(rows, n) ==
  LET top[m \in Notes] == IF inReplyTo[m] \in rows \ visible THEN top[inReplyTo[m]] ELSE m
  IN top[n]

HiddenParent(rows, n) == inReplyTo[n] \in rows \ visible

\* What a request returns: notes and placeholders, each with what it is shown
\* as a reply to.
Collapse(rows) ==
  LET shown == {<<n, IF HiddenParent(rows, n) THEN TopOfRun(rows, inReplyTo[n]) ELSE inReplyTo[n]>> :
                  n \in rows \cap visible}
      tops == {TopOfRun(rows, inReplyTo[n]) : n \in {m \in rows \cap visible : HiddenParent(rows, m)}}
  IN shown \cup {<<t, IF inReplyTo[t] \in rows THEN inReplyTo[t] ELSE NoNote>> : t \in tops}

\* The parts of a block of the timeline, and the two halves of a context.
Block(n) == Collapse(ThreadOf(ThreadRoot(n)))
Ancestors(n) == {p \in Collapse(AncestorChain(n, FALSE)) : p[1] # n}
Descendants(n) == {p \in Collapse(DescendantsOf(n, FALSE)) : p[1] # n}

-----------------------------------------------------------------------------
Stored == \E n \in Notes \ stored : stored' = stored \cup {n} /\ UNCHANGED <<inReplyTo, author, visible>>
Vanished == \E n \in stored : stored' = stored \ {n} /\ UNCHANGED <<inReplyTo, author, visible>>

ThreadsInit ==
  /\ inReplyTo \in [Notes -> Notes \cup {NoNote}]
  /\ \A n \in Notes : inReplyTo[n] < n
  /\ author \in [Notes -> Authors]
  /\ visible \in SUBSET Notes
  /\ stored = {}

ThreadsNext == Stored \/ Vanished

-----------------------------------------------------------------------------
ThreadsTypeOK == stored \subseteq Notes

\* The two queries agree: the way up from a note ends at a root whose thread,
\* found downwards, contains the note, although the one counts the note itself
\* as a level and the other does not count the root.  And while no way up is
\* cut off by max_depth, all notes of a thread lead to the same root.
ThreadsAgree ==
  \A n \in stored :
    /\ n \in ThreadOf(ThreadRoot(n))
    /\ (\A m \in stored : Above(m, TRUE)[MaxDepth] = NoNote) =>
         \A m \in ThreadOf(ThreadRoot(n)) : ThreadRoot(m) = ThreadRoot(n)

NearestVisible(rows, n) ==
  LET near[m \in Notes] == IF inReplyTo[m] \notin rows THEN NoNote
                           ELSE IF inReplyTo[m] \in visible THEN inReplyTo[m]
                           ELSE near[inReplyTo[m]]
  IN near[n]

\* The hidden notes that a note is below without a visible one in between.
HiddenAbove(rows, n) ==
  LET run[m \in Notes] == IF inReplyTo[m] \in rows \ visible
                          THEN {inReplyTo[m]} \cup run[inReplyTo[m]] ELSE {}
  IN run[n]

\* Collapsing keeps the shape of the discussion: of what the viewer may read
\* nothing is lost, a direct reply stays one, below hidden notes there is one
\* placeholder and above it the nearest note he may read, two replies are below
\* the same placeholder if the hidden notes above them are connected, and no
\* placeholder is without a reply.
KeepsShape(rows, result) ==
  LET to(n) == (CHOOSE p \in result : p[1] = n)[2]
      hidden == {p[1] : p \in result} \ visible
  IN /\ {p[1] : p \in result} \cap visible = rows \cap visible
     /\ Cardinality({p[1] : p \in result}) = Cardinality(result)
     /\ \A n \in rows \cap visible :
          IF to(n) \in hidden
          THEN NearestVisible(rows, n) = to(to(n)) /\ inReplyTo[n] \in rows \ visible
          ELSE to(n) = inReplyTo[n] /\ to(n) \notin rows \ visible
     /\ \A m, n \in {p[1] : p \in {q \in result : q[2] \in hidden}} :
          to(m) = to(n) <=> HiddenAbove(rows, m) \cap HiddenAbove(rows, n) # {}
     /\ \A h \in hidden : /\ \E p \in result : p[2] = h
                          /\ to(h) \notin rows \ visible

HiddenKeepsShape ==
  \A n \in stored :
    /\ KeepsShape(ThreadOf(ThreadRoot(n)), Block(n))
    /\ n \in visible =>
         /\ KeepsShape(AncestorChain(n, FALSE), Collapse(AncestorChain(n, FALSE)))
         /\ KeepsShape(DescendantsOf(n, FALSE), Collapse(DescendantsOf(n, FALSE)))
=============================================================================
