-------------------------------- MODULE Projection --------------------------------
(***************************************************************************)
(* Two projections of one topic, as build_projection makes them.  At the   *)
(* start a projection reads the topic up to where its end was then, and    *)
(* goes on from the last event that was dispatched; its table is not read  *)
(* before that.  An event of a topic with a sanitizer ("accounts",         *)
(* "known_accounts") is sanitized before it is stored, and where that      *)
(* changes it, what is left is published as a correction, under a          *)
(* message_id of the topic and the event, so that one is enough for all    *)
(* projections and all starts.                                             *)
(***************************************************************************)
EXTENDS Naturals, Sequences, FiniteSets, SequencesExt

CONSTANTS Things,          \* ids of objects
          MaxOriginals,    \* bound: events that are no corrections
          MaxHealStarts    \* bound: restarts of either projection

Projections == {"one", "other"}

VARIABLES record,          \* the topic: [verb, obj, nr, clean, of]; of is what it corrects, or 0
          at,              \* projection -> events dispatched
          handling,        \* projection -> "idle", or "healed": the next one is, and not stored yet
          live,            \* projection -> it has been rebuilt
          end,             \* projection -> the end of the topic when it started
          tableOf,         \* projection -> object -> [nr, clean] of its table
          healStarts

hvars == <<record, at, handling, live, end, tableOf, healStarts>>

Absent == [nr |-> 0, clean |-> TRUE]
Originals == {i \in DOMAIN record : record[i].of = 0}
Corrections(i) == {k \in DOMAIN record : record[k].of = i}
IsThere(obj) ==
  \E i \in Originals : /\ record[i].obj = obj /\ record[i].verb # "deleted"
                       /\ \A j \in Originals : record[j].obj = obj => j <= i

-----------------------------------------------------------------------------
\* A translator publishes an event; older ones may be from a version of the
\* program that left in what this one does not.
PublishOriginal(verb, obj, clean) ==
  /\ Cardinality(Originals) < MaxOriginals
  /\ (verb = "created") = ~IsThere(obj)
  /\ record' = Append(record, [verb |-> verb, obj |-> obj, clean |-> clean, of |-> 0,
                               nr |-> IF verb = "deleted" THEN 0 ELSE Cardinality(Originals) + 1])
  /\ UNCHANGED <<at, handling, live, end, tableOf, healStarts>>

Correction(i) ==
  [record[i] EXCEPT !.clean = TRUE, !.of = i, !.verb = IF @ = "created" THEN "updated" ELSE @]

MHeal(p) ==                 \* mutant: every projection has a message_id of its own
  /\ handling[p] = "idle" /\ at[p] < Len(record) /\ ~record[at[p] + 1].clean
  /\ handling' = [handling EXCEPT ![p] = "healed"]
  /\ record' = Append(record, Correction(at[p] + 1))
  /\ UNCHANGED <<at, live, end, tableOf, healStarts>>

\* _dispatch of an event that is not clean begins with _heal.
Heal(p) ==
  /\ handling[p] = "idle" /\ at[p] < Len(record) /\ ~record[at[p] + 1].clean
  /\ handling' = [handling EXCEPT ![p] = "healed"]
  /\ record' = IF Corrections(at[p] + 1) # {} THEN record ELSE Append(record, Correction(at[p] + 1))
  /\ UNCHANGED <<at, live, end, tableOf, healStarts>>

\* The handler, an upsert or a deletion.
Stored(table, e) ==
  [table EXCEPT ![e.obj] = IF e.verb = "deleted" THEN Absent ELSE [nr |-> e.nr, clean |-> TRUE]]
CanStore(p) == at[p] < Len(record) /\ (record[at[p] + 1].clean \/ handling[p] = "healed")
Store(p) ==
  /\ CanStore(p) /\ handling' = [handling EXCEPT ![p] = "idle"]
  /\ at' = [at EXCEPT ![p] = @ + 1]
  /\ tableOf' = [tableOf EXCEPT ![p] = Stored(@, record[at'[p]])]
  /\ UNCHANGED <<record, live, end, healStarts>>

\* rebuild ends: the drain is cancelled where it is.  An event that is under
\* way is dispatched again by handle_events, whether it was stored or not.
RebuildFinished(p) ==
  /\ ~live[p] /\ at[p] >= end[p] /\ live' = [live EXCEPT ![p] = TRUE]
  /\ handling' = [handling EXCEPT ![p] = "idle"]
  /\ tableOf' \in {tableOf} \cup (IF ~CanStore(p) THEN {}
                            ELSE {[tableOf EXCEPT ![p] = Stored(@, record[at[p] + 1])]})
  /\ UNCHANGED <<record, at, end, healStarts>>

\* wait_for_rebuild: a request waits until then.
Readable(p) == live[p]

\* There are no snapshots: everything is read again.
RestartProjection(p) ==
  /\ healStarts < MaxHealStarts /\ healStarts' = healStarts + 1
  /\ at' = [at EXCEPT ![p] = 0] /\ handling' = [handling EXCEPT ![p] = "idle"]
  /\ live' = [live EXCEPT ![p] = FALSE] /\ end' = [end EXCEPT ![p] = Len(record)]
  /\ tableOf' = [tableOf EXCEPT ![p] = [o \in Things |-> Absent]]
  /\ UNCHANGED record

ProjectionsInit ==
  /\ record = <<>> /\ at = [p \in Projections |-> 0] /\ handling = [p \in Projections |-> "idle"]
  /\ live = [p \in Projections |-> TRUE] /\ end = [p \in Projections |-> 0]
  /\ tableOf = [p \in Projections |-> [o \in Things |-> Absent]] /\ healStarts = 0

ProjectionsNext ==
  \/ \E verb \in {"created", "updated", "deleted"}, o \in Things, clean \in BOOLEAN :
       (verb = "deleted" => clean) /\ PublishOriginal(verb, o, clean)
  \/ \E p \in Projections : \/ Heal(p) \/ Store(p)
                            \/ RebuildFinished(p) \/ RestartProjection(p)

-----------------------------------------------------------------------------
\* Something newer came between an event and its correction.
Overtaken(obj) ==
  \E i, j \in Originals : /\ i < j /\ record[i].obj = obj /\ record[j].obj = obj
                          /\ \E k \in Corrections(i) : j < k

\* An event that is not clean is corrected once, whoever sees it, no correction is
\* corrected, and a table that is read has what was published before the
\* start.  When the projections have caught up, their tables agree, and they are
\* what was published last, unless a correction has overtaken it.
ProjectionsAgree ==
  /\ \A i \in Originals : Cardinality(Corrections(i)) <= 1
  /\ \A i \in DOMAIN record \ Originals : Corrections(i) = {}
  /\ \A p \in Projections :
       /\ \A i \in 1..at[p] : record[i].clean \/ Corrections(i) # {}
       /\ Readable(p) => at[p] >= end[p]
  /\ (\A p \in Projections : Readable(p) /\ at[p] = Len(record)) =>
       \A o \in Things :
         /\ \A p, q \in Projections : tableOf[p][o] = tableOf[q][o]
         /\ ~Overtaken(o) => \A p \in Projections :
              tableOf[p][o].nr = IF \E i \in Originals : record[i].obj = o
                              THEN record[CHOOSE i \in Originals :
                                            /\ record[i].obj = o
                                            /\ \A j \in Originals : record[j].obj = o => j <= i].nr
                              ELSE 0
=============================================================================
