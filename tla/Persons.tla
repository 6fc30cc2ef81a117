--------------------------------- MODULE Persons ---------------------------------
(***************************************************************************)
(* From a user to the activities that announce the person: the tickers of  *)
(* the topic "users", which close an interval of changes, user_person,     *)
(* which keeps a row of the user and publishes one person event for what   *)
(* an interval has changed, and person_activities, which makes an activity *)
(* of each.  One user; her profile is numbered by the event it is of.      *)
(***************************************************************************)
EXTENDS Naturals, Sequences, SequencesExt, FiniteSets

CONSTANTS Tickers,         \* processes that run a ticker
          MaxUserEvents,   \* bound: events and ticks in the topic
          MaxUserStarts    \* bound: restarts of the components

Verbs == {"created", "edited", "deleted"}

VARIABLES users,      \* the topic: [type, after], of a tick the one before
          observed,   \* ticker -> position
          upos,       \* user_person: position
          row,        \* <<>>, or its row of the user
          lastTick,   \* last_tick_seq
          persons,    \* the topic "person": [type, id, version]
          apos,       \* person_activities: events it has published
          ustarts

uvars == <<users, observed, upos, row, lastTick, persons, apos, ustarts>>

-----------------------------------------------------------------------------
LastOf(hits) == IF hits = {} THEN 0 ELSE CHOOSE i \in hits : \A j \in hits : j <= i
IsTick(e) == e.type = "tick"
IsChange(e) == e.type # "tick"

HeadOf(t) == LastOf({i \in 1..observed[t] : IsChange(users[i])})
TickOf(t) == LastOf({i \in 1..observed[t] : IsTick(users[i])})

Observe(t) ==
  /\ observed[t] < Len(users)
  /\ observed' = [observed EXCEPT ![t] = @ + 1]
  /\ UNCHANGED <<users, upos, row, lastTick, persons, apos, ustarts>>

TickId(t) == TickOf(t)

\* emit_tick_if_pending: a second tick after the same tick is not published.
EmitTick(t) ==
  /\ HeadOf(t) > TickOf(t)
  /\ \A i \in DOMAIN users : IsTick(users[i]) => users[i].after # TickId(t)
  /\ Len(users) < MaxUserEvents
  /\ users' = Append(users, [type |-> "tick", after |-> TickId(t)])
  /\ UNCHANGED <<observed, upos, row, lastTick, persons, apos, ustarts>>

-----------------------------------------------------------------------------
\* The importer, and whoever deletes a user: she is there or not.
Exists(s) == \E i \in DOMAIN s : s[i].type = "created" /\ \A j \in i..Len(s) : s[j].type # "deleted"

Change ==
  /\ Len(users) < MaxUserEvents - 1      \* leaves room for the tick
  /\ \E v \in Verbs :
        /\ (v = "created") = ~Exists(users)
        /\ users' = Append(users, [type |-> v, after |-> 0])
  /\ UNCHANGED <<observed, upos, row, lastTick, persons, apos, ustarts>>

-----------------------------------------------------------------------------
(* user_person.                                                             *)

UpsertCreated(seq) == <<[created |-> seq, changed |-> seq, deleted |-> 0, version |-> seq]>>

MergeChange(seq) == IF row = <<>> THEN row ELSE <<[row[1] EXCEPT !.version = seq, !.changed = seq]>>

MMarkDeleted(seq) == IF row = <<>> THEN row ELSE <<[row[1] EXCEPT !.deleted = seq]>>  \* mutant: no change

MarkDeleted(seq) == IF row = <<>> THEN row ELSE <<[row[1] EXCEPT !.deleted = seq, !.changed = seq]>>

Edit(type, seq) ==
  IF type = "created" THEN UpsertCreated(seq)
  ELSE IF type = "edited" THEN MergeChange(seq) ELSE MarkDeleted(seq)

\* Whether the row has changed since the last tick.
PendingSince == row # <<>> /\ row[1].changed > lastTick

\* What is published of it.
PersonEvent(r) ==
  IF r.deleted # 0
  THEN IF r.created > lastTick THEN <<>> ELSE <<[type |-> "deleted", id |-> r.changed, version |-> 0]>>
  ELSE <<[type |-> IF r.created > lastTick THEN "created" ELSE "updated",
          id |-> r.changed, version |-> r.version]>>

Tick(seq) ==
  LET event == IF PendingSince THEN PersonEvent(row[1]) ELSE <<>>
      known == event # <<>> /\ \E i \in DOMAIN persons : persons[i].id = event[1].id
  IN /\ persons' = IF known THEN persons ELSE persons \o event
     /\ row' = IF PendingSince /\ row[1].deleted # 0 THEN <<>> ELSE row
     /\ lastTick' = seq

HandleUser ==
  /\ upos < Len(users)
  /\ upos' = upos + 1
  /\ IF users[upos'].type = "tick" THEN Tick(upos')
     ELSE row' = Edit(users[upos'].type, upos') /\ UNCHANGED <<persons, lastTick>>
  /\ UNCHANGED <<users, observed, apos, ustarts>>

\* An end of the process between two statements of a tick is this as well: the
\* events a tick has published have their ids, and the rest is built anew.
RestartPersons ==
  /\ ustarts < MaxUserStarts /\ ustarts' = ustarts + 1
  /\ upos' = 0 /\ row' = <<>> /\ lastTick' = 0 /\ observed' = [t \in Tickers |-> 0]
  /\ UNCHANGED <<users, persons, apos>>

-----------------------------------------------------------------------------
(* person_activities: one activity of each event, under the id of its place. *)

ActivityOf(e) == [type |-> IF e.type = "created" THEN "Create" ELSE IF e.type = "updated" THEN "Update" ELSE "Delete",
                  version |-> e.version]

Announce ==
  /\ apos < Len(persons)
  /\ apos' = apos + 1
  /\ UNCHANGED <<users, observed, upos, row, lastTick, persons, ustarts>>

Announced == [i \in 1..apos |-> ActivityOf(persons[i])]

PersonsInit ==
  /\ users = <<>> /\ observed = [t \in Tickers |-> 0] /\ upos = 0 /\ row = <<>> /\ lastTick = 0
  /\ persons = <<>> /\ apos = 0 /\ ustarts = 0

PersonsNext ==
  \/ \E t \in Tickers : Observe(t) \/ EmitTick(t)
  \/ Change \/ HandleUser \/ RestartPersons \/ Announce

PersonsFairness ==
  /\ \A t \in Tickers : WF_uvars(Observe(t)) /\ WF_uvars(EmitTick(t))
  /\ WF_uvars(HandleUser) /\ WF_uvars(Announce)

-----------------------------------------------------------------------------
Intervals == {p \in (0..Len(users)) \X (1..Len(users)) :
                /\ p[1] < p[2] /\ IsTick(users[p[2]]) /\ (p[1] = 0 \/ IsTick(users[p[1]]))
                /\ \A k \in (p[1] + 1)..(p[2] - 1) : IsChange(users[k])}

\* A user who was deleted, created anew and deleted again between two ticks.
GoneTwice == \E p \in Intervals : \E a, b \in (p[1] + 1)..(p[2] - 1) :
                a < b /\ users[a].type = "deleted" /\ users[b].type = "deleted"

\* Once a tick has closed the last interval and everything is handled, what was
\* announced last of a person is what her user is: her profile as it is now, or
\* that she is gone.
AnnouncedAsTheyAre ==
  (/\ upos = Len(users) /\ apos = Len(persons) /\ users # <<>> /\ IsTick(Last(users)))
  => IF Exists(users)
     THEN Announced # <<>> /\ Last(Announced).version = LastOf({i \in DOMAIN users : IsChange(users[i])})
     ELSE Announced = <<>> \/ Last(Announced).type = "Delete" \/ GoneTwice

\* Whatever tickers lag behind or start again: in the end every change lies in
\* an interval that a tick has closed.
EveryIntervalCloses == <>[](users = <<>> \/ (IsTick(Last(users)) /\ upos = Len(users)))
=============================================================================
