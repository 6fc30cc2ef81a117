------------------------------ MODULE ActorExtractor ------------------------------
(***************************************************************************)
(* actor_extractor asks for the actors that activities name and nobody     *)
(* knows.  It reads two topics, "incoming_activities" and "raw_activities",*)
(* from their first message after every start.  The URLs in an activity    *)
(* that its table lacks are published on "unknown_actors" in one           *)
(* transaction, then the accounts in another, each name under an id of the *)
(* topic, the name and the position of the activity.  The table follows    *)
(* the topics "remote_actors" and "person".                                *)
(***************************************************************************)
EXTENDS Naturals, Sequences, FiniteSets, SequencesExt

CONSTANTS ActorUrls, StrangerAccts, \* names that are not local
          Sources,            \* the two topics
          MaxActivities,      \* bound: activities
          MaxExtractorStarts

VARIABLES activities,         \* topic -> sequence of the sets of names
          epos,               \* topic -> position
          reporting,          \* topic -> [step, names]: how far the activity at hand is reported
          unknown,            \* the topic "unknown_actors": [name, source, at, id]
          acquainted,         \* names that the topics of actors hold
          table,              \* those of them that are in the table
          estarts

evars == <<activities, epos, reporting, unknown, acquainted, table, estarts>>

Strangers == ActorUrls \cup StrangerAccts

IdOf(source, name, position) == <<source, name, position>>

Total == Cardinality({e \in Sources \X (1..MaxActivities) : e[2] <= Len(activities[e[1]])})

Receive(source, names) ==
  /\ Total < MaxActivities
  /\ activities' = [activities EXCEPT ![source] = Append(@, names)]
  /\ UNCHANGED <<epos, reporting, unknown, acquainted, table, estarts>>

\* unknown_urls and unknown_accts.
UnknownOf(names) == names \ table

Steps == <<"urls", "publish urls", "accts", "publish accts">>
Rests == [step |-> 1, names |-> {}]
Step(source) == Steps[reporting[source].step]

LookUpUrls(source) ==
  /\ Step(source) = "urls" /\ epos[source] < Len(activities[source])
  /\ epos' = [epos EXCEPT ![source] = @ + 1]
  /\ reporting' = [reporting EXCEPT ![source] =
                     [step |-> 2, names |-> UnknownOf(activities[source][epos'[source]] \cap ActorUrls)]]
  /\ UNCHANGED <<activities, unknown, acquainted, table, estarts>>

LookUpAccts(source) ==
  /\ Step(source) = "accts"
  /\ reporting' = [reporting EXCEPT ![source] =
                     [step |-> 4, names |-> UnknownOf(activities[source][epos[source]] \cap StrangerAccts)]]
  /\ UNCHANGED <<activities, epos, unknown, acquainted, table, estarts>>

\* One transaction; a name whose id is there is skipped.
PublishNames(source) ==
  LET IsNew(name) == \A i \in DOMAIN unknown : unknown[i].id # IdOf(source, name, epos[source])
      Event(name) == [name |-> name, source |-> source, at |-> epos[source], id |-> IdOf(source, name, epos[source])]
      new == SetToSeq({name \in reporting[source].names : IsNew(name)})
  IN /\ Step(source) \in {"publish urls", "publish accts"}
     /\ unknown' = unknown \o [i \in DOMAIN new |-> Event(new[i])]
     /\ reporting' = [reporting EXCEPT ![source] = [step |-> IF Step(source) = "publish urls" THEN 3 ELSE 1,
                                                  names |-> {}]]
     /\ UNCHANGED <<activities, epos, acquainted, table, estarts>>

\* The account_resolver finds what was asked for, or an actor becomes known otherwise.
Discovered(name) ==
  /\ acquainted' = acquainted \cup {name} /\ name \notin acquainted
  /\ UNCHANGED <<activities, epos, reporting, unknown, table, estarts>>

ProjectActor(name) ==
  /\ name \in acquainted \ table /\ table' = table \cup {name}
  /\ UNCHANGED <<activities, epos, reporting, unknown, acquainted, estarts>>

RestartExtractor ==
  /\ estarts < MaxExtractorStarts /\ estarts' = estarts + 1
  /\ table' = acquainted
  /\ epos' = [s \in Sources |-> 0] /\ reporting' = [s \in Sources |-> Rests]
  /\ UNCHANGED <<activities, unknown, acquainted>>

ExtractorInit ==
  /\ activities = [s \in Sources |-> <<>>] /\ epos = [s \in Sources |-> 0]
  /\ reporting = [s \in Sources |-> Rests] /\ unknown = <<>> /\ acquainted = {} /\ table = {} /\ estarts = 0

ExtractorNext ==
  \/ \E s \in Sources : \/ LookUpUrls(s) \/ LookUpAccts(s) \/ PublishNames(s)
                        \/ \E names \in SUBSET Strangers \ {{}} : Receive(s, names)
  \/ \E name \in Strangers : Discovered(name) \/ ProjectActor(name)
  \/ RestartExtractor

ExtractorFairness ==
  /\ \A s \in Sources : WF_evars(LookUpUrls(s) \/ LookUpAccts(s) \/ PublishNames(s))
  /\ \A name \in Strangers : WF_evars(ProjectActor(name))

-----------------------------------------------------------------------------
\* Every name of every activity becomes known or is asked for, for the sake of
\* that activity, also when the process ends between the URLs and the accounts.
EveryStrangerIsAskedFor ==
  <>[](\A s \in Sources : \A i \in DOMAIN activities[s] : \A name \in activities[s][i] :
          \/ name \in acquainted
          \/ \E k \in DOMAIN unknown : /\ unknown[k].name = name
                                     /\ unknown[k].source = s /\ unknown[k].at = i)
=============================================================================
