---------------------------------- MODULE Polish ----------------------------------
(***************************************************************************)
(* polish_activities turns the accounts that a post mentions into links,   *)
(* as far as their actors are known.  A post that mentions others is       *)
(* published nevertheless; it is held, and published again as an Update    *)
(* when one of them is discovered.  Two tasks of one process do so: the    *)
(* translator of "raw_activities" and the projection of "remote_actors".   *)
(* They meet in the tables.  One post; what it says is its mentions.       *)
(***************************************************************************)
EXTENDS Naturals, Sequences, SequencesExt, FiniteSets

CONSTANTS Mentioned,       \* accounts of other servers
          MaxRaw,          \* bound: activities
          MaxFound,        \* bound: discoveries
          MaxPolishStarts

VARIABLES raw,             \* the topic "raw_activities": [verb, mentions]
          rawpos,
          polished,        \* the topic "activities": [verb, mentions, linked, id]
          found,           \* the topic "remote_actors": of each actor its accounts, the canonical one first
          foundpos,
          linkable,        \* table actors
          held,            \* <<>>, or the post with the accounts it waits for
          work,            \* task -> the activity it polishes
          aliases,         \* accounts of the discovery at hand whose posts are still to be updated
          requests,        \* accounts on "unknown_actors", each once
          met,             \* the two tasks were at work at the same time
          polishStarts

pvars == <<raw, rawpos, polished, found, foundpos, linkable, held, work, aliases, requests, met, polishStarts>>

Translator == "translator"
Updater == "updater"
AtRest == [pc |-> "idle", verb |-> "", mentions |-> {}, linked |-> {}, id |-> <<>>]
Polishing(verb, mentions, id) == [AtRest EXCEPT !.pc = "look", !.verb = verb, !.mentions = mentions, !.id = id]

Busy(t) == work[t].pc # "idle"
Meets(t) == met' = (met \/ Busy(IF t = Translator THEN Updater ELSE Translator)
                        \/ (t = Translator /\ aliases # <<>>))

-----------------------------------------------------------------------------
\* The author writes, edits and deletes the post.
Write(verb, mentions) ==
  /\ Len(raw) < MaxRaw
  /\ (raw = <<>>) = (verb = "Create") /\ (raw # <<>> => Last(raw).verb # "Delete")
  /\ raw' = Append(raw, [verb |-> verb, mentions |-> IF verb = "Delete" THEN {} ELSE mentions])
  /\ UNCHANGED <<rawpos, polished, found, foundpos, linkable, held, work, aliases, requests, met, polishStarts>>

\* account_resolver finds an actor; others may have become known otherwise.
Find(accts) ==
  /\ Len(found) < MaxFound /\ found' = Append(found, accts)
  /\ UNCHANGED <<raw, rawpos, polished, foundpos, linkable, held, work, aliases, requests, met, polishStarts>>

-----------------------------------------------------------------------------
(* The translator.  A Delete releases the post and is forwarded.             *)

Take ==
  /\ ~Busy(Translator) /\ rawpos < Len(raw)
  /\ rawpos' = rawpos + 1
  /\ LET e == raw[rawpos']
         new == Polishing(e.verb, e.mentions, <<"raw_activities", rawpos'>>)
     IN work' = [work EXCEPT ![Translator] = IF e.verb = "Delete" THEN [new EXCEPT !.pc = "release"] ELSE new]
  /\ Meets(Translator)
  /\ UNCHANGED <<raw, polished, found, foundpos, linkable, held, aliases, requests, polishStarts>>

(* The projection of the actors: only the canonical account is remembered.   *)

\* The table after the first n discoveries.
RememberedActors(n) == {Head(found[i]) : i \in 1..n}

Discover ==
  /\ ~Busy(Updater) /\ aliases = <<>> /\ foundpos < Len(found)
  /\ foundpos' = foundpos + 1
  /\ linkable' = RememberedActors(foundpos')
  /\ aliases' = found[foundpos']
  /\ Meets(Updater)
  /\ UNCHANGED <<raw, rawpos, polished, found, held, work, requests, polishStarts>>

\* The post, if it is held for this account.
WaitingFor(acct) == IF held # <<>> /\ acct \in held[1].waits THEN held ELSE <<>>

\* update_all_waiting: the payload is read here, and polished later.
UpdateWaiting ==
  /\ ~Busy(Updater) /\ aliases # <<>>
  /\ aliases' = Tail(aliases)
  /\ work' = IF WaitingFor(Head(aliases)) # <<>>
             THEN [work EXCEPT ![Updater] = Polishing("Update", WaitingFor(Head(aliases))[1].mentions, <<"remote_actors", foundpos>>)]
             ELSE work
  /\ Meets(Updater)
  /\ UNCHANGED <<raw, rawpos, polished, found, foundpos, linkable, held, requests, polishStarts>>

-----------------------------------------------------------------------------
(* publish_polished, for both.                                              *)

Pending(t) == work[t].mentions \ work[t].linked

LookUp(t) ==
  /\ work[t].pc = "look"
  /\ work' = [work EXCEPT ![t].pc = "release", ![t].linked = work[t].mentions \cap linkable]
  /\ UNCHANGED <<raw, rawpos, polished, found, foundpos, linkable, held, aliases, requests, met, polishStarts>>

Release(t) ==
  /\ work[t].pc = "release"
  /\ held' = <<>>
  /\ work' = [work EXCEPT ![t].pc = IF Pending(t) = {} THEN "publish" ELSE "hold"]
  /\ UNCHANGED <<raw, rawpos, polished, found, foundpos, linkable, aliases, requests, met, polishStarts>>

\* hold and _request_resolution: a request for an account is published once.
Hold(t) ==
  /\ work[t].pc = "hold"
  /\ held' = <<[mentions |-> work[t].mentions, waits |-> Pending(t)]>>
  /\ requests' = requests \cup Pending(t)
  /\ work' = [work EXCEPT ![t].pc = "publish"]
  /\ UNCHANGED <<raw, rawpos, polished, found, foundpos, linkable, aliases, met, polishStarts>>

\* Under the id of the activity, or of the discovery and the post.
Forward(t) ==
  /\ work[t].pc = "publish"
  /\ polished' = IF \E i \in DOMAIN polished : polished[i].id = work[t].id THEN polished
                 ELSE Append(polished, [verb |-> work[t].verb, mentions |-> work[t].mentions,
                                        linked |-> work[t].linked, id |-> work[t].id])
  /\ work' = [work EXCEPT ![t] = AtRest]
  /\ UNCHANGED <<raw, rawpos, found, foundpos, linkable, held, aliases, requests, met, polishStarts>>

-----------------------------------------------------------------------------
\* The tables are dropped, the actors are read again and then the raw
\* activities from the first.
RestartPolish ==
  /\ polishStarts < MaxPolishStarts /\ polishStarts' = polishStarts + 1
  /\ rawpos' = 0 /\ foundpos' = Len(found) /\ linkable' = RememberedActors(Len(found))
  /\ held' = <<>> /\ work' = [t \in {Translator, Updater} |-> AtRest] /\ aliases' = <<>>
  /\ UNCHANGED <<raw, polished, found, requests, met>>

PolishInit ==
  /\ raw = <<>> /\ rawpos = 0 /\ polished = <<>> /\ found = <<>> /\ foundpos = 0 /\ linkable = {}
  /\ held = <<>> /\ work = [t \in {Translator, Updater} |-> AtRest] /\ aliases = <<>>
  /\ requests = {} /\ met = FALSE /\ polishStarts = 0

PolishNext ==
  \/ \E verb \in {"Create", "Update", "Delete"}, mentions \in SUBSET Mentioned : Write(verb, mentions)
  \/ \E a, b \in Mentioned : Find(<<a>>) \/ (a # b /\ Find(<<a, b>>))
  \/ Take \/ Discover \/ UpdateWaiting \/ RestartPolish
  \/ \E t \in {Translator, Updater} : LookUp(t) \/ Release(t) \/ Hold(t) \/ Forward(t)

PolishFairness ==
  /\ WF_pvars(Take)
  /\ WF_pvars(LookUp(Translator) \/ Release(Translator) \/ Hold(Translator) \/ Forward(Translator))

-----------------------------------------------------------------------------
AllPolished == rawpos = Len(raw) /\ foundpos = Len(found) /\ aliases = <<>> /\ \A t \in DOMAIN work : ~Busy(t)

\* When everything is handled, the last activity on the post is the author's
\* last, with links to all the accounts that are known by then, and nothing
\* follows its deletion; unless the process was restarted or its two tasks met.
PolishedAsKnown ==
  (AllPolished /\ raw # <<>> /\ ~met /\ polishStarts = 0) =>
    LET last == Last(polished) IN
    /\ (last.verb = "Delete") = (Last(raw).verb = "Delete")
    /\ last.mentions = Last(raw).mentions
    /\ last.linked = last.mentions \cap linkable

\* Of every account that was ever mentioned an actor is known, or asked for,
\* whatever restarts there were and however the tasks met.
EveryMentionIsAskedFor ==
  <>[](\A i \in DOMAIN raw : \A acct \in raw[i].mentions :
         acct \in requests \/ \E k \in DOMAIN found : Head(found[k]) = acct)
=============================================================================
