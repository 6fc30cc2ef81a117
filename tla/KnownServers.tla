------------------------------ MODULE KnownServers ------------------------------
(***************************************************************************)
(* What is known about one remote host.  The client API asks for a host it *)
(* has no row of ("discovered", once per hour); known_servers remembers    *)
(* it, sweeps its tables for hosts that were never inspected or are due,   *)
(* reads the nodeinfo document and publishes what it saw on the same       *)
(* topic.  A host that fails GiveUpAfter times in a row is "lost".  Two    *)
(* tables follow the topic: the component's own and the API's.             *)
(***************************************************************************)
EXTENDS Integers, Sequences, FiniteSets

CONSTANTS MaxNews,        \* bound: events
          MaxHour,        \* bound: windows of throttled_id
          GiveUpAfter,
          MaxServerStarts

ASSUME ServersAssumption == GiveUpAfter \in Int

Verdicts == {"updated", "unreachable"}

VARIABLES hour,
          news,           \* the topic "known_servers": [kind, failures, features, hour]; the
                          \* host offers emoji reactions, which its document says
          spos, shownpos,     \* positions of the component's and of the API's table
          visit,          \* "none", "submitted" or "lost", before that event is published
          serverStarts

kvars == <<hour, news, spos, shownpos, visit, serverStarts>>

\* The newest of these kinds among the first n events.
Latest(n, kinds) ==
  LET hits == {i \in 1..n : news[i].kind \in kinds}
  IN IF hits = {} THEN 0 ELSE CHOOSE i \in hits : \A j \in hits : j <= i

Remembered ==
  LET last == Latest(spos, {"discovered", "lost"}) IN last # 0 /\ news[last].kind = "discovered"
CheckOf == Latest(spos, Verdicts)
FailuresSoFar == IF CheckOf = 0 THEN 0 ELSE news[CheckOf].failures

Entry(kind, failures, features) ==
  [kind |-> kind, failures |-> failures, features |-> features, hour |-> hour]

\* understands_reactions: what the API's row says, or that there is none.
SupportOf == IF Latest(shownpos, {"updated"}) = 0 THEN <<>> ELSE <<news[Latest(shownpos, {"updated"})].features>>

-----------------------------------------------------------------------------
UnderstandsReactions ==
  /\ SupportOf = <<>>
  /\ ~\E i \in DOMAIN news : news[i].kind = "discovered" /\ news[i].hour = hour
  /\ Len(news) < MaxNews /\ news' = Append(news, Entry("discovered", 0, FALSE))
  /\ UNCHANGED <<hour, spos, shownpos, visit, serverStarts>>

ProjectServers ==
  /\ spos < Len(news) /\ spos' = spos + 1
  /\ UNCHANGED <<hour, news, shownpos, visit, serverStarts>>

ProjectSupport ==
  /\ shownpos < Len(news) /\ shownpos' = shownpos + 1
  /\ UNCHANGED <<hour, news, spos, visit, serverStarts>>

\* submit_unchecked and visit_due: a row whose next check is due.  The time
\* between two checks is longer than the table is behind.
MSubmitted == Remembered /\ CheckOf # 0   \* mutant: hosts without an inspection are left out

Submitted == Remembered

Sweep ==
  /\ visit = "none" /\ Submitted /\ CheckOf = Latest(Len(news), Verdicts)
  /\ visit' = "submitted"
  /\ UNCHANGED <<hour, news, spos, shownpos, serverStarts>>

\* A read document counts failures from zero; 304 also, and it carries no
\* features: "updated" without them empties the API's list.
FailuresAfter(state) == IF state = "failed" THEN FailuresSoFar + 1 ELSE 0

Check(state) ==
  /\ visit = "submitted" /\ Len(news) < MaxNews
  /\ state = "unchanged" => Latest(spos, {"updated"}) # 0
  /\ LET kind == IF state = "failed" THEN "unreachable" ELSE "updated"
     IN news' = Append(news, Entry(kind, FailuresAfter(state), state = "read"))
  /\ visit' = IF state = "failed" /\ FailuresAfter(state) >= GiveUpAfter THEN "lost" ELSE "none"
  /\ UNCHANGED <<hour, spos, shownpos, serverStarts>>

Lose ==
  /\ visit = "lost"
  /\ news' = Append(news, Entry("lost", 0, FALSE))
  /\ visit' = "none"
  /\ UNCHANGED <<hour, spos, shownpos, serverStarts>>

RestartServers ==
  /\ serverStarts < MaxServerStarts /\ serverStarts' = serverStarts + 1
  /\ spos' = Len(news) /\ visit' = "none"
  /\ UNCHANGED <<hour, news, shownpos>>

NextHour ==
  /\ hour < MaxHour /\ hour' = hour + 1
  /\ UNCHANGED <<news, spos, shownpos, visit, serverStarts>>

ServersInit ==
  /\ hour = 1 /\ news = <<>> /\ spos = 0 /\ shownpos = 0
  /\ visit = "none" /\ serverStarts = 0

ServersNext ==
  \/ UnderstandsReactions \/ ProjectServers \/ ProjectSupport \/ Sweep \/ Lose \/ RestartServers \/ NextHour
  \/ \E state \in {"read", "unchanged", "failed"} : Check(state)

ServersFairness ==
  /\ WF_kvars(ProjectServers) /\ WF_kvars(Sweep) /\ WF_kvars(Lose)
  /\ WF_kvars(\E state \in {"read", "unchanged", "failed"} : Check(state))

-----------------------------------------------------------------------------
\* A host is given up only after that many failures with no success between
\* them, whatever was lost and found in between.
LostOnlyAfterFailures ==
  \A i \in DOMAIN news : news[i].kind = "lost" =>
    LET success == Latest(i, {"updated"})
    IN Cardinality({j \in success+1..i : news[j].kind = "unreachable"}) >= GiveUpAfter

\* A host that was discovered is inspected, also when the process ends in
\* between: the sweep finds it in the tables.
EveryHostIsInspected ==
  [](news # <<>> => <>(Latest(Len(news), Verdicts) # 0))
=============================================================================
