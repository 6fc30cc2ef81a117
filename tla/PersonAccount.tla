------------------------------ MODULE PersonAccount ------------------------------
(***************************************************************************)
(* The counts of a local account: person_account, three tasks that read    *)
(* the topics "person", "followers" and "activities" and publish to        *)
(* "accounts"; local_accounts, which forwards that; and the table of       *)
(* accounts of the client API.  One local user.  The tables of             *)
(* person_account are empty at every start and are filled by the topics    *)
(* from their beginnings, with the events published for the first time     *)
(* only, each under the id of the event it answers.                        *)
(***************************************************************************)
EXTENDS Naturals, Sequences, SequencesExt, FiniteSets

CONSTANTS Items,          \* who follows or is followed by the user, her statuses
          KindOf,         \* item -> "followers", "following" or "statuses"
          MaxItemEvents,  \* bound: events of the two topics
          MaxPersonEvents,\* bound: events of the topic "person"
          MaxAccountStarts

ASSUME KindOfAssumption == KindOf \in [Items -> {"followers", "following", "statuses"}]

CountTopics == {"followers", "activities"}
SourceOf(i) == IF KindOf[i] = "statuses" THEN "activities" ELSE "followers"
Kinds == {"followers", "following", "statuses"}

VARIABLES topic,     \* source -> events [item, present]
          people,   \* the topic "person": created, updated, deleted
          pos,       \* source -> position
          counted,   \* edges and statuses
          hold,      \* source -> <<>>, or the count about to be published
          ppos,
          pholds,    \* <<>>, or the account about to be published
          accounts,  \* the topic "accounts"
          astarts,
          raced      \* an account was counted while an event of the other topics was under way

avars == <<topic, people, pos, counted, hold, ppos, pholds, accounts, astarts, raced>>

Count(t, kind) == Cardinality({i \in t : KindOf[i] = kind})
Counts(t) == [k \in Kinds |-> Count(t, k)]

\* A message_id, that of the event, is published once.
Known(id) == \E i \in DOMAIN accounts : accounts[i].id = id

\* It says the count that changed, or all of them; of one that is deleted nothing.
PublishesAccount(id, type, says) ==
  accounts' = IF Known(id) THEN accounts ELSE Append(accounts, [id |-> id, type |-> type, says |-> says])

-----------------------------------------------------------------------------
(* What happens.                                                            *)

ItemEvent ==
  /\ \E i \in Items, present \in BOOLEAN :
        /\ Len(topic["followers"]) + Len(topic["activities"]) < MaxItemEvents
        /\ topic' = [topic EXCEPT ![SourceOf(i)] = Append(@, [item |-> i, present |-> present])]
  /\ UNCHANGED <<people, pos, counted, hold, ppos, pholds, accounts, astarts, raced>>

PeopleEvent ==
  /\ Len(people) < MaxPersonEvents
  /\ \E t \in IF people = <<>> \/ Last(people) = "deleted" THEN {"created"} ELSE {"updated", "deleted"} :
        people' = Append(people, t)
  /\ UNCHANGED <<topic, pos, counted, hold, ppos, pholds, accounts, astarts, raced>>

-----------------------------------------------------------------------------
(* person_account: followers and statuses.                                  *)

MApplied(e) == IF e.present THEN counted \cup {e.item} ELSE counted    \* mutant: nothing is removed

Applied(e) == IF e.present THEN counted \cup {e.item} ELSE counted \ {e.item}

\* add_edge, remove_edge, add_status, remove_status; what changes nothing is
\* not published.
CountItem(s) ==
  /\ pos[s] < Len(topic[s]) /\ hold[s] = <<>>
  /\ LET e == topic[s][pos[s] + 1] IN
     /\ counted' = Applied(e)
     /\ IF counted' = counted
        THEN pos' = [pos EXCEPT ![s] = @ + 1] /\ UNCHANGED hold
        ELSE /\ hold' = [hold EXCEPT ![s] = <<[kind |-> KindOf[e.item], count |-> Count(counted', KindOf[e.item])]>>]
             /\ UNCHANGED pos
  /\ raced' = (raced \/ (pholds # <<>> /\ ~Known(<<"person", ppos + 1>>)))
  /\ UNCHANGED <<topic, people, ppos, pholds, accounts, astarts>>

EmitCount(s) ==
  /\ hold[s] # <<>>
  /\ PublishesAccount(<<hold[s][1].kind, pos[s] + 1>>, "changed", hold[s])
  /\ pos' = [pos EXCEPT ![s] = @ + 1]
  /\ hold' = [hold EXCEPT ![s] = <<>>]
  /\ raced' = (raced \/ (pholds # <<>> /\ ~Known(<<"person", ppos + 1>>)))
  /\ UNCHANGED <<topic, people, counted, ppos, pholds, astarts>>

(* person_account: the person.                                              *)

Behind == \E s \in CountTopics : pos[s] < Len(topic[s])

CountAccount ==
  /\ ppos < Len(people) /\ pholds = <<>> /\ people[ppos + 1] # "deleted"
  /\ pholds' = <<Counts(counted)>>
  /\ raced' = (raced \/ (Behind /\ ~Known(<<"person", ppos + 1>>)))
  /\ UNCHANGED <<topic, people, pos, counted, hold, ppos, accounts, astarts>>

EmitAccount ==
  /\ ppos < Len(people) /\ (pholds # <<>> \/ people[ppos + 1] = "deleted")
  /\ PublishesAccount(<<"person", ppos + 1>>, people[ppos + 1], pholds)
  /\ ppos' = ppos + 1 /\ pholds' = <<>>
  /\ UNCHANGED <<topic, people, pos, counted, hold, astarts, raced>>

RestartAccount ==
  /\ astarts < MaxAccountStarts /\ astarts' = astarts + 1
  /\ pos' = [s \in CountTopics |-> 0] /\ hold' = [s \in CountTopics |-> <<>>] /\ counted' = {}
  /\ ppos' = 0 /\ pholds' = <<>>
  /\ UNCHANGED <<topic, people, accounts, raced>>

-----------------------------------------------------------------------------
(* local_accounts and the table of the client API.                          *)

\* upsert, update and delete of the table.
Upserted(counts) == <<counts>>
Patched(shown, kind, count) == IF shown = <<>> THEN <<>> ELSE <<[shown[1] EXCEPT ![kind] = count]>>
Removed == <<>>

Show(shown, e) ==
  IF e.type = "deleted" THEN Removed
  ELSE IF e.type = "changed" THEN Patched(shown, e.says[1].kind, e.says[1].count)
  ELSE Upserted(e.says[1])

\* Both follow the topic event by event; what they come to is what counts.
Shown ==
  LET upto[n \in 0..Len(accounts)] == IF n = 0 THEN <<>> ELSE Show(upto[n - 1], accounts[n])
  IN upto[Len(accounts)]

AccountInit ==
  /\ topic = [s \in CountTopics |-> <<>>] /\ people = <<>>
  /\ pos = [s \in CountTopics |-> 0] /\ counted = {} /\ hold = [s \in CountTopics |-> <<>>]
  /\ ppos = 0 /\ pholds = <<>> /\ accounts = <<>> /\ astarts = 0 /\ raced = FALSE

AccountNext ==
  \/ ItemEvent \/ PeopleEvent
  \/ \E s \in CountTopics : CountItem(s) \/ EmitCount(s)
  \/ CountAccount \/ EmitAccount \/ RestartAccount

-----------------------------------------------------------------------------
HasRead == ~Behind /\ ppos = Len(people)

\* Who was last said to be there.
ThereNow(i) ==
  LET told == topic[SourceOf(i)] IN
  \E n \in DOMAIN told : told[n].item = i /\ told[n].present /\ \A m \in (n + 1)..Len(told) : told[m].item # i
TrueCounts == Counts({i \in Items : ThereNow(i)})

\* The counts that an account shows once everything is read are those of the
\* edges and statuses there are.
ShownCountsAreTrue ==
  HasRead => IF people = <<>> \/ Last(people) = "deleted" THEN Shown = <<>> ELSE Shown = <<TrueCounts>>

\* They are, whatever restarts there were, when no account was counted while an
\* event of the other topics was under way.
CountsAreTrueUnlessRaced == raced \/ ShownCountsAreTrue
=============================================================================
