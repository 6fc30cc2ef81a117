----------------------------- MODULE AccountResolver -----------------------------
(***************************************************************************)
(* The account_resolver, for one name that is not known: every request for *)
(* it on the topic "unknown_actors" may start a process, which the gate    *)
(* allows to one at a time and not again while the answer is young.  A     *)
(* process fetches the webfinger document and the actor, attempt by        *)
(* attempt, registers what they confirm, and ends resolved or unresolved.  *)
(* Its events are on the topic "account_resolution", each once; the table  *)
(* it decides from follows that topic.  The gate and the tasks are in      *)
(* memory.                                                                 *)
(***************************************************************************)
EXTENDS Naturals, Sequences, SequencesExt, FiniteSets

CONSTANTS MaxAsked,       \* bound: requests
          MaxClock,       \* bound: time
          Lifetime,       \* of an answer (resolution_cache)
          MaxTries,       \* bound: attempts of one document before give_up
          MaxResolverStarts

Requests == 1..MaxAsked
Documents == {"jrd", "actor"}
Conclusive == {"confirmed", "useless", "not_found"}   \* succeeded, of two kinds; 404 or 410
Open == 0                                            \* of the gate: the name is not in it
Running == MaxClock + Lifetime + 1

VARIABLES clock,
          asked,       \* the topic "unknown_actors": when each request was emitted
          heard,       \* position in it
          gate,        \* valid_until of the name
          tasks,       \* request -> "none", "look", "fetch", "register" or "finish"
          doing,       \* request -> what its task is about: a document and an attempt, or an outcome
          log,         \* the topic "account_resolution": [p, kind, attempt, state, at]
          known,       \* how many of its events are in the table
          registered,  \* processes that registered an actor
          rstarts

rsvars == <<clock, asked, heard, gate, tasks, doing, log, known, registered, rstarts>>

-----------------------------------------------------------------------------
(* The table.                                                               *)

Nothing == [kind |-> "process", attempt |-> 0, state |-> "none", at |-> 0]

RowOf(p, kind) ==
  LET hits == {i \in 1..known : log[i].p = p /\ log[i].kind = kind}
  IN IF hits = {} THEN Nothing ELSE log[CHOOSE i \in hits : \A j \in hits : j <= i]

Finished(p) == RowOf(p, "process").state # "none"
Unfinished == {p \in Requests : (\E k \in Documents : RowOf(p, k).state # "none") /\ ~Finished(p)}

\* resolve: the document that is needed next, or the outcome.
Chain(p) ==
  IF RowOf(p, "jrd").state \notin Conclusive THEN "jrd"
  ELSE IF RowOf(p, "jrd").state # "confirmed" THEN "unresolved"
  ELSE IF RowOf(p, "actor").state \notin Conclusive THEN "actor"
  ELSE IF RowOf(p, "actor").state = "confirmed" THEN "resolved" ELSE "unresolved"

\* request_id and process_id: the id of a request holds attempt and state, that
\* of a process nothing but the process.
EventId(p, kind, attempt, state) == <<p, kind>> \o IF kind = "process" THEN <<>> ELSE <<attempt, state>>

PublishesOnce(p, kind, attempt, state) ==
  LET once == \E i \in DOMAIN log :
                EventId(log[i].p, log[i].kind, log[i].attempt, log[i].state) = EventId(p, kind, attempt, state)
  IN log' = IF once THEN log
            ELSE Append(log, [p |-> p, kind |-> kind, attempt |-> attempt, state |-> state, at |-> clock])

ProjectResolution ==
  /\ known < Len(log) /\ known' = known + 1
  /\ UNCHANGED <<clock, asked, heard, gate, tasks, doing, log, registered, rstarts>>

-----------------------------------------------------------------------------
(* The gate.                                                                *)

HasExpired(valid, at) == valid # Running /\ valid < at

TryStart(valid, at) == valid = Open \/ HasExpired(valid, at)
GateDone(at) == gate' = at + Lifetime

SubmitProcess(p) == tasks' = [tasks EXCEPT ![p] = IF @ = "none" THEN "look" ELSE @]

Ask ==
  /\ Len(asked) < MaxAsked /\ asked' = Append(asked, clock)
  /\ UNCHANGED <<clock, heard, gate, tasks, doing, log, known, registered, rstarts>>

Requested ==
  /\ heard < Len(asked)
  /\ heard' = heard + 1
  /\ IF TryStart(gate, asked[heard'])
     THEN gate' = Running /\ SubmitProcess(heard')
     ELSE UNCHANGED <<gate, tasks>>
  /\ UNCHANGED <<clock, asked, doing, log, known, registered, rstarts>>

-----------------------------------------------------------------------------
(* A step of a task.                                                        *)

\* A process that is finished opens the gate at each visit, by the time of its
\* end; after some of these the task ends.
Visit(p) ==
  /\ tasks[p] = "look" /\ Finished(p)
  /\ GateDone(RowOf(p, "process").at)
  /\ tasks' \in {tasks, [tasks EXCEPT ![p] = "none"]}
  /\ UNCHANGED <<clock, asked, heard, doing, log, known, registered, rstarts>>

\* The claim of an attempt: of the first, or after the lease or the backoff of
\* the last, which are longer than the table is behind.  Who loses a claim looks again.
Claim(p) ==
  /\ tasks[p] = "look" /\ ~Finished(p) /\ Chain(p) \in Documents
  /\ RowOf(p, Chain(p)).attempt > 0 => known = Len(log)
  /\ LET attempt == RowOf(p, Chain(p)).attempt + 1 IN
     /\ attempt <= MaxTries
     /\ PublishesOnce(p, Chain(p), attempt, "attempting")
     /\ doing' = [doing EXCEPT ![p] = <<Chain(p), attempt>>]
     /\ tasks' = [tasks EXCEPT ![p] = IF log' = log THEN "look" ELSE "fetch"]
  /\ UNCHANGED <<clock, asked, heard, gate, known, registered, rstarts>>

\* At the end of max_total.
GiveUp(p) ==
  /\ tasks[p] = "look" /\ ~Finished(p) /\ Chain(p) \in Documents /\ RowOf(p, Chain(p)).attempt > 0
  /\ known = Len(log)
  /\ tasks' = [tasks EXCEPT ![p] = "finish"] /\ doing' = [doing EXCEPT ![p] = <<"unresolved", 0>>]
  /\ UNCHANGED <<clock, asked, heard, gate, log, known, registered, rstarts>>

Fetch(p) ==
  /\ tasks[p] = "fetch"
  /\ \E answer \in Conclusive \cup {"failed"} : PublishesOnce(p, doing[p][1], doing[p][2], answer)
  /\ tasks' = [tasks EXCEPT ![p] = "look"]
  /\ UNCHANGED <<clock, asked, heard, gate, doing, known, registered, rstarts>>

Conclude(p, outcome) == IF outcome = "resolved" THEN "register" ELSE "finish"

Outcome(p) ==
  /\ tasks[p] = "look" /\ ~Finished(p) /\ Chain(p) \notin Documents
  /\ doing' = [doing EXCEPT ![p] = <<Chain(p), 0>>]
  /\ tasks' = [tasks EXCEPT ![p] = Conclude(p, Chain(p))]
  /\ UNCHANGED <<clock, asked, heard, gate, log, known, registered, rstarts>>

Register(p) ==
  /\ tasks[p] = "register"
  /\ registered' = registered \cup {p}
  /\ tasks' = [tasks EXCEPT ![p] = "finish"]
  /\ UNCHANGED <<clock, asked, heard, gate, doing, log, known, rstarts>>

Finish(p) ==
  /\ tasks[p] = "finish"
  /\ PublishesOnce(p, "process", 0, doing[p][1])
  /\ GateDone(clock)
  /\ tasks' = [tasks EXCEPT ![p] = "look"]
  /\ UNCHANGED <<clock, asked, heard, doing, known, registered, rstarts>>

-----------------------------------------------------------------------------
\* The first of the processes that have begun and not ended is taken up again;
\* then the requests are read from the first.
Resume == IF Unfinished = {} THEN 0 ELSE CHOOSE p \in Unfinished : \A q \in Unfinished : p <= q

RestartAccounts ==
  /\ rstarts < MaxResolverStarts /\ rstarts' = rstarts + 1
  /\ UNCHANGED <<clock, asked, doing, log, registered>>
  /\ known' = Len(log)     \* the table is rebuilt first
  /\ heard' = 0
  /\ gate' = IF Resume' = 0 THEN Open ELSE Running
  /\ tasks' = [p \in Requests |-> IF p = Resume' THEN "look" ELSE "none"]

\* Only the answers of the net take time.
Passes ==
  /\ clock < MaxClock /\ clock' = clock + 1
  /\ known = Len(log) /\ \A p \in Requests : tasks[p] \in {"none", "look", "fetch"}
  /\ UNCHANGED <<asked, heard, gate, tasks, doing, log, known, registered, rstarts>>

ResolutionInit ==
  /\ clock = 1 /\ asked = <<>> /\ heard = 0 /\ gate = Open
  /\ tasks = [p \in Requests |-> "none"] /\ doing = [p \in Requests |-> <<"none", 0>>]
  /\ log = <<>> /\ known = 0 /\ registered = {} /\ rstarts = 0

Act(p) == Visit(p) \/ Claim(p) \/ GiveUp(p) \/ Fetch(p) \/ Outcome(p) \/ Register(p) \/ Finish(p)

ResolutionNext ==
  \/ ProjectResolution \/ Ask \/ Requested \/ RestartAccounts \/ Passes
  \/ \E p \in Requests : Act(p)

\* Tasks run; attempts are used up in the end (max_total).
ResolutionFairness ==
  /\ WF_rsvars(ProjectResolution) /\ WF_rsvars(Requested)
  /\ \A p \in Requests :
        /\ WF_rsvars(Visit(p) \/ Claim(p) \/ Fetch(p) \/ Outcome(p) \/ Register(p) \/ Finish(p))
        /\ SF_rsvars(GiveUp(p))

-----------------------------------------------------------------------------
Ended(p) == {log[i].state : i \in {j \in DOMAIN log : log[j].p = p /\ log[j].kind = "process"}}

\* A process is resolved if and only if its actor was registered, before that,
\* also when the process of the operating system ends between the two.
ResolvedIsRegistered ==
  \A p \in Requests : /\ "resolved" \in Ended(p) => p \in registered
                      /\ p \in registered => "unresolved" \notin Ended(p)

\* Without a restart every request is answered: by a process that ended after
\* it, or so little before it that its answer counts as young.
EveryRequestIsAnswered ==
  <>[](rstarts = 0 => \A i \in DOMAIN asked : \E e \in DOMAIN log :
                        log[e].kind = "process" /\ log[e].at + Lifetime >= asked[i])
=============================================================================
