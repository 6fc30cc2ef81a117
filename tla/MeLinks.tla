--------------------------------- MODULE MeLinks ---------------------------------
(***************************************************************************)
(* Whether one page that an actor lists points back to the actor's profile *)
(* (rel=me).  The actor's document gives the profile and says whether the  *)
(* page is listed; a sweep submits a listed page that was never checked or *)
(* is due again, and forgets the result for a page that is not listed any  *)
(* more; a task reads the page and publishes what it finds on "me_links".  *)
(* The table of results follows that topic, but for the rows the sweep     *)
(* deletes; so does the API's table.                                       *)
(***************************************************************************)
EXTENDS Naturals, Sequences

CONSTANTS Profiles,       \* the actor's profile may move
          MaxFindings,    \* bound: results
          MaxEdits,       \* bound: changes of the page or the actor
          MaxMeStarts

NoProfile == "none"

VARIABLES listed,         \* table link: the profile the page is listed for, or none
          target,         \* where the page points
          edition,        \* of the page
          findings,       \* the topic "me_links": [state, profile, edition, at]
          mpos,           \* position of the table verification
          result,         \* index of the finding in it, or 0
          post,           \* what the queue of the task holds: a profile, or none
          forgetting,     \* the row is deleted, the event not yet published
          edits, meStarts

mvars == <<listed, target, edition, findings, mpos, result, post, forgetting, edits, meStarts>>

\* replace_links, forget_links.
Lists(profile) == listed' = profile

\* record_verification and forget_verification: the row after the first n findings.
Verification(n) == IF n = 0 \/ findings[n].state = "deleted" THEN 0 ELSE n

Actor(profile) ==
  /\ edits < MaxEdits /\ edits' = edits + 1
  /\ profile # listed /\ Lists(profile)
  /\ UNCHANGED <<target, edition, findings, mpos, result, post, forgetting, meStarts>>

EditPage(profile) ==
  /\ edits < MaxEdits /\ edits' = edits + 1
  /\ profile # target /\ target' = profile /\ edition' = edition + 1
  /\ UNCHANGED <<listed, findings, mpos, result, post, forgetting, meStarts>>

-----------------------------------------------------------------------------
\* links_of and unchecked or due: the page is listed, whether it has a row or not;
\* a row may be due at any time.
MayBeDue == listed # NoProfile

\* submit_unchecked sees a page without a row,
\* visit_due one with a row.
Submit ==
  /\ ~forgetting /\ MayBeDue /\ post = NoProfile
  /\ post' = listed
  /\ UNCHANGED <<listed, target, edition, findings, mpos, result, forgetting, edits, meStarts>>

\* The row is deleted here and not by the projection; then "deleted" is published.
ForgetRow ==
  /\ ~forgetting /\ listed = NoProfile /\ result # 0
  /\ result' = 0 /\ forgetting' = TRUE
  /\ UNCHANGED <<listed, target, edition, findings, mpos, post, edits, meStarts>>

Found(state, profile) ==
  findings' = Append(findings, [state |-> state, profile |-> profile, edition |-> edition, points |-> target])

PublishDeleted ==
  /\ forgetting /\ Found("deleted", NoProfile) /\ forgetting' = FALSE
  /\ UNCHANGED <<listed, target, edition, mpos, result, post, edits, meStarts>>

\* 304: the page is what it was at the last check, whose result is kept; so it is
\* when the profile has moved since.  A failed request publishes nothing and its
\* retry finds the queue empty: the page waits for the next sweep.
Classified(profile) ==
  CASE target = NoProfile -> "gone" [] target = profile -> "verified" [] OTHER -> "unverified"

MStateOf(unchanged, profile) ==       \* mutant: the old result also stands for a page that changed
  IF result # 0 THEN findings[result].state ELSE IF target = profile THEN "verified" ELSE "unverified"

StateOf(unchanged, profile) ==
  IF unchanged THEN findings[result].state ELSE Classified(profile)

CheckPage ==
  /\ post # NoProfile /\ post' = NoProfile
  /\ \/ UNCHANGED findings
     \/ \E unchanged \in BOOLEAN :
          /\ Len(SelectSeq(findings, LAMBDA f : f.state # "deleted")) < MaxFindings
          /\ unchanged => result # 0 /\ findings[result].edition = edition
          /\ Found(StateOf(unchanged, post), post)
  /\ UNCHANGED <<listed, target, edition, mpos, result, forgetting, edits, meStarts>>

ProjectFindings ==
  /\ mpos < Len(findings) /\ mpos' = mpos + 1
  /\ result' = Verification(mpos')
  /\ UNCHANGED <<listed, target, edition, findings, post, forgetting, edits, meStarts>>

RestartMe ==
  /\ meStarts < MaxMeStarts /\ meStarts' = meStarts + 1
  /\ mpos' = Len(findings)
  /\ result' = Verification(mpos')
  /\ post' = NoProfile /\ forgetting' = FALSE
  /\ UNCHANGED <<listed, target, edition, findings, edits>>

MeInit ==
  /\ listed = NoProfile /\ target \in Profiles \cup {NoProfile} /\ edition = 1 /\ findings = <<>>
  /\ mpos = 0 /\ result = 0 /\ post = NoProfile /\ forgetting = FALSE /\ edits = 0 /\ meStarts = 0

MeNext ==
  \/ \E p \in Profiles \cup {NoProfile} : Actor(p) \/ EditPage(p)
  \/ Submit \/ ForgetRow \/ PublishDeleted \/ CheckPage \/ ProjectFindings \/ RestartMe

MeFairness ==
  WF_mvars(ForgetRow) /\ WF_mvars(PublishDeleted) /\ WF_mvars(CheckPage) /\ WF_mvars(ProjectFindings)

-----------------------------------------------------------------------------
\* What was published as verified did point to the profile it names, but for a
\* page that did not change while the profile moved.
VerifiedPointsBack ==
  \A i \in DOMAIN findings :
    LET f == findings[i] IN
    f.state = "verified" => \/ f.points = f.profile
                            \/ \E j \in 1..i-1 : findings[j].edition = f.edition /\ findings[j].points = findings[j].profile

\* What is not listed any more is deleted for every reader of the topic, also
\* when the process ends between the deletion of the row and of the event.
DelistedIsDeleted ==
  <>[](listed = NoProfile) => <>[](findings # <<>> => findings[Len(findings)].state = "deleted")
=============================================================================
