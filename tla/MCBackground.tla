------------------------------- MODULE MCBackground -------------------------------
(***************************************************************************)
(* The background components on small instances, of which a behaviour runs *)
(* one: they share no state but the topics at their ends.                  *)
(***************************************************************************)
EXTENDS ActivityResolver, Persons, PersonAccount, AccountResolver, ReactionCollections,
        KnownServers, MeLinks, Resolve, ActorExtractor, Polish, Projection, Importer

VARIABLE part

MCKindOf == ("f" :> "followers") @@ ("s" :> "statuses")

\* Two accounts of one domain and one of another, an actor of each.
MCAccts == {"a@x", "b@y", "c@x"}
MCUrls == {"x/u", "y/v"}
MCDomain == ("a@x" :> "x") @@ ("b@y" :> "y") @@ ("c@x" :> "x") @@ ("x/u" :> "x") @@ ("y/v" :> "y")
MCSmallest == [S \in SUBSET MCUrls |-> IF "x/u" \in S THEN "x/u" ELSE IF S = {} THEN Nobody ELSE "y/v"]

\* Two processes race twice; one imports three times and finds a page that has changed.
MCCrews == {{"p"}, {"p", "q"}}
MCPageEdits == [crew \in MCCrews |-> IF crew = {"p"} THEN 2 ELSE 1]
MCImports == [crew \in MCCrews |-> IF crew = {"p"} THEN 3 ELSE 2]

Parts == {"activities", "persons", "counts", "accounts", "reactions", "servers", "links", "documents", "strangers",
          "mentions", "projections", "imports"}

bvars == <<rvars, uvars, avars, rsvars, cvars, kvars, mvars, dvars, evars, pvars, hvars, ivars, part>>

\* The part that a behaviour does not run rests; these three begin with a choice.
RestingImports == ImporterInit /\ Importers = {"p"}
RestingLinks == MeInit /\ target = NoProfile
RestingDocuments == DocumentsInit /\ entry = "a@x"

Init ==
  /\ part \in Parts
  /\ ResolverInit /\ PersonsInit /\ AccountInit /\ ResolutionInit /\ CollectionsInit /\ ServersInit /\ ExtractorInit
  /\ PolishInit /\ ProjectionsInit
  /\ IF part = "imports" THEN ImporterInit ELSE RestingImports
  /\ IF part = "links" THEN MeInit ELSE RestingLinks
  /\ IF part = "documents" THEN DocumentsInit ELSE RestingDocuments

Next ==
  \/ part = "activities" /\ ResolverNext
     /\ UNCHANGED <<uvars, avars, rsvars, cvars, kvars, mvars, dvars, evars, pvars, hvars, ivars, part>>
  \/ part = "persons" /\ PersonsNext
     /\ UNCHANGED <<rvars, avars, rsvars, cvars, kvars, mvars, dvars, evars, pvars, hvars, ivars, part>>
  \/ part = "counts" /\ AccountNext
     /\ UNCHANGED <<rvars, uvars, rsvars, cvars, kvars, mvars, dvars, evars, pvars, hvars, ivars, part>>
  \/ part = "accounts" /\ ResolutionNext
     /\ UNCHANGED <<rvars, uvars, avars, cvars, kvars, mvars, dvars, evars, pvars, hvars, ivars, part>>
  \/ part = "reactions" /\ CollectionsNext
     /\ UNCHANGED <<rvars, uvars, avars, rsvars, kvars, mvars, dvars, evars, pvars, hvars, ivars, part>>
  \/ part = "servers" /\ ServersNext
     /\ UNCHANGED <<rvars, uvars, avars, rsvars, cvars, mvars, dvars, evars, pvars, hvars, ivars, part>>
  \/ part = "links" /\ MeNext
     /\ UNCHANGED <<rvars, uvars, avars, rsvars, cvars, kvars, dvars, evars, pvars, hvars, ivars, part>>
  \/ part = "documents" /\ DocumentsNext
     /\ UNCHANGED <<rvars, uvars, avars, rsvars, cvars, kvars, mvars, evars, pvars, hvars, ivars, part>>
  \/ part = "strangers" /\ ExtractorNext
     /\ UNCHANGED <<rvars, uvars, avars, rsvars, cvars, kvars, mvars, dvars, pvars, hvars, ivars, part>>
  \/ part = "mentions" /\ PolishNext
     /\ UNCHANGED <<rvars, uvars, avars, rsvars, cvars, kvars, mvars, dvars, evars, hvars, ivars, part>>
  \/ part = "projections" /\ ProjectionsNext
     /\ UNCHANGED <<rvars, uvars, avars, rsvars, cvars, kvars, mvars, dvars, evars, pvars, ivars, part>>
  \/ part = "imports" /\ ImporterNext
     /\ UNCHANGED <<rvars, uvars, avars, rsvars, cvars, kvars, mvars, dvars, evars, pvars, hvars, part>>

Spec ==
  /\ Init /\ [][Next]_bvars
  /\ ResolverFairness /\ PersonsFairness /\ ResolutionFairness /\ CollectionsFairness
  /\ ServersFairness /\ MeFairness /\ ExtractorFairness /\ PolishFairness

-----------------------------------------------------------------------------
\* An actor that the account_resolver settles on is confirmed from both sides, its own
\* document and the webfinger document of its account's domain, and a process
\* ends as resolved if and only if the actor was registered before that.
ResolvedFromBothSides == ResolvedIsMutual /\ ResolvedIsRegistered

\* What is announced is what is: a profile as the page that was imported has it, a
\* person as the user's profile is, and a post with links to the accounts it
\* mentions as far as their actors are known.
AnnouncementsAreCurrent == ImportedAsFetched /\ CreatedOnce /\ AnnouncedAsTheyAre /\ PolishedAsKnown

\* What is published of others is earned: a page that is called verified did point
\* back to the profile, a host that is called lost did fail that often in a row.
VerdictsAreEarned == VerifiedPointsBack /\ LostOnlyAfterFailures

\* Nothing that a background component was asked for or learned of is
\* forgotten, whatever restarts in between (where the module does not say that
\* a restart may lose it): a request for an actor is answered, a claimed
\* collection reported, a name never seen before asked for, a host inspected, a page that is
\* no longer listed deleted, and a user's change closed by a tick.
NothingAskedIsForgotten ==
  /\ EveryRequestIsAnswered /\ EveryClaimIsReported /\ EveryStrangerIsAskedFor
  /\ EveryHostIsInspected /\ DelistedIsDeleted /\ EveryIntervalCloses
  /\ EveryMentionIsAskedFor
=============================================================================
