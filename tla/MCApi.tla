---------------------------------- MODULE MCApi ----------------------------------
(***************************************************************************)
(* The API on small instances: statuses, conversations, threads, pages,    *)
(* login and attachments of the client API, outbox and signatures of the   *)
(* server API, of which a behaviour runs one.                              *)
(***************************************************************************)
EXTENDS Statuses, Conversations, Threads, Pages, Outbox, Signatures, Oauth, Media

CONSTANTS c1, a1, a2, a3, a4, a5, l1, l2, l3,   \* urls
          me, u2, x, y                          \* local users, remote authors

VARIABLE part

\* One note, boosts of remote authors and of the local user, reactions.
MCAuthor == (c1 :> x) @@ (a1 :> x) @@ (a2 :> y) @@ (a3 :> x) @@ (a4 :> me) @@ (a5 :> me)
            @@ (l1 :> y) @@ (l2 :> me) @@ (l3 :> me)
MCEmojiOf == [u \in Urls |-> IF u = l3 THEN "laughing" ELSE "like"]
MCRecipients == [u \in Urls |-> IF u = c1 THEN {me, u2} ELSE {}]
MCNr == (c1 :> 1) @@ (a1 :> 1) @@ (a2 :> 2) @@ (a3 :> 3) @@ (a4 :> 4) @@ (a5 :> 5)
        @@ (l1 :> 1) @@ (l2 :> 2) @@ (l3 :> 3)
\* Boosts of boosts; a user who boosts; a user who reacts.
MCCasts == {{c1, a1, a2, a3}, {c1, a1, a4, a5}, {c1, l1, l2, l3}}

\* Four messages between four actors; in the second choice one mentions its
\* own sender.
MCSender == <<"a", "b", "c", "a">>
MCMentions == {<<{"b"}, {"a", "c"}, {"a"}, {"d"}>>, <<{"b"}, {"a", "c"}, {"c"}, {"d"}>>}

\* A follower of one server and the author of a status on another.
MCHostOf == ("fan@x" :> "x") @@ ("x" :> "x") @@ ("other@y" :> "y")

Parts == {"statuses", "conversations", "threads", "pages", "outbox", "signatures", "oauth", "media"}

apivars == <<vars, cvars, tvars, pvars, ovars, sgvars, avars, mdvars, part>>

\* The variables of the parts that a behaviour does not run keep one value.
RestingStatuses == StatusesInit /\ cast = {c1, a1, a2, a3}
RestingConversations == ConversationsInit /\ \A m \in Messages : parent[m] = 0 /\ mentions[2] # {} /\ mentions[3] = {"a"}
RestingThreads == ThreadsInit /\ visible = {} /\ \A n \in Notes : inReplyTo[n] = 0 /\ author[n] = "a"
RestingPages == PagesInit /\ mode = "rows" /\ nothing = {} /\ table = {}
RestingOutbox == OutboxInit /\ followings = <<>>

Init ==
  /\ part \in Parts
  /\ IF part = "statuses" THEN StatusesInit ELSE RestingStatuses
  /\ IF part = "conversations" THEN ConversationsInit ELSE RestingConversations
  /\ IF part = "threads" THEN ThreadsInit ELSE RestingThreads
  /\ IF part = "pages" THEN PagesInit ELSE RestingPages
  /\ IF part = "outbox" THEN OutboxInit ELSE RestingOutbox
  /\ SignaturesInit /\ OauthInit /\ MediaInit

Next ==
  \/ part = "statuses" /\ StatusesNext
     /\ UNCHANGED <<cvars, tvars, pvars, ovars, sgvars, avars, mdvars, part>>
  \/ part = "conversations" /\ ConversationsNext
     /\ UNCHANGED <<vars, tvars, pvars, ovars, sgvars, avars, mdvars, part>>
  \/ part = "threads" /\ ThreadsNext
     /\ UNCHANGED <<vars, cvars, pvars, ovars, sgvars, avars, mdvars, part>>
  \/ part = "pages" /\ PagesNext
     /\ UNCHANGED <<vars, cvars, tvars, ovars, sgvars, avars, mdvars, part>>
  \/ part = "outbox" /\ OutboxNext
     /\ UNCHANGED <<vars, cvars, tvars, pvars, sgvars, avars, mdvars, part>>
  \/ part = "signatures" /\ SignaturesNext
     /\ UNCHANGED <<vars, cvars, tvars, pvars, ovars, avars, mdvars, part>>
  \/ part = "oauth" /\ OauthNext
     /\ UNCHANGED <<vars, cvars, tvars, pvars, ovars, sgvars, mdvars, part>>
  \/ part = "media" /\ MediaNext
     /\ UNCHANGED <<vars, cvars, tvars, pvars, ovars, sgvars, avars, part>>

\* The projection, the translators and the compressor keep running.
Spec ==
  /\ Init /\ [][Next]_apivars
  /\ WF_vars(Apply) /\ WF_vars(Forward) /\ WF_vars(Compress) /\ WF_vars(CompressCommits)
  /\ SignaturesFairness

-----------------------------------------------------------------------------
\* The boosts and reactions of a note, their numbers and the viewer's part in
\* them are what the objects amount to, and one who waits for each of his
\* requests to show has one boost and one reaction of a note at most.
InteractionsAreTrue == CountsAreTrue /\ OneOfEach

\* Direct messages are one conversation if they are one thread, in whatever
\* order they arrive, and everyone whom they are between takes part in it.
ConversationsStayWhole == ConversationsAreThreads /\ NobodyIsForgotten

\* A thread is the same from above and from below, and what the viewer may not
\* see of it leaves its shape.
ThreadsKeepTheirShape == ThreadsAgree /\ HiddenKeepsShape

\* Who was answered with a token or an attachment can use it with the next
\* request and after a restart, and nobody else.
RequestsSeeTheirOwn == TokensAreGood /\ AttachmentsAreAtHand

\* Boosts of boosts become boosts of the note, and who signs with a new key is
\* heard in the end.
SettlesInTheEnd == CompressionSettles /\ SignersAreHeard
=============================================================================
