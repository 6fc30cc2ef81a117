--------------------------------- MODULE Resolve ---------------------------------
(***************************************************************************)
(* How the account_resolver finds the actor behind a name, an account      *)
(* (user@domain) or a URL.  resolve is a pure function of the documents    *)
(* that are known: it gives the actor, or none, or names the document it   *)
(* needs next: a webfinger document (jrd) or an actor document.  The       *)
(* module runs it from nothing, against servers that may answer anything.  *)
(***************************************************************************)
EXTENDS Naturals

CONSTANTS Accts, Urls,
          Domain,         \* of an account or a URL
          Smallest,       \* the order of the URLs: their minimum, as a function of sets
          MaxHops

Nobody == "nobody"

ASSUME ResolveAssumption ==
  /\ MaxHops \in Nat
  /\ Nobody \notin Accts \cup Urls
  /\ \A S \in SUBSET Urls : S # {} => Smallest[S] \in S

VARIABLES entry,          \* the name asked for
          jrds, actors    \* the documents known, functions of some names

dvars == <<entry, jrds, actors>>

\* A missing document says nothing.
Jrds == [subject : Accts \cup {Nobody}, links : SUBSET Urls]
Actors == [id : Urls, handle : Accts \cup {Nobody}] \cup {[id |-> Nobody, handle |-> Nobody]}

-----------------------------------------------------------------------------
\* Results: an actor, none, or a need.
None == [is |-> "none"]
Need(kind, name) == [is |-> "need", kind |-> kind, name |-> name]

confirms(jrd, url) == url \in jrd.links
canonical_url(jrd) == IF jrd.links = {} THEN Nobody ELSE Smallest[jrd.links]

MOwnWord(acct, subject) == TRUE       \* mutant: a document speaks for every domain

OwnWord(acct, subject) == Domain[subject] = Domain[acct]

\* The account that a chain of subjects ends at, and its document.  A subject of
\* another domain counts only when that domain names the same actor; then the
\* chain goes on from it, with a hop less.
FromSubject(acct, hops, further) ==
  LET jrd == jrds[acct]
      here == [is |-> "chain", acct |-> acct, jrd |-> jrd]
      subject == jrd.subject
  IN IF acct \notin DOMAIN jrds THEN Need("jrd", acct)
     ELSE IF subject \in {Nobody, acct} \/ hops = 0 THEN here
     ELSE IF OwnWord(acct, subject) THEN [here EXCEPT !.acct = subject]
     ELSE IF subject \notin DOMAIN jrds THEN Need("jrd", subject)
     ELSE IF canonical_url(jrds[subject]) = Nobody \/ canonical_url(jrds[subject]) # canonical_url(jrd)
          THEN here
          ELSE further[subject]

canonical_from_subject[hops \in 0..MaxHops] ==
  [acct \in Accts |-> FromSubject(acct, hops, canonical_from_subject[hops - 1])]

\* The actor whose document names the URL it was found at.
FromIdentity(url, hops, further) ==
  IF hops = 0 THEN None
  ELSE IF url \notin DOMAIN actors THEN Need("actor", url)
  ELSE IF actors[url].id = Nobody THEN None
  ELSE IF actors[url].id = url THEN [is |-> "actor", url |-> url]
  ELSE further[actors[url].id]

settled_actor[hops \in 0..MaxHops] == [url \in Urls |-> FromIdentity(url, hops, settled_actor[hops - 1])]

\* The account the actor declares is preferred, when it backs the actor.
confirmed(acct, url, jrd) ==
  LET candidate == actors[url].handle
      here == IF confirms(jrd, url) THEN [is |-> "found", acct |-> acct, url |-> url] ELSE None
  IN IF candidate \in {Nobody, acct} THEN here
     ELSE IF candidate \notin DOMAIN jrds THEN Need("jrd", candidate)
     ELSE IF confirms(jrds[candidate], url) THEN [is |-> "found", acct |-> candidate, url |-> url]
     ELSE here

from_acct(acct) ==
  LET chain == canonical_from_subject[MaxHops][acct]
      listed == canonical_url(chain.jrd)
      actor == settled_actor[MaxHops][listed]
  IN IF chain.is = "need" THEN chain
     ELSE IF listed = Nobody THEN None
     ELSE IF actor.is # "actor" THEN actor
     ELSE confirmed(chain.acct, actor.url, chain.jrd)

resolve(name) ==
  LET reverse == jrds[name]
      actor == settled_actor[MaxHops][name]
  IN IF name \in Accts THEN from_acct(name)
     ELSE IF name \notin DOMAIN jrds THEN Need("jrd", name)
     ELSE IF /\ reverse.subject # Nobody /\ confirms(reverse, name)
             /\ Domain[reverse.subject] = Domain[name]
          THEN from_acct(reverse.subject)
     ELSE IF actor.is # "actor" THEN actor
     ELSE IF actors[actor.url].handle = Nobody THEN None
     ELSE from_acct(actors[actor.url].handle)

-----------------------------------------------------------------------------
DocumentsInit == entry \in Accts \cup Urls /\ jrds = <<>> /\ actors = <<>>

Including(known_documents, name, document) ==
  [n \in DOMAIN known_documents \cup {name} |-> IF n = name THEN document ELSE known_documents[n]]

\* A document that is needed is fetched; it may be missing, and say anything.
FetchJrd ==
  /\ resolve(entry).is = "need" /\ resolve(entry).kind = "jrd"
  /\ \E answer \in Jrds : jrds' = Including(jrds, resolve(entry).name, answer)
  /\ UNCHANGED <<entry, actors>>

FetchActor ==
  /\ resolve(entry).is = "need" /\ resolve(entry).kind = "actor"
  /\ \E answer \in Actors : actors' = Including(actors, resolve(entry).name, answer)
  /\ UNCHANGED <<entry, jrds>>

DocumentsNext == FetchJrd \/ FetchActor

-----------------------------------------------------------------------------
\* The result is confirmed from both sides: the actor's document names its own
\* URL, and a webfinger document of the account's domain lists that URL.
ResolvedIsMutual ==
  LET r == resolve(entry) IN
  r.is = "found" =>
    /\ r.url \in DOMAIN actors /\ actors[r.url].id = r.url
    /\ \E name \in DOMAIN jrds : Domain[name] = Domain[r.acct] /\ confirms(jrds[name], r.url)
=============================================================================
