-------------------------------- MODULE Signatures --------------------------------
(***************************************************************************)
(* Requests of another server that one of its actors signs: deliveries to  *)
(* an inbox, and readings of an outbox.  Each side has a table of public   *)
(* keys, a projection of "remote_actors".  A signature that the key in the *)
(* table does not verify, or for which there is none, is refused or taken  *)
(* as no signature, and the actor is asked for; a message_id of the hour   *)
(* keeps it from being asked for more than once an hour by either side.    *)
(* The actor may get a new key at any time.                                *)
(*                                                                         *)
(* The account_resolver is external here: it fetches the actor when it was *)
(* asked, or does not, for its answer may be young or the server down.     *)
(***************************************************************************)
EXTENDS Integers, Sequences, SequencesExt

CONSTANTS MaxKeys,          \* bound: keys of the actor
          MaxSigStarts      \* bound: restarts

Sides == {"inbox", "outbox"}
NoKey == 0

VARIABLES key,              \* the key of the actor
          keyOf,            \* side -> the key in its table
          discovered,       \* the topic "remote_actors": keys (one that repeats the last changes no table)
          discoveredAt,     \* side -> events of it that the projection has handled
          askedFor,         \* a request for the actor is on "unknown_actors"
          fetched,          \* the key in the document that account_resolver fetched
          thisHour,         \* sides whose message_id of this hour is used
          outcome,          \* side -> of the last request: "", "refused" or "verified"
          sigStarts

sgvars == <<key, keyOf, discovered, discoveredAt, askedFor, fetched, thisHour, outcome, sigStarts>>

-----------------------------------------------------------------------------

\* throttled_id
Throttled(side) == side \in thisHour

RequestActor(side) ==
  /\ askedFor' = (askedFor \/ ~Throttled(side))
  /\ thisHour' = thisHour \cup {side}

\* What both sides do: a request that was under way when the key changed is
\* signed with the key before.
Verified(side) ==
  outcome' = [outcome EXCEPT ![side] = "verified"] /\ UNCHANGED <<askedFor, thisHour>>

MRefused(side) ==                      \* mutant: one whose key is not known is not asked for
  /\ outcome' = [outcome EXCEPT ![side] = "refused"]
  /\ IF keyOf[side] # NoKey THEN RequestActor(side) ELSE UNCHANGED <<askedFor, thisHour>>

Refused(side) == outcome' = [outcome EXCEPT ![side] = "refused"] /\ RequestActor(side)

\* verify_inbox_request
VerifyInbox(used) ==
  /\ used # NoKey
  /\ IF keyOf["inbox"] = used THEN Verified("inbox") ELSE Refused("inbox")
  /\ UNCHANGED <<key, keyOf, discovered, discoveredAt, fetched, sigStarts>>

\* signer_of: a signature that is out of time is none, and asks for nobody.
SignerOf(used, recently) ==
  /\ used # NoKey
  /\ IF ~recently THEN outcome' = [outcome EXCEPT !["outbox"] = "refused"] /\ UNCHANGED <<askedFor, thisHour>>
     ELSE IF keyOf["outbox"] = used THEN Verified("outbox") ELSE Refused("outbox")
  /\ UNCHANGED <<key, keyOf, discovered, discoveredAt, fetched, sigStarts>>

\* The tables keep the last key that was discovered; one without a key changes nothing.
Upserted(side, found) == [keyOf EXCEPT ![side] = found]
Project(side) ==
  /\ discoveredAt[side] < Len(discovered)
  /\ discoveredAt' = [discoveredAt EXCEPT ![side] = @ + 1]
  /\ keyOf' = Upserted(side, discovered[discoveredAt'[side]])
  /\ UNCHANGED <<key, discovered, askedFor, fetched, thisHour, outcome, sigStarts>>
StoreKey == Project("inbox")
StoreSigner == Project("outbox")

\* The tables are made of the whole topic before they are read.
RestartKeys ==
  /\ sigStarts < MaxSigStarts /\ sigStarts' = sigStarts + 1
  /\ discoveredAt' = [side \in Sides |-> Len(discovered)]
  /\ keyOf' = [side \in Sides |-> IF discovered = <<>> THEN NoKey ELSE Last(discovered)]
  /\ UNCHANGED <<key, discovered, askedFor, fetched, thisHour, outcome>>

NextHour ==
  /\ thisHour # {} /\ thisHour' = {}
  /\ UNCHANGED <<key, keyOf, discovered, discoveredAt, askedFor, fetched, outcome, sigStarts>>

\* The actor, with its first key and those that follow, its server and the
\* account_resolver.
ChangeKey ==
  /\ key < MaxKeys /\ key' = key + 1
  /\ UNCHANGED <<keyOf, discovered, discoveredAt, askedFor, fetched, thisHour, outcome, sigStarts>>
Ignore ==
  /\ askedFor /\ fetched = NoKey /\ askedFor' = FALSE
  /\ UNCHANGED <<key, keyOf, discovered, discoveredAt, fetched, thisHour, outcome, sigStarts>>
Fetch ==
  /\ askedFor /\ fetched = NoKey /\ askedFor' = FALSE /\ fetched' = key
  /\ UNCHANGED <<key, keyOf, discovered, discoveredAt, thisHour, outcome, sigStarts>>
Discovered ==
  /\ fetched # NoKey /\ fetched' = NoKey
  /\ discovered' = IF discovered # <<>> /\ Last(discovered) = fetched THEN discovered
                   ELSE Append(discovered, fetched)
  /\ UNCHANGED <<key, keyOf, discoveredAt, askedFor, thisHour, outcome, sigStarts>>

SignaturesInit ==
  /\ key = NoKey /\ keyOf = [side \in Sides |-> NoKey] /\ discovered = <<>>
  /\ discoveredAt = [side \in Sides |-> 0] /\ askedFor = FALSE /\ fetched = NoKey
  /\ thisHour = {} /\ outcome = [side \in Sides |-> ""] /\ sigStarts = 0

SignaturesNext ==
  \/ StoreKey \/ StoreSigner
  \/ \E used \in (key - 1)..key : VerifyInbox(used) \/ \E recently \in BOOLEAN : SignerOf(used, recently)
  \/ RestartKeys \/ NextHour \/ ChangeKey \/ Ignore \/ Fetch \/ Discovered

\* The other server keeps trying and the projections keep running; who is asked
\* for again and again is fetched in the end, for answers get old.
SignaturesFairness ==
  /\ WF_sgvars(StoreKey) /\ WF_sgvars(StoreSigner)
  /\ WF_sgvars(VerifyInbox(key)) /\ WF_sgvars(SignerOf(key, TRUE))
  /\ WF_sgvars(NextHour) /\ SF_sgvars(Fetch) /\ WF_sgvars(Discovered)

-----------------------------------------------------------------------------
\* Who signs with his key is heard by both sides in the end, whenever it has
\* changed and whatever was lost in between.
SignersAreHeard == <>[](\A side \in Sides : keyOf[side] = key)
=============================================================================
