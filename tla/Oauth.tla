---------------------------------- MODULE Oauth ----------------------------------
(***************************************************************************)
(* Logging in to the client API: a client is sent to the identity provider *)
(* and comes back with a code, which it exchanges for an access token.     *)
(* Codes and tokens are events of two topics.  A request looks them up in  *)
(* the memory of the process, which the projections of the topics fill: a  *)
(* request comes before the last events have got there, and, since the web *)
(* server does not wait for the components, before the memory is made of   *)
(* the topics at the start.                                                *)
(***************************************************************************)
EXTENDS Naturals, Sequences, FiniteSets

CONSTANTS MaxCodes,         \* bound: logins
          MaxTokens,        \* bound: tokens issued
          MaxOauthStarts    \* bound: restarts

ASSUME OauthAssumption == MaxCodes \in Nat

Codes == 1..MaxCodes
Tokens == 1..MaxTokens
Slots == {"first", "second"}   \* exchanges that are under way

VARIABLES logins,      \* _pending: logins that are at the identity provider
          begun,       \* how many logins were begun
          codesLog, codesAt,     \* topic oauth_codes: [verb, code], and its projection's position
          codes,       \* _codes
          expired,     \* codes older than CODE_TTL
          tokensLog, tokensAt,   \* topic oauth_tokens: [verb, token]
          tokens,      \* _tokens
          slot,        \* exchange -> [pc, code, token]
          madeFrom,    \* token -> the code that it was issued for
          answered,    \* tokens that a client has got
          revoked,     \* tokens whose revocation was published
          unread,      \* codes exchanged again before their consumption was projected
          rebuilt,     \* of "apps", "codes" and "tokens": how many are made of their topics
          oauthStarts

avars == <<logins, begun, codesLog, codesAt, codes, expired, tokensLog, tokensAt, tokens, slot,
           madeFrom, answered, revoked, unread, rebuilt, oauthStarts>>

NoExchange == [pc |-> "none", code |-> 0, token |-> 0]
AllRebuilt == rebuilt = 3

-----------------------------------------------------------------------------
\* authorize: the client has to be in _apps.
Authorize ==
  /\ rebuilt >= 1 /\ begun < MaxCodes
  /\ begun' = begun + 1 /\ logins' = logins \cup {begun'}
  /\ UNCHANGED <<codesLog, codesAt, codes, expired, tokensLog, tokensAt, tokens, slot, madeFrom,
                 answered, revoked, unread, rebuilt, oauthStarts>>

\* callback: the identity provider confirms the user, or does not.
IssueCode(c) == codesLog' = Append(codesLog, [verb |-> "issued", code |-> c])
Callback(c) ==
  /\ c \in logins /\ logins' = logins \ {c}
  /\ UNCHANGED codesLog \/ IssueCode(c)
  /\ UNCHANGED <<begun, codesAt, codes, expired, tokensLog, tokensAt, tokens, slot, madeFrom,
                 answered, revoked, unread, rebuilt, oauthStarts>>

\* token: an exchange is four steps, of which the last answers the client.
Consumed(c) == \E i \in DOMAIN codesLog : codesLog[i] = [verb |-> "consumed", code |-> c]

GetCode(c) == c \in codes \ expired
BeginExchange(s, c) ==
  /\ slot[s] = NoExchange /\ rebuilt >= 1 /\ GetCode(c)
  /\ slot' = [slot EXCEPT ![s] = [pc |-> "consume", code |-> c, token |-> 0]]
  /\ unread' = IF Consumed(c) \/ \E o \in Slots : slot[o].code = c THEN unread \cup {c} ELSE unread
  /\ UNCHANGED <<logins, begun, codesLog, codesAt, codes, expired, tokensLog, tokensAt, tokens,
                 madeFrom, answered, revoked, rebuilt, oauthStarts>>

Consume(s) ==
  /\ slot[s].pc = "consume" /\ slot' = [slot EXCEPT ![s].pc = "issue"]
  /\ codesLog' = Append(codesLog, [verb |-> "consumed", code |-> slot[s].code])
  /\ UNCHANGED <<logins, begun, codesAt, codes, expired, tokensLog, tokensAt, tokens, madeFrom,
                 answered, revoked, unread, rebuilt, oauthStarts>>

IssueToken(s) ==
  /\ slot[s].pc = "issue" /\ Cardinality(DOMAIN madeFrom) < MaxTokens
  /\ LET t == Cardinality(DOMAIN madeFrom) + 1
     IN /\ madeFrom' = Append(madeFrom, slot[s].code)
        /\ tokensLog' = Append(tokensLog, [verb |-> "issued", token |-> t])
        /\ slot' = [slot EXCEPT ![s] = [@ EXCEPT !.pc = "register", !.token = t]]
  /\ UNCHANGED <<logins, begun, codesLog, codesAt, codes, expired, tokensAt, tokens, answered,
                 revoked, unread, rebuilt, oauthStarts>>

RegisterToken(s) ==
  /\ slot[s].pc = "register" /\ slot' = [slot EXCEPT ![s] = NoExchange]
  /\ tokens' = tokens \cup {slot[s].token}
  /\ answered' = answered \cup {slot[s].token}
  /\ UNCHANGED <<logins, begun, codesLog, codesAt, codes, expired, tokensLog, tokensAt, madeFrom,
                 revoked, unread, rebuilt, oauthStarts>>

\* revoke: one that is not in the memory is not published (and answered the same).
Revoke(t) ==
  /\ t \in answered \cap tokens /\ t \notin revoked
  /\ revoked' = revoked \cup {t}
  /\ tokensLog' = Append(tokensLog, [verb |-> "revoked", token |-> t])
  /\ UNCHANGED <<logins, begun, codesLog, codesAt, codes, expired, tokensAt, tokens, slot, madeFrom,
                 answered, unread, rebuilt, oauthStarts>>

-----------------------------------------------------------------------------
(* The projections.                                                          *)

\* _claims_for, of a token that the identity provider has not issued
Claims(t) == t \in tokens

WithCode(table, e) == IF e.verb = "issued" THEN table \cup ({e.code} \ expired) ELSE table \ {e.code}
WithToken(table, e) == IF e.verb = "issued" THEN table \cup {e.token} ELSE table \ {e.token}

ProjectCode ==
  /\ AllRebuilt /\ codesAt < Len(codesLog) /\ codesAt' = codesAt + 1
  /\ codes' = WithCode(codes, codesLog[codesAt'])
  /\ UNCHANGED <<logins, begun, codesLog, expired, tokensLog, tokensAt, tokens, slot, madeFrom,
                 answered, revoked, unread, rebuilt, oauthStarts>>

ProjectToken ==
  /\ AllRebuilt /\ tokensAt < Len(tokensLog) /\ tokensAt' = tokensAt + 1
  /\ tokens' = WithToken(tokens, tokensLog[tokensAt'])
  /\ UNCHANGED <<logins, begun, codesLog, codesAt, codes, expired, tokensLog, slot, madeFrom,
                 answered, revoked, unread, rebuilt, oauthStarts>>

Expire(c) ==
  /\ c \notin expired /\ expired' = expired \cup {c}
  /\ \E i \in DOMAIN codesLog : codesLog[i].code = c
  /\ UNCHANGED <<logins, begun, codesLog, codesAt, codes, tokensLog, tokensAt, tokens, slot, madeFrom,
                 answered, revoked, unread, rebuilt, oauthStarts>>

\* What the topics amount to: what was issued and has not been taken back since.
CodesOfTopic ==
  {codesLog[i].code : i \in {k \in DOMAIN codesLog :
     \A j \in k..Len(codesLog) : codesLog[j].code = codesLog[k].code => codesLog[j].verb = "issued"}} \ expired
TokensOfTopic ==
  {tokensLog[i].token : i \in {k \in DOMAIN tokensLog :
     \A j \in k..Len(tokensLog) : tokensLog[j].token = tokensLog[k].token => tokensLog[j].verb = "issued"}}

\* What is in memory is lost, the logins and the exchanges for good.
RestartOauth ==
  /\ oauthStarts < MaxOauthStarts /\ oauthStarts' = oauthStarts + 1
  /\ logins' = {} /\ codes' = {} /\ tokens' = {} /\ rebuilt' = 0
  /\ slot' = [s \in Slots |-> NoExchange]
  /\ UNCHANGED <<begun, codesLog, codesAt, expired, tokensLog, tokensAt, madeFrom, answered, revoked, unread>>

\* apps_rebuild, codes_rebuild and tokens_rebuild, one after the other.
Rebuild ==
  /\ ~AllRebuilt /\ rebuilt' = rebuilt + 1
  /\ IF rebuilt = 1 THEN codes' = CodesOfTopic /\ codesAt' = Len(codesLog)
     ELSE UNCHANGED <<codes, codesAt>>
  /\ IF rebuilt = 2 THEN tokens' = TokensOfTopic /\ tokensAt' = Len(tokensLog)
     ELSE UNCHANGED <<tokens, tokensAt>>
  /\ UNCHANGED <<logins, begun, codesLog, expired, tokensLog, slot, madeFrom, answered, revoked, unread, oauthStarts>>

OauthInit ==
  /\ logins = {} /\ begun = 0 /\ codesLog = <<>> /\ codesAt = 0 /\ codes = {} /\ expired = {}
  /\ tokensLog = <<>> /\ tokensAt = 0 /\ tokens = {} /\ slot = [s \in Slots |-> NoExchange]
  /\ madeFrom = <<>> /\ answered = {} /\ revoked = {} /\ unread = {} /\ rebuilt = 3 /\ oauthStarts = 0

OauthNext ==
  \/ \E c \in Codes : Callback(c) \/ Expire(c) \/ \E s \in Slots : BeginExchange(s, c)
  \/ \E s \in Slots : Consume(s) \/ IssueToken(s) \/ RegisterToken(s)
  \/ \E t \in Tokens : Revoke(t)
  \/ Authorize \/ ProjectCode \/ ProjectToken \/ RestartOauth \/ Rebuild

-----------------------------------------------------------------------------
\* A token that a client was given is good at once and after a restart (when
\* the memory is rebuilt) until it is revoked, and no longer when that is
\* projected; a code is good for one token, but for an exchange that begins
\* before the consumption by another has reached the memory.
TokensAreGood ==
  /\ AllRebuilt => \A t \in answered \ revoked : Claims(t)
  /\ (AllRebuilt /\ tokensAt = Len(tokensLog)) => \A t \in revoked : ~Claims(t)
  /\ \A t, u \in DOMAIN madeFrom : (t # u /\ madeFrom[t] = madeFrom[u]) => madeFrom[t] \in unread
=============================================================================
