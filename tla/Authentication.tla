--------------------------- MODULE Authentication ---------------------------
(***************************************************************************)
(* Who a request comes from (auth.py, auth_oidc.py): tokens of the         *)
(* identity provider, checked with a cached copy of its key set, then API  *)
(* keys.  The provider publishes and retires signing keys meanwhile, and   *)
(* requests fetch its key set side by side.                                *)
(*                                                                         *)
(* A bearer token of the provider is its key id and whether the rest of it *)
(* (signature, audience, issuer, expiry, subject) is good; an API key is   *)
(* its user, when it is configured.  Steps without an await between them   *)
(* are one action.                                                         *)
(***************************************************************************)
EXTENDS Integers, FiniteSets

CONSTANTS
  AuthRequests,
  Kids,         \* signing keys of the provider
  ApiUsers,     \* users with a configured API key
  Stranger,     \* the holder of a key that is not configured
  Ttl,          \* _JWKS_TTL_S
  Latency,      \* bound: how long the two GETs of a fetch take
  MaxTime,      \* bound: the clock
  Initial       \* keys the provider publishes at first

ASSUME AuthAssumption == Ttl \in Nat /\ Latency \in Nat /\ Initial \subseteq Kids

VARIABLES
  clock,
  published,    \* the provider's key set
  lastPublished,\* when each key was retired, or -1
  jwks,         \* the cached copy, <<>> before the first fetch
  fetchedAt,
  call          \* the requests

authVars == <<clock, published, lastPublished, jwks, fetchedAt, call>>

Tokens == [scheme : {"jwt"}, kid : Kids, good : BOOLEAN]
Credentials ==
  Tokens \cup [scheme : {"opaque"}, holder : ApiUsers \cup {Stranger}] \cup {[scheme |-> "none"]}

Fetching == {"fetch", "refetch"}

AuthInit ==
  /\ clock = 0
  /\ published = Initial /\ lastPublished = [k \in Kids |-> -1]
  /\ jwks = <<>> /\ fetchedAt = 0
  /\ call = [r \in AuthRequests |->
               [pc |-> "new", cred |-> [scheme |-> "none"], since |-> 0, reply |-> <<>>,
                steady |-> FALSE]]

\* Time passes while no fetch outlasts its timeouts.
AuthTick ==
  /\ clock < MaxTime
  /\ \A r \in AuthRequests : call[r].pc \in Fetching => clock - call[r].since < Latency
  /\ clock' = clock + 1
  /\ UNCHANGED <<published, lastPublished, jwks, fetchedAt, call>>

Publish(k) ==
  /\ k \notin published /\ lastPublished[k] = -1
  /\ published' = published \cup {k}
  /\ UNCHANGED <<clock, lastPublished, jwks, fetchedAt, call>>

\* "steady" is for the properties: the key of the token was published all along.
Retire(k) ==
  /\ k \in published
  /\ published' = published \ {k}
  /\ lastPublished' = [lastPublished EXCEPT ![k] = clock]
  /\ call' = [r \in AuthRequests |->
                IF call[r].cred.scheme = "jwt" /\ call[r].cred.kid = k
                THEN [call[r] EXCEPT !.steady = FALSE] ELSE call[r]]
  /\ UNCHANGED <<clock, jwks, fetchedAt>>

\* The request with its Authorization header.
Arrive(r) ==
  /\ call[r].pc = "new"
  /\ \E cred \in Credentials :
       call' = [call EXCEPT ![r].pc = "arrived", ![r].cred = cred,
                            ![r].steady = cred.scheme = "jwt" /\ cred.kid \in published]
  /\ UNCHANGED <<clock, published, lastPublished, jwks, fetchedAt>>

\* ApiKeyAuth, which also gets what OidcAuth does not recognize.
ByApiKey(cred) ==
  IF cred.scheme = "opaque" /\ cred.holder \in ApiUsers THEN "accepted" ELSE "refused"

\* Once its key is found, the token decides; then the API keys.
Settled(cred, keys) ==
  IF cred.scheme = "jwt" /\ cred.kid \in keys /\ cred.good THEN "accepted" ELSE ByApiKey(cred)

\* Mutant: a cached set is good for ever.
FreshForEver == jwks # <<>>

\* The cached set is there and not stale.
Fresh == jwks # <<>> /\ clock - fetchedAt <= Ttl

\* Mutant: a key that is not in the set refuses the token.
OnlyCached(r) == FALSE

\* The key is not in a set that was just looked at: the provider may have rotated.
Rotated(r) == TRUE

Goto(r, label) ==
  [call[r] EXCEPT !.pc = label, !.since = IF label \in Fetching THEN clock ELSE 0, !.reply = <<>>]

\* OidcAuth up to its first await: what is no token is left to the API keys.
Lookup(r) ==
  /\ call[r].pc = "arrived"
  /\ LET cred == call[r].cred IN
     call' = [call EXCEPT ![r] =
                Goto(r, IF cred.scheme # "jwt" THEN ByApiKey(cred)
                        ELSE IF ~Fresh THEN "fetch"
                        ELSE IF cred.kid \notin jwks[1] /\ Rotated(r) THEN "refetch"
                        ELSE Settled(cred, jwks[1]))]
  /\ UNCHANGED <<clock, published, lastPublished, jwks, fetchedAt>>

\* The provider answers the GET of its key set: the answer is on its way.
ProviderAnswers(r) ==
  /\ call[r].pc \in Fetching /\ call[r].reply = <<>>
  /\ call' = [call EXCEPT ![r].reply = <<published>>]
  /\ UNCHANGED <<clock, published, lastPublished, jwks, fetchedAt>>

\* The set is stored, whatever another request stored meanwhile, and searched.
FetchDone(r) ==
  /\ call[r].pc \in Fetching /\ call[r].reply # <<>>
  /\ jwks' = call[r].reply /\ fetchedAt' = clock
  /\ LET cred == call[r].cred
         keys == call[r].reply[1] IN
     call' = [call EXCEPT ![r] =
                Goto(r, IF cred.kid \notin keys /\ call[r].pc = "fetch" /\ Rotated(r) THEN "refetch"
                        ELSE Settled(cred, keys))]
  /\ UNCHANGED <<clock, published, lastPublished>>

\* Discovery or the key set cannot be had: the token is refused, the cached set stays.
FetchFails(r) ==
  /\ call[r].pc \in Fetching
  /\ call' = [call EXCEPT ![r] = [Goto(r, ByApiKey(call[r].cred)) EXCEPT !.steady = FALSE]]
  /\ UNCHANGED <<clock, published, lastPublished, jwks, fetchedAt>>

AuthNext ==
  \/ AuthTick
  \/ \E k \in Kids : Publish(k) \/ Retire(k)
  \/ \E r \in AuthRequests :
       Arrive(r) \/ Lookup(r) \/ ProviderAnswers(r) \/ FetchDone(r) \/ FetchFails(r)

AuthSpec == AuthInit /\ [][AuthNext]_authVars

-----------------------------------------------------------------------------
(* Correctness. *)

\* A token is accepted only if its key is published, or was less than the cache's life and a
\* fetch ago, although an older key set may replace a newer one (auth_oidc.py:46-60).
AcceptedWasPublished ==
  [][\A r \in AuthRequests :
       LET k == call[r].cred.kid IN
       call[r].cred.scheme = "jwt" /\ call[r].pc # "accepted" /\ call'[r].pc = "accepted" =>
         \/ k \in published
         \/ lastPublished[k] >= 0 /\ clock - lastPublished[k] <= Ttl + Latency]_authVars

\* A good token whose key is published from its arrival on is not refused, unless the provider
\* cannot be reached: no key set fetched before or by others hides a new key from it
\* (auth_oidc.py:73-83).
PublishedIsAccepted ==
  \A r \in AuthRequests :
    call[r].pc = "refused" /\ call[r].cred.scheme = "jwt" /\ call[r].steady => ~call[r].cred.good

=============================================================================
