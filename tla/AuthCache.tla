------------------------------ MODULE AuthCache ------------------------------
(***************************************************************************)
(* Who may call (src/auth_prod.go, AuthorizeSession; src/controlplane.go,  *)
(* authCacheCheck, validateKey and authCacheStore).                        *)
(*                                                                         *)
(* A request's api key is looked up in a bounded cache and, if it is not   *)
(* there or too old, validated by the controlplane, which may change its   *)
(* mind about a key at any time.  authCacheMu is held for a look-up and    *)
(* for a store, not for the validation between them.                       *)
(***************************************************************************)
EXTENDS Integers, FiniteSets, ToolCalls

CONSTANTS
  ApiKey,
  None,        \* no bearer in the request
  TTL,         \* authCacheTTL
  MaxEntries,  \* authCacheMaxEntries
  Timeout,     \* the client gives up an answer that is this old
  Horizon      \* bound: where the clock stops

ASSUME AuthAssumption ==
  /\ TTL \in Nat /\ Timeout \in Nat /\ Horizon \in Nat /\ MaxEntries \in Nat \ {0}
  /\ IsFiniteSet(ApiKey) /\ None \notin ApiKey

VARIABLES
  now,        \* time.Now()
  cache,      \* the map authCache: a function from some keys to expiry times
  authPc, apiKey,
  answered,   \* when the controlplane answered a request's validation
  confirmed,  \* history: when the controlplane last called the key valid
  recent      \* history: was that recent when the request was accepted?

authVars == <<now, cache, authPc, apiKey, answered, confirmed, recent>>

AuthPc == {"none", "validate", "store", "accepted", "refused"}

AuthInit ==
  /\ now = 0 /\ cache = [k \in {} |-> 0]
  /\ authPc = [x \in Caller |-> "none"] /\ apiKey = [x \in Caller |-> None]
  /\ answered = [x \in Caller |-> 0] /\ recent = [x \in Caller |-> FALSE]
  /\ confirmed = [k \in ApiKey |-> 0]

----------------------------------------------------------------------------
\* time.Now().After(exp)
Expired(k) == now > cache[k]

Remembers(k) == k \in DOMAIN cache /\ ~Expired(k)

\* The controlplane confirmed k no longer ago than the TTL and one answer.
Recent(k) == now - confirmed[k] <= TTL + Timeout

Restricted(keys) == [k \in keys |-> cache[k]]

Hit_Renewed(k) == [cache EXCEPT ![k] = now + TTL]
\* A look-up that succeeds leaves the expiry alone.
Hit(k) == cache

NoBearer_Unchecked(k) == FALSE
\* `if bearer == ""`
NoBearer(k) == k = None

\* AuthorizeSession up to the answer of the cache, which drops a stale entry.
Authorize(x, k) ==
  /\ authPc[x] = "none"
  /\ apiKey' = [apiKey EXCEPT ![x] = k]
  /\ \/ /\ NoBearer(k)
        /\ authPc' = [authPc EXCEPT ![x] = "refused"]
        /\ UNCHANGED <<cache, recent>>
     \/ /\ Remembers(k)
        /\ cache' = Hit(k)
        /\ authPc' = [authPc EXCEPT ![x] = "accepted"]
        /\ recent' = [recent EXCEPT ![x] = Recent(k)]
     \/ /\ ~NoBearer(k) /\ ~Remembers(k)
        /\ cache' = Restricted(DOMAIN cache \ {k})
        /\ authPc' = [authPc EXCEPT ![x] = "validate"]
        /\ UNCHANGED recent
  /\ UNCHANGED <<now, answered, confirmed>>

\* The controlplane answers 200; or anything else, or nothing in time.
ValidateKey(x) ==
  /\ authPc[x] = "validate"
  /\ \/ /\ authPc' = [authPc EXCEPT ![x] = "store"]
        /\ answered' = [answered EXCEPT ![x] = now]
        /\ confirmed' = [confirmed EXCEPT ![apiKey[x]] = now]
     \/ /\ authPc' = [authPc EXCEPT ![x] = "refused"]
        /\ UNCHANGED <<answered, confirmed>>
  /\ UNCHANGED <<now, cache, apiKey, recent>>

\* What a full cache keeps: the entries that are not expired.
Fresh ==
  IF Cardinality(DOMAIN cache) >= MaxEntries
  THEN {k \in DOMAIN cache : ~Expired(k)}
  ELSE DOMAIN cache

MakesRoom_SweepOnly(kept) == kept = Fresh
\* If the sweep was not enough, entries go in any order (of a Go map).
MakesRoom(kept) ==
  IF Cardinality(Fresh) < MaxEntries THEN kept = Fresh
  ELSE Cardinality(kept) = MaxEntries - 1

\* The answer has arrived.
AuthCacheStore(x) ==
  /\ authPc[x] = "store"
  /\ \E kept \in SUBSET Fresh :
       /\ MakesRoom(kept)
       /\ cache' = [k \in kept \cup {apiKey[x]} |->
                      IF k = apiKey[x] THEN now + TTL ELSE cache[k]]
  /\ authPc' = [authPc EXCEPT ![x] = "accepted"]
  /\ recent' = [recent EXCEPT ![x] = Recent(apiKey[x])]
  /\ answered' = [answered EXCEPT ![x] = 0]
  /\ UNCHANGED <<now, apiKey, confirmed>>

\* The request ends.
AuthDone(x) ==
  /\ authPc[x] \in {"accepted", "refused"}
  /\ authPc' = [authPc EXCEPT ![x] = "none"]
  /\ apiKey' = [apiKey EXCEPT ![x] = None]
  /\ recent' = [recent EXCEPT ![x] = FALSE]
  /\ UNCHANGED <<now, cache, answered, confirmed>>

\* An answer on its way is not older than the client's timeout.
Tick ==
  /\ now < Horizon
  /\ \A x \in Caller : authPc[x] = "store" => now < answered[x] + Timeout
  /\ now' = now + 1
  /\ UNCHANGED <<cache, authPc, apiKey, answered, confirmed, recent>>

AuthNext ==
  \/ Tick
  \/ \E x \in Caller :
       \/ \E k \in ApiKey \cup {None} : Authorize(x, k)
       \/ ValidateKey(x) \/ AuthCacheStore(x) \/ AuthDone(x)

AuthSpec == AuthInit /\ [][AuthNext]_authVars

----------------------------------------------------------------------------
(* Safety.                                                                 *)

AuthTypeOK ==
  /\ now \in Nat
  /\ DOMAIN cache \subseteq ApiKey /\ cache \in [DOMAIN cache -> Nat]
  /\ authPc \in [Caller -> AuthPc] /\ apiKey \in [Caller -> ApiKey \cup {None}]
  /\ \A x \in Caller : authPc[x] \in {"validate", "store"} => apiKey[x] \in ApiKey
  /\ answered \in [Caller -> Nat] /\ recent \in [Caller -> BOOLEAN]
  /\ confirmed \in [ApiKey -> Nat]

\* The cache never holds more than authCacheMaxEntries keys, however many
\* requests validate theirs at once (authCacheStore makes room before it adds).
CacheBounded == Cardinality(DOMAIN cache) <= MaxEntries

\* A key that the controlplane no longer confirms is refused after the TTL and
\* the time of one answer, however often it is used and however its answers
\* overtake each other ("Bounds how long a positive validate-key response is
\* reused", controlplane.go).
RevocationIsBounded ==
  \A x \in Caller : authPc[x] = "accepted" => recent[x]
=============================================================================
