------------------------------ MODULE KeyRefresh ------------------------------
(***************************************************************************)
(* How the API gets at the issuer's signing keys when requests validate    *)
(* their tokens concurrently: the key cache, the refresh under one lock,   *)
(* and the cooldown in which its last outcome is shared.                   *)
(*                                                                         *)
(* Time passes in ticks; ages are counted up to Gap, beyond which the code *)
(* does not distinguish them.  A token stands for the key it names, its    *)
(* signature and claims being right.  The issuer may refuse a fetch or be  *)
(* slow to answer it.                                                      *)
(***************************************************************************)
EXTENDS Naturals

CONSTANTS Requests,      \* bound: requests validated
          NoRequest,     \* holder of a free lock
          SigningKeys,   \* bound: key identifiers in tokens
          IssuerKeys,    \* those of keys the issuer publishes at times
          Gap,           \* unknownKeyRefreshGap, in ticks
          FetchTimeout   \* keyFetchTimeout, in ticks

ASSUME TimesAssumption ==
  Gap \in Nat /\ FetchTimeout \in Nat \ {0} /\ FetchTimeout < Gap

ASSUME KeysAssumption == IssuerKeys \subseteq SigningKeys

ASSUME NoRequestAssumption == NoRequest \notin Requests

VARIABLES
  published, keyAge,   \* what the issuer publishes, and since when
  issuerFailed,        \* the issuer failed a fetch, by itself or for all of its time
  cache,               \* jwk.Cache, {} when it is not ready
  refreshMu,           \* holder of the lock
  age,                 \* time since lastRefresh, Gap if there was none
  lastRefreshErr, lastKeys,
  sinceUnknown,        \* time since the last refresh for an unknown key
  phase, kid,          \* a request and the key its token names
  left,                \* the time its fetch context has left
  response,            \* the issuer's response to the fetch: keys, or a refusal
  gone                 \* requests whose client left, which ends their context

issuer == <<published, keyAge, issuerFailed>>
refresh == <<refreshMu, age, lastRefreshErr, lastKeys, sinceUnknown>>
request == <<phase, kid, left, response, gone>>
vars == <<issuer, cache, refresh, request>>

Fetching == {"fetchKeys", "fetchUnknown"}
Waiting == {"lookup", "lockKeys", "lockUnknown"} \cup Fetching
Answers == {"accepted", "unknown_key", "unavailable"}
Nothing == [keys |-> {}, arrived |-> FALSE, refused |-> FALSE]

TypeOK ==
  /\ published \subseteq IssuerKeys
  /\ keyAge \in [IssuerKeys -> 0..Gap]
  /\ issuerFailed \in BOOLEAN
  /\ cache \subseteq IssuerKeys
  /\ refreshMu \in Requests \cup {NoRequest}
  /\ age \in 0..Gap
  /\ lastRefreshErr \in BOOLEAN /\ lastKeys \subseteq IssuerKeys
  /\ sinceUnknown \in 0..Gap
  /\ phase \in [Requests -> {"new", "left"} \cup Waiting \cup Answers]
  /\ kid \in [Requests -> SigningKeys]
  /\ left \in [Requests -> 0..FetchTimeout]
  /\ response \in [keys : SUBSET IssuerKeys, arrived : BOOLEAN, refused : BOOLEAN]
  /\ gone \subseteq Requests

Init ==
  /\ published \in SUBSET IssuerKeys
  /\ keyAge = [k \in IssuerKeys |-> Gap]
  /\ issuerFailed = FALSE
  /\ cache = {}
  /\ refreshMu = NoRequest /\ age = Gap /\ lastRefreshErr = FALSE /\ lastKeys = {}
  /\ sinceUnknown = Gap
  /\ phase = [r \in Requests |-> "new"]
  /\ kid \in [Requests -> SigningKeys]
  /\ left = [r \in Requests |-> 0]
  /\ response = Nothing
  /\ gone = {}

-------------------------------------------------------------------------------
(* The issuer, the clock and the clients *)

Publish(k) ==
  /\ k \notin published
  /\ published' = published \cup {k}
  /\ keyAge' = [keyAge EXCEPT ![k] = 0]
  /\ UNCHANGED <<issuerFailed, cache, refresh, request>>

Withdraw(k) ==
  /\ published' = published \ {k}
  /\ UNCHANGED <<keyAge, issuerFailed, cache, refresh, request>>

(* The cache fetches in the background on its own schedule, first when the *)
(* API starts.                                                             *)
BackgroundFetch ==
  /\ cache' = published
  /\ UNCHANGED <<issuer, refresh, request>>

(* No fetch outlives its context.  One that has waited for the issuer for  *)
(* the whole of the timeout, its client being there, is a failed one.      *)
Tick ==
  LET Older(a) == IF a < Gap THEN a + 1 ELSE Gap IN
  /\ \A r \in Requests : phase[r] \in Fetching => left[r] > 0
  /\ age' = Older(age)
  /\ sinceUnknown' = Older(sinceUnknown)
  /\ keyAge' = [k \in IssuerKeys |-> Older(keyAge[k])]
  /\ left' = [r \in Requests |-> IF left[r] > 0 THEN left[r] - 1 ELSE 0]
  /\ issuerFailed' = (issuerFailed \/ \E r \in Requests \ gone :
                                        phase[r] \in Fetching /\ age + 1 >= FetchTimeout)
  /\ UNCHANGED <<published, cache, refreshMu, lastRefreshErr, lastKeys,
                 phase, kid, response, gone>>

ClientLeaves(r) ==
  /\ phase[r] \in Waiting
  /\ gone' = gone \cup {r}
  /\ UNCHANGED <<issuer, cache, refresh, phase, kid, left, response>>

AwaitsIssuer(r) ==
  /\ phase[r] \in Fetching /\ response = Nothing
  /\ left[r] > 0 /\ r \notin gone

(* The issuer answers with what it publishes now; the answer takes time.   *)
(* One without any key is of no use.                                       *)
IssuerAnswers(r) ==
  /\ AwaitsIssuer(r)
  /\ response' = [keys |-> published, arrived |-> TRUE, refused |-> FALSE]
  /\ issuerFailed' = (issuerFailed \/ published = {})
  /\ UNCHANGED <<published, keyAge, cache, refresh, phase, kid, left, gone>>

(* The issuer cannot be reached or answers with an error. *)
IssuerRefuses(r) ==
  /\ AwaitsIssuer(r)
  /\ response' = [keys |-> {}, arrived |-> FALSE, refused |-> TRUE]
  /\ issuerFailed' = TRUE
  /\ UNCHANGED <<published, keyAge, cache, refresh, phase, kid, left, gone>>

-------------------------------------------------------------------------------
(* Validate *)

Start(r) ==
  /\ phase[r] = "new"
  /\ phase' = [phase EXCEPT ![r] = "lookup"]
  /\ UNCHANGED <<issuer, cache, refresh, kid, left, response, gone>>

Goto(r, p) == phase' = [phase EXCEPT ![r] = p] /\ UNCHANGED gone

(* An answer, if the client is there to get it. *)
Answer(r, o) ==
  /\ phase' = [phase EXCEPT ![r] = IF r \in gone THEN "left" ELSE o]
  /\ gone' = gone \ {r}

Judge(r, keys) == Answer(r, IF kid[r] \in keys THEN "accepted" ELSE "unknown_key")

(* A key that is not found is unknown only to refreshForUnknownKey. *)
FindIn(r, keys) == IF kid[r] \in keys THEN Answer(r, "accepted") ELSE Goto(r, "lockUnknown")

StartTimeout(r, t) == left' = [left EXCEPT ![r] = t]

(* A variant of Lookup that mixes up the two durations. *)
LookupForGap(r) ==
  /\ phase[r] = "lookup"
  /\ \/ cache # {} /\ FindIn(r, cache) /\ UNCHANGED left
     \/ (cache = {} \/ r \in gone) /\ Goto(r, "lockKeys") /\ StartTimeout(r, Gap)
  /\ UNCHANGED <<issuer, cache, refresh, kid, response>>

(* keys: the cached keys, if there are any and the context is good; or a   *)
(* refresh, whose time includes the wait for the lock.                     *)
Lookup(r) ==
  /\ phase[r] = "lookup"
  /\ \/ cache # {} /\ FindIn(r, cache) /\ UNCHANGED left
     \/ (cache = {} \/ r \in gone) /\ Goto(r, "lockKeys") /\ StartTimeout(r, FetchTimeout)
  /\ UNCHANGED <<issuer, cache, refresh, kid, response>>

(* refreshLocked up to the fetch. *)
BeginFetch(r, p) ==
  /\ refreshMu' = r
  /\ age' = 0
  /\ Goto(r, p)
  /\ UNCHANGED <<lastRefreshErr, lastKeys>>

Refresh(r) ==
  /\ phase[r] = "lockKeys" /\ refreshMu = NoRequest
  /\ BeginFetch(r, "fetchKeys")
  /\ UNCHANGED <<issuer, cache, sinceUnknown, kid, left, response>>

(* A variant of Cooldown that judges with the last keys it has. *)
CooldownForgetful(r) == Judge(r, lastKeys) /\ UNCHANGED <<refresh, left>>

(* Within the cooldown the previous outcome is reused. *)
Cooldown(r) ==
  /\ IF lastRefreshErr THEN Answer(r, "unavailable") ELSE Judge(r, lastKeys)
  /\ UNCHANGED <<refresh, left>>

RefreshForUnknownKey(r) ==
  /\ phase[r] = "lockUnknown" /\ refreshMu = NoRequest
  /\ IF age < Gap
     THEN Cooldown(r)
     ELSE /\ BeginFetch(r, "fetchUnknown")
          /\ sinceUnknown' = 0
          /\ StartTimeout(r, FetchTimeout)
  /\ UNCHANGED <<issuer, cache, kid, response>>

EndFetch(r) == refreshMu' = NoRequest /\ response' = Nothing /\ StartTimeout(r, 0)

FetchSucceeds(r) ==
  /\ phase[r] \in Fetching
  /\ response.arrived /\ response.keys # {}
  /\ cache' = response.keys
  /\ lastRefreshErr' = FALSE /\ lastKeys' = response.keys
  /\ \/ phase[r] = "fetchKeys" /\ FindIn(r, response.keys)
     \/ phase[r] = "fetchUnknown" /\ Judge(r, response.keys)
  /\ EndFetch(r)
  /\ UNCHANGED <<issuer, age, sinceUnknown, kid>>

(* The issuer refuses or has no key; or the context has ended, because the *)
(* client left or its time is up, some of which may have gone by in the    *)
(* wait for the lock.                                                      *)
FetchIsLost(r) ==
  \/ response.refused
  \/ response.arrived /\ response.keys = {}
  \/ r \in gone
  \/ left[r] = 0

(* A variant of FetchFails that counts successful refreshes only. *)
FetchFailsUncounted(r) ==
  /\ phase[r] \in Fetching /\ FetchIsLost(r)
  /\ cache' = IF response.arrived /\ response.keys = {} THEN {} ELSE cache
  /\ lastRefreshErr' = TRUE /\ age' = Gap
  /\ Answer(r, "unavailable")
  /\ EndFetch(r)
  /\ UNCHANGED <<issuer, lastKeys, sinceUnknown, kid>>

(* Whatever the reason, it is recorded.  A response without any key is     *)
(* kept by the cache.                                                      *)
FetchFails(r) ==
  /\ phase[r] \in Fetching /\ FetchIsLost(r)
  /\ cache' = IF response.arrived /\ response.keys = {} THEN {} ELSE cache
  /\ lastRefreshErr' = TRUE
  /\ Answer(r, "unavailable")
  /\ EndFetch(r)
  /\ UNCHANGED <<issuer, lastKeys, age, sinceUnknown, kid>>

-------------------------------------------------------------------------------
Validate(r) ==
  Lookup(r) \/ Refresh(r) \/ RefreshForUnknownKey(r) \/ FetchSucceeds(r) \/ FetchFails(r)

Environment ==
  \/ \E k \in IssuerKeys : Publish(k) \/ Withdraw(k)
  \/ BackgroundFetch \/ Tick
  \/ \E r \in Requests : ClientLeaves(r) \/ IssuerAnswers(r) \/ IssuerRefuses(r)

Next == Environment \/ \E r \in Requests : Start(r) \/ Validate(r)

Spec == Init /\ [][Next]_vars

-------------------------------------------------------------------------------
(* Properties *)

Answered(r, o) == phase[r] # o /\ phase'[r] = o

(* A token is rejected for its key only if the issuer did not publish that *)
(* key for the whole of the last cooldown: no failed refresh, no client    *)
(* that left, no older outcome and no delayed response makes a request     *)
(* reject a key that has been there for so long.                           *)
RejectionIsFresh ==
  [][\A r \in Requests :
       Answered(r, "unknown_key") => ~(kid[r] \in published /\ keyAge[kid[r]] >= Gap)]_vars

(* However many requests with unknown keys come at once, and whatever      *)
(* becomes of the refresh, they cause one fetch per cooldown.              *)
UnknownKeysShareRefresh ==
  [][\A r \in Requests :
       Answered(r, "fetchUnknown") =>
         sinceUnknown >= Gap /\ \A s \in Requests : phase[s] \notin Fetching]_vars

(* "API answers 503 authentication_unavailable: the API cannot fetch       *)
(* Keycloak's signing keys": the answer is given only after the issuer     *)
(* refused a fetch, had no key for it or let it wait for the whole of its  *)
(* timeout.                                                                *)
UnavailableMeansIssuerFailed ==
  \A r \in Requests : phase[r] = "unavailable" => issuerFailed
===============================================================================
