--------------------------- MODULE KeyRefreshProofs ---------------------------
(***************************************************************************)
(* No token is rejected for a key that has been published for a cooldown,  *)
(* and unknown keys cause one fetch per cooldown, for any number of        *)
(* requests and keys and any timeout below the cooldown.                   *)
(***************************************************************************)
EXTENDS KeyRefresh, TLAPS

(* A fetch has the lock, and ends before the cooldown that its start began.*)
LockInv ==
  /\ \A r \in Requests : phase[r] \in Fetching => refreshMu = r /\ age + left[r] <= FetchTimeout
  /\ response.arrived = TRUE => refreshMu # NoRequest
  /\ age <= sinceUnknown

(* A key that is older than the last refresh is in what the refresh saw.   *)
FreshInv ==
  \A k \in published : keyAge[k] > age =>
    /\ response.arrived = TRUE => k \in response.keys
    /\ refreshMu = NoRequest /\ lastRefreshErr = FALSE /\ age < Gap => k \in lastKeys

KeyInv == TypeOK /\ LockInv /\ FreshInv

-------------------------------------------------------------------------------
(* The clock *)

Older(a) == IF a < Gap THEN a + 1 ELSE Gap

LEMMA OlderProperties ==
  /\ \A a \in 0..Gap : Older(a) \in 0..Gap
  /\ \A a, b \in 0..Gap : a <= b => Older(a) <= Older(b)
  /\ \A a, b \in 0..Gap : Older(a) > Older(b) => a > b
  /\ \A a \in 0..Gap : Older(a) < Gap => a < Gap
  /\ \A a \in 0..Gap : Older(a) <= a + 1
BY TimesAssumption DEF Older

LEMMA TickStep ==
  ASSUME KeyInv, Tick
  PROVE  KeyInv'
<1> USE DEF KeyInv
<1>1. /\ \A r \in Requests : phase[r] \in Fetching => left[r] > 0
      /\ age' = Older(age) /\ sinceUnknown' = Older(sinceUnknown)
      /\ keyAge' = [k \in IssuerKeys |-> Older(keyAge[k])]
      /\ left' = [r \in Requests |-> IF left[r] > 0 THEN left[r] - 1 ELSE 0]
      /\ UNCHANGED <<published, cache, refreshMu, lastRefreshErr, lastKeys,
                     phase, kid, response, gone>>
  BY DEF Tick, Older
<1>2. age \in 0..Gap /\ sinceUnknown \in 0..Gap /\ \A k \in IssuerKeys : keyAge[k] \in 0..Gap
  BY DEF TypeOK
<1>3. TypeOK'
  <2>1. age' \in 0..Gap /\ sinceUnknown' \in 0..Gap /\ keyAge' \in [IssuerKeys -> 0..Gap]
    BY <1>1, <1>2, OlderProperties
  <2>2. left' \in [Requests -> 0..FetchTimeout]
    BY <1>1, TimesAssumption DEF TypeOK
  <2>3. issuerFailed' \in BOOLEAN
    BY Zenon DEF Tick
  <2> QED
    BY <1>1, <2>1, <2>2, <2>3 DEF TypeOK
<1>4. LockInv'
  <2>1. ASSUME NEW r \in Requests, phase[r] \in Fetching
        PROVE  age' + left'[r] <= FetchTimeout
    <3>1. /\ age' <= age + 1 /\ age' \in Nat /\ age \in Nat
          /\ left[r] \in Nat /\ left[r] > 0 /\ left'[r] = left[r] - 1
          /\ age + left[r] <= FetchTimeout
      BY <1>1, <1>2, <2>1, OlderProperties, TimesAssumption DEF TypeOK, LockInv
    <3> QED
      BY <3>1, TimesAssumption
  <2>2. age' <= sinceUnknown'
    BY <1>1, <1>2, OlderProperties DEF LockInv
  <2> QED
    BY <1>1, <2>1, <2>2 DEF LockInv
<1>5. FreshInv'
  <2>1. ASSUME NEW k \in published, keyAge'[k] > age' PROVE keyAge[k] > age
    BY <1>1, <1>2, <2>1, OlderProperties DEF TypeOK
  <2>2. age' < Gap => age < Gap
    BY <1>1, <1>2, OlderProperties
  <2> QED
    BY <1>1, <2>1, <2>2 DEF FreshInv
<1> QED
  BY <1>3, <1>4, <1>5

-------------------------------------------------------------------------------
(* The issuer and the clients *)

LEMMA EnvironmentStep ==
  ASSUME KeyInv, Environment
  PROVE  KeyInv'
<1> USE DEF KeyInv, issuer, refresh, request
<1>1. ASSUME NEW k \in IssuerKeys, Publish(k) PROVE KeyInv'
  <2>1. /\ published' = published \cup {k} /\ keyAge' = [keyAge EXCEPT ![k] = 0]
        /\ UNCHANGED <<issuerFailed, cache, refresh, request>>
    BY <1>1 DEF Publish
  <2>2. TypeOK' /\ LockInv'
    BY <2>1, TimesAssumption DEF TypeOK, LockInv
  <2>3. age \in Nat
    BY TimesAssumption DEF TypeOK
  <2>4. FreshInv'
    BY <2>1, <2>3 DEF FreshInv, TypeOK
  <2> QED
    BY <2>2, <2>4
<1>2. ASSUME NEW k \in IssuerKeys, Withdraw(k) PROVE KeyInv'
  BY <1>2 DEF Withdraw, TypeOK, LockInv, FreshInv
<1>3. CASE BackgroundFetch
  BY <1>3 DEF BackgroundFetch, TypeOK, LockInv, FreshInv
<1>4. ASSUME NEW r \in Requests, ClientLeaves(r) PROVE KeyInv'
  BY <1>4 DEF ClientLeaves, TypeOK, LockInv, FreshInv
<1>5. ASSUME NEW r \in Requests, IssuerAnswers(r) \/ IssuerRefuses(r) PROVE KeyInv'
  <2>1. /\ phase[r] \in Fetching
        /\ \/ response' = [keys |-> published, arrived |-> TRUE, refused |-> FALSE]
           \/ response' = [keys |-> {}, arrived |-> FALSE, refused |-> TRUE]
        /\ UNCHANGED <<published, keyAge, cache, refresh, phase, kid, left, gone>>
    BY <1>5 DEF IssuerAnswers, IssuerRefuses, AwaitsIssuer
  <2>2. issuerFailed' \in BOOLEAN
    BY <1>5, Zenon DEF IssuerAnswers, IssuerRefuses
  <2>3. refreshMu # NoRequest
    BY <2>1, NoRequestAssumption DEF LockInv
  <2>4. response' \in [keys : SUBSET IssuerKeys, arrived : BOOLEAN, refused : BOOLEAN]
    <3>1. published \in SUBSET IssuerKeys
      BY DEF TypeOK
    <3>2. CASE response' = [keys |-> published, arrived |-> TRUE, refused |-> FALSE]
      BY <3>1, <3>2, Zenon
    <3>3. CASE response' = [keys |-> {}, arrived |-> FALSE, refused |-> TRUE]
      BY <3>3
    <3> QED
      BY <2>1, <3>2, <3>3
  <2>5. TypeOK'
    BY <2>1, <2>2, <2>4, Zenon DEF TypeOK, refresh
  <2> QED
    BY <2>1, <2>3, <2>5 DEF TypeOK, LockInv, FreshInv
<1> QED
  BY <1>1, <1>2, <1>3, <1>4, <1>5, TickStep DEF Environment

-------------------------------------------------------------------------------
(* The steps of one request concern its own phase, time and client. *)

LEMMA AnswerTypes ==
  ASSUME TypeOK, NEW r \in Requests,
         \/ \E o \in Answers : Answer(r, o)
         \/ \E p \in {"lookup", "lockKeys", "lockUnknown"} : Goto(r, p)
  PROVE  /\ phase' \in [Requests -> {"new", "left"} \cup Waiting \cup Answers]
         /\ gone' \subseteq Requests
         /\ phase'[r] \notin Fetching
         /\ \A s \in Requests : s # r => phase'[s] = phase[s]
<1>1. PICK p \in {"left", "lookup", "lockKeys", "lockUnknown"} \cup Answers :
        phase' = [phase EXCEPT ![r] = p] /\ gone' \subseteq gone
  BY DEF Answer, Goto
<1> QED
  BY <1>1 DEF TypeOK, Waiting, Answers, Fetching

LEMMA LookupStep ==
  ASSUME KeyInv, NEW r \in Requests, Start(r) \/ Lookup(r)
  PROVE  KeyInv'
<1> USE DEF KeyInv
<1>1. /\ UNCHANGED <<issuer, cache, refresh, kid, response>>
      /\ \/ \E o \in Answers : Answer(r, o)
         \/ \E p \in {"lookup", "lockKeys", "lockUnknown"} : Goto(r, p)
      /\ left' = left \/ left' = [left EXCEPT ![r] = FetchTimeout]
  BY DEF Start, Lookup, FindIn, Goto, StartTimeout, Answers
<1>2. /\ phase' \in [Requests -> {"new", "left"} \cup Waiting \cup Answers]
      /\ gone' \subseteq Requests
      /\ phase'[r] \notin Fetching
      /\ \A s \in Requests : s # r => phase'[s] = phase[s]
  BY <1>1, AnswerTypes
<1>3. /\ left' \in [Requests -> 0..FetchTimeout]
      /\ \A s \in Requests : s # r => left'[s] = left[s]
  BY <1>1, TimesAssumption DEF TypeOK
<1>4. TypeOK'
  BY <1>1, <1>2, <1>3 DEF TypeOK, issuer, refresh
<1>5. LockInv' /\ FreshInv'
  BY <1>1, <1>2, <1>3 DEF LockInv, FreshInv, issuer, refresh
<1> QED
  BY <1>4, <1>5

(* Whoever has waited for the lock finds nobody fetching. *)
LEMMA NobodyFetches ==
  ASSUME KeyInv, refreshMu = NoRequest
  PROVE  /\ \A s \in Requests : phase[s] \notin Fetching
         /\ response.arrived # TRUE
BY NoRequestAssumption DEF KeyInv, LockInv

LEMMA BeginStep ==
  ASSUME KeyInv, NEW r \in Requests, NEW p \in Fetching, refreshMu = NoRequest, BeginFetch(r, p),
         UNCHANGED <<issuer, cache, kid, response>>,
         sinceUnknown' \in {sinceUnknown, 0},
         left' = left \/ left' = [left EXCEPT ![r] = FetchTimeout]
  PROVE  KeyInv'
<1> USE DEF KeyInv, issuer
<1>1. /\ refreshMu' = r /\ age' = 0 /\ phase' = [phase EXCEPT ![r] = p]
      /\ UNCHANGED <<lastRefreshErr, lastKeys, gone>>
  BY DEF BeginFetch, Goto
<1>2. left' \in [Requests -> 0..FetchTimeout] /\ sinceUnknown' \in 0..Gap
  BY TimesAssumption DEF TypeOK
<1>3. TypeOK'
  <2>1. phase' \in [Requests -> {"new", "left"} \cup Waiting \cup Answers] /\ age' \in 0..Gap
    BY <1>1, TimesAssumption DEF TypeOK, Waiting
  <2> QED
    BY <1>1, <1>2, <2>1 DEF TypeOK
<1>4. LockInv'
  <2>1. \A s \in Requests : phase'[s] \in Fetching => s = r
    BY <1>1, NobodyFetches DEF TypeOK
  <2>2. age' + left'[r] <= FetchTimeout /\ age' <= sinceUnknown'
    BY <1>1, <1>2, TimesAssumption
  <2> QED
    BY <1>1, <2>1, <2>2, NoRequestAssumption DEF LockInv
<1>5. FreshInv'
  BY <1>1, NobodyFetches, NoRequestAssumption DEF FreshInv
<1> QED
  BY <1>3, <1>4, <1>5

LEMMA CooldownStep ==
  ASSUME KeyInv, NEW r \in Requests, Cooldown(r), UNCHANGED <<issuer, cache, kid, response>>
  PROVE  KeyInv'
<1> USE DEF KeyInv
<1>1. \E o \in Answers : Answer(r, o)
  BY DEF Cooldown, Judge, Answers
<1>2. UNCHANGED <<refresh, left>>
  BY DEF Cooldown
<1>3. /\ phase' \in [Requests -> {"new", "left"} \cup Waiting \cup Answers]
      /\ gone' \subseteq Requests
      /\ phase'[r] \notin Fetching
      /\ \A s \in Requests : s # r => phase'[s] = phase[s]
  BY <1>1, AnswerTypes
<1>4. TypeOK' /\ LockInv' /\ FreshInv'
  BY <1>2, <1>3 DEF TypeOK, LockInv, FreshInv, issuer, refresh
<1> QED
  BY <1>4

LEMMA EndStep ==
  ASSUME KeyInv, NEW r \in Requests, FetchSucceeds(r) \/ FetchFails(r)
  PROVE  KeyInv'
<1> USE DEF KeyInv
<1>1. /\ phase[r] \in Fetching /\ refreshMu' = NoRequest /\ response' = Nothing
      /\ left' = [left EXCEPT ![r] = 0]
      /\ UNCHANGED <<published, keyAge, age, sinceUnknown, kid>>
  BY DEF FetchSucceeds, FetchFails, EndFetch, StartTimeout, issuer
<1>2. \/ \E o \in Answers : Answer(r, o)
      \/ \E p \in {"lookup", "lockKeys", "lockUnknown"} : Goto(r, p)
  BY DEF FetchSucceeds, FetchFails, FindIn, Judge, Answers
<1>3. /\ phase' \in [Requests -> {"new", "left"} \cup Waiting \cup Answers]
      /\ gone' \subseteq Requests
      /\ phase'[r] \notin Fetching
      /\ \A s \in Requests : s # r => phase'[s] = phase[s]
  BY <1>2, AnswerTypes
<1>4. \/ lastRefreshErr' = TRUE /\ lastKeys' = lastKeys
      \/ lastRefreshErr' = FALSE /\ response.arrived = TRUE /\ lastKeys' = response.keys
  BY DEF FetchSucceeds, FetchFails, TypeOK
<1>5. issuerFailed' \in BOOLEAN /\ cache' \subseteq IssuerKeys
  BY DEF FetchSucceeds, FetchFails, TypeOK, issuer
<1>6. TypeOK'
  <2>1. lastKeys' \subseteq IssuerKeys /\ lastRefreshErr' \in BOOLEAN
    BY <1>4 DEF TypeOK
  <2>2. left' \in [Requests -> 0..FetchTimeout] /\ response' \in [keys : SUBSET IssuerKeys, arrived : BOOLEAN, refused : BOOLEAN]
    BY <1>1, TimesAssumption DEF TypeOK, Nothing
  <2> QED
    BY <1>1, <1>3, <1>5, <2>1, <2>2 DEF TypeOK
<1>7. LockInv'
  <2>1. \A s \in Requests : s # r => phase[s] \notin Fetching
    BY <1>1 DEF LockInv
  <2>2. response'.arrived = FALSE
    BY <1>1 DEF Nothing
  <2> QED
    BY <1>1, <1>3, <2>1, <2>2 DEF LockInv
<1>8. FreshInv'
  <2>1. response'.arrived = FALSE
    BY <1>1 DEF Nothing
  <2> QED
    BY <1>1, <1>4, <2>1 DEF FreshInv
<1> QED
  BY <1>6, <1>7, <1>8

-------------------------------------------------------------------------------
LEMMA KeyInit == Init => KeyInv
<1> SUFFICES ASSUME Init PROVE KeyInv
  OBVIOUS
<1>1. TypeOK
  <2>1. issuerFailed \in BOOLEAN /\ lastRefreshErr \in BOOLEAN
    BY Zenon DEF Init
  <2> QED
    BY <2>1, TimesAssumption DEF Init, TypeOK, Nothing
<1>2. LockInv /\ FreshInv
  BY TimesAssumption DEF Init, LockInv, FreshInv, Nothing, Fetching
<1> QED
  BY <1>1, <1>2 DEF KeyInv

LEMMA KeyNext == KeyInv /\ [Next]_vars => KeyInv'
<1> SUFFICES ASSUME KeyInv, [Next]_vars PROVE KeyInv'
  OBVIOUS
<1>1. CASE UNCHANGED vars
  BY <1>1 DEF vars, issuer, refresh, request, KeyInv, TypeOK, LockInv, FreshInv
<1>2. ASSUME NEW r \in Requests, Refresh(r) PROVE KeyInv'
  BY <1>2, BeginStep DEF Refresh, Fetching
<1>3. ASSUME NEW r \in Requests, RefreshForUnknownKey(r) PROVE KeyInv'
  BY <1>3, BeginStep, CooldownStep DEF RefreshForUnknownKey, StartTimeout, Fetching
<1> QED
  BY <1>1, <1>2, <1>3, EnvironmentStep, LookupStep, EndStep DEF Next, Validate

(* The lock, the timeout below the cooldown, and that whatever is older    *)
(* than the last refresh was seen by it, in every reachable state.         *)
THEOREM KeyInvariant == Spec => []KeyInv
  BY KeyInit, KeyNext, PTL DEF Spec

(* Cache, recorded refresh and requests have their types: neither the      *)
(* cache nor a recorded refresh holds a key the issuer does not have, and  *)
(* no context has more time left than the fetch timeout.                   *)
THEOREM KeyTypes == Spec => []TypeOK
<1>1. KeyInv => TypeOK
  BY DEF KeyInv
<1> QED
  BY <1>1, KeyInvariant, PTL

(* Only a request's own steps change its phase. *)
LEMMA OwnSteps ==
  ASSUME TypeOK, [Next]_vars, NEW r \in Requests, phase'[r] # phase[r]
  PROVE  Start(r) \/ Validate(r)
<1>1. ASSUME NEW s \in Requests, s # r, Start(s) \/ Validate(s) PROVE phase'[r] = phase[r]
  BY <1>1 DEF Start, Validate, Lookup, FindIn, Refresh, RefreshForUnknownKey, BeginFetch, Cooldown,
     FetchSucceeds, FetchFails, Judge, Goto, Answer, TypeOK
<1>2. CASE Environment \/ UNCHANGED vars
  BY <1>2 DEF Environment, Publish, Withdraw, BackgroundFetch, Tick, ClientLeaves, IssuerAnswers,
     IssuerRefuses, vars, request
<1> QED
  BY <1>1, <1>2 DEF Next

LEMMA NextPhase ==
  ASSUME TypeOK, NEW r \in Requests
  PROVE  /\ \A o : Answer(r, o) => phase'[r] \in {"left", o}
         /\ \A p : Goto(r, p) => phase'[r] = p
BY DEF TypeOK, Answer, Goto

(* Which step a request gets to a phase by. *)
LEMMA StepsTo ==
  ASSUME TypeOK, NEW r \in Requests, Start(r) \/ Validate(r)
  PROVE  /\ phase'[r] = "unknown_key" =>
              \/ /\ refreshMu = NoRequest /\ age < Gap /\ ~lastRefreshErr
                 /\ kid[r] \notin lastKeys
              \/ /\ phase[r] \in Fetching /\ response.arrived
                 /\ kid[r] \notin response.keys
         /\ phase'[r] = "fetchUnknown" => refreshMu = NoRequest /\ ~(age < Gap)
<1> DEFINE o == phase'[r]
<1> USE NextPhase
<1>1. CASE Start(r)
  <2>1. o = "lookup"
    BY <1>1 DEF Start, TypeOK
  <2> QED
    BY <2>1
<1>2. CASE Lookup(r)
  <2>1. o \in {"left", "accepted", "lockUnknown", "lockKeys"}
    BY <1>2 DEF Lookup, FindIn
  <2> QED
    BY <2>1
<1>3. CASE Refresh(r)
  <2>1. o = "fetchKeys"
    BY <1>3 DEF Refresh, BeginFetch
  <2> QED
    BY <2>1
<1>4. CASE RefreshForUnknownKey(r)
  <2>1. CASE age < Gap
    <3>1. Cooldown(r) /\ refreshMu = NoRequest
      BY <1>4, <2>1 DEF RefreshForUnknownKey
    <3>2. o \in {"left", "unavailable"} \/ (~lastRefreshErr /\ Judge(r, lastKeys))
      BY <3>1 DEF Cooldown
    <3>3. Judge(r, lastKeys) => o \in {"left", "accepted"} \/ (o \in {"left", "unknown_key"} /\ kid[r] \notin lastKeys)
      BY DEF Judge
    <3> QED
      BY <2>1, <3>1, <3>2, <3>3
  <2>2. CASE ~(age < Gap)
    <3>1. o = "fetchUnknown" /\ refreshMu = NoRequest
      BY <1>4, <2>2 DEF RefreshForUnknownKey, BeginFetch
    <3> QED
      BY <2>2, <3>1
  <2> QED
    BY <2>1, <2>2
<1>5. CASE FetchSucceeds(r)
  <2>1. /\ phase[r] \in Fetching /\ response.arrived
        /\ FindIn(r, response.keys) \/ Judge(r, response.keys)
    BY <1>5 DEF FetchSucceeds
  <2>2. \/ o \in {"left", "accepted", "lockUnknown"}
        \/ o \in {"left", "unknown_key"} /\ kid[r] \notin response.keys
    BY <2>1 DEF FindIn, Judge
  <2> QED
    BY <2>1, <2>2
<1>6. CASE FetchFails(r)
  <2>1. o \in {"left", "unavailable"}
    BY <1>6 DEF FetchFails
  <2> QED
    BY <2>1
<1> QED
  BY <1>1, <1>2, <1>3, <1>4, <1>5, <1>6 DEF Validate

(* A rejected token names a key that was not published for the whole of    *)
(* the last cooldown, whoever refreshed and however the refresh ended.     *)
THEOREM RejectionsAreFresh == Spec => RejectionIsFresh
<1> DEFINE Fresh(r) == ~(kid[r] \in published /\ keyAge[kid[r]] >= Gap)
           Step == \A r \in Requests : Answered(r, "unknown_key") => Fresh(r)
<1>1. KeyInv /\ [Next]_vars => Step
  <2> SUFFICES ASSUME KeyInv, [Next]_vars, NEW r \in Requests, Answered(r, "unknown_key"),
                      kid[r] \in published, keyAge[kid[r]] >= Gap
               PROVE  FALSE
    OBVIOUS
  <2> USE DEF KeyInv
  <2>1. /\ phase'[r] = "unknown_key" /\ (Start(r) \/ Validate(r))
    BY OwnSteps DEF Answered
  <2>2. keyAge[kid[r]] \in 0..Gap /\ age \in 0..Gap
    BY DEF TypeOK
  <2>3. age < Gap => keyAge[kid[r]] > age
    BY <2>2, TimesAssumption
  <2>4. CASE /\ refreshMu = NoRequest /\ age < Gap /\ ~lastRefreshErr
             /\ kid[r] \notin lastKeys
    BY <2>3, <2>4 DEF FreshInv
  <2>5. CASE phase[r] \in Fetching /\ response.arrived /\ kid[r] \notin response.keys
    <3>1. left[r] \in 0..FetchTimeout /\ age + left[r] <= FetchTimeout
      BY <2>5 DEF TypeOK, LockInv
    <3>2. age < Gap
      BY <2>2, <3>1, TimesAssumption
    <3>3. response.arrived = TRUE
      BY <2>5 DEF TypeOK
    <3> QED
      BY <2>3, <2>5, <3>2, <3>3 DEF FreshInv
  <2> QED
    BY <2>1, <2>4, <2>5, StepsTo
<1> QED
  BY <1>1, KeyInvariant, PTL DEF Spec, RejectionIsFresh

(* A fetch for an unknown key starts a whole cooldown after the last one,  *)
(* and nobody else is fetching then.                                       *)
THEOREM OneFetchPerCooldown == Spec => UnknownKeysShareRefresh
<1> DEFINE Alone == sinceUnknown >= Gap /\ \A s \in Requests : phase[s] \notin Fetching
           Step == \A r \in Requests : Answered(r, "fetchUnknown") => Alone
<1>1. KeyInv /\ [Next]_vars => Step
  <2> SUFFICES ASSUME KeyInv, [Next]_vars, NEW r \in Requests, Answered(r, "fetchUnknown")
               PROVE  Alone
    OBVIOUS
  <2>1. refreshMu = NoRequest /\ ~(age < Gap)
    BY OwnSteps, StepsTo DEF Answered, KeyInv
  <2>2. age \in 0..Gap /\ sinceUnknown \in 0..Gap /\ age <= sinceUnknown
    BY DEF KeyInv, TypeOK, LockInv
  <2>3. sinceUnknown >= Gap
    BY <2>1, <2>2, TimesAssumption
  <2> QED
    BY <2>1, <2>3, NobodyFetches
<1> QED
  BY <1>1, KeyInvariant, PTL DEF Spec, UnknownKeysShareRefresh

-------------------------------------------------------------------------------
(* When 503 means what the guide says *)

(* A fetch has the time and the client it needs: no client leaves while    *)
(* its request fetches, nor does the request of one that has left come to  *)
(* fetch, and no part of the timeout goes by before the fetch begins.      *)
FetchersStay == \A r \in gone : phase[r] \notin Fetching
FetchesHaveTime == \A r \in Requests : phase[r] \in Fetching => age + left[r] = FetchTimeout

(* Refusals, responses without keys and whole timeouts are the issuer's,   *)
(* and so are the recorded outcome and every answer taken from it.         *)
FailureInv ==
  /\ response.refused = TRUE => issuerFailed = TRUE
  /\ response.arrived = TRUE /\ response.keys = {} => issuerFailed = TRUE
  /\ \A r \in Requests : phase[r] \in Fetching /\ age >= FetchTimeout => issuerFailed = TRUE
  /\ lastRefreshErr = TRUE => issuerFailed = TRUE
  /\ \A r \in Requests : phase[r] = "unavailable" => issuerFailed = TRUE

(* The clock accuses the issuer of a fetch that has lasted its timeout.    *)
LEMMA TickFailure ==
  ASSUME KeyInv, FailureInv, FetchersStay, Tick
  PROVE  FailureInv'
<1> USE DEF KeyInv, FailureInv
<1>1. UNCHANGED <<response, phase, lastRefreshErr>>
  BY DEF Tick
<1>2. issuerFailed' = TRUE \/ issuerFailed' = issuerFailed
  BY Zenon DEF Tick, TypeOK
<1>3. ASSUME NEW r \in Requests, phase[r] \in Fetching, age' >= FetchTimeout
      PROVE  issuerFailed' = TRUE
  <2>1. age' <= age + 1 /\ age' \in Nat /\ age \in Nat
    BY OlderProperties, TimesAssumption DEF Tick, Older, TypeOK
  <2>2. age + 1 >= FetchTimeout
    BY <1>3, <2>1, TimesAssumption
  <2>3. r \in Requests \ gone
    BY <1>3 DEF FetchersStay
  <2> QED
    BY <1>3, <2>2, <2>3 DEF Tick
<1> QED
  BY <1>1, <1>2, <1>3

LEMMA FailureStep ==
  ASSUME KeyInv, FailureInv, FetchersStay, FetchesHaveTime, [Next]_vars
  PROVE  FailureInv'
<1> USE DEF KeyInv, FailureInv, issuer, refresh, request
<1>1. CASE UNCHANGED <<issuerFailed, response, age, lastRefreshErr, phase>>
  BY <1>1
<1>2. ASSUME NEW r \in Requests, FetchFails(r) PROVE FailureInv'
  <2>1. issuerFailed = TRUE
    <3>1. CASE left[r] = 0
      <4>1. phase[r] \in Fetching /\ age + left[r] = FetchTimeout /\ age \in Nat
        BY <1>2, TimesAssumption DEF FetchFails, FetchesHaveTime, TypeOK
      <4> QED
        BY <3>1, <4>1
    <3>2. CASE ~(left[r] = 0)
      BY <1>2, <3>2 DEF FetchFails, FetchIsLost, FetchersStay, TypeOK
    <3> QED
      BY <3>1, <3>2
  <2>2. issuerFailed' = TRUE
    BY <1>2, <2>1 DEF FetchFails
  <2> QED
    BY <2>2
<1>3. ASSUME NEW r \in Requests, FetchSucceeds(r) PROVE FailureInv'
  <2>1. /\ phase' \in {[phase EXCEPT ![r] = p] : p \in {"left", "accepted", "unknown_key", "lockUnknown"}}
        /\ UNCHANGED <<issuerFailed, age>> /\ lastRefreshErr' = FALSE /\ response' = Nothing
    BY <1>3 DEF FetchSucceeds, EndFetch, FindIn, Judge, Answer, Goto
  <2> QED
    BY <2>1 DEF TypeOK, Nothing, Fetching
<1>4. ASSUME NEW r \in Requests, Start(r) \/ Lookup(r) PROVE FailureInv'
  <2>1. /\ \E p \in {"left", "accepted", "lookup", "lockKeys", "lockUnknown"} :
             phase' = [phase EXCEPT ![r] = p]
        /\ UNCHANGED <<issuerFailed, response, age, lastRefreshErr>>
    BY <1>4 DEF Start, Lookup, FindIn, Answer, Goto
  <2> QED
    BY <2>1 DEF TypeOK, Fetching
<1>5. ASSUME NEW r \in Requests, NEW p \in Fetching, BeginFetch(r, p),
             UNCHANGED <<issuerFailed, response>>
      PROVE  FailureInv'
  <2>1. phase' = [phase EXCEPT ![r] = p] /\ age' = 0 /\ UNCHANGED lastRefreshErr
    BY <1>5 DEF BeginFetch, Goto
  <2>2. ~(age' >= FetchTimeout)
    BY <2>1, TimesAssumption
  <2> QED
    BY <1>5, <2>1, <2>2 DEF TypeOK, Fetching
<1>6. ASSUME NEW r \in Requests, Refresh(r) PROVE FailureInv'
  BY <1>5, <1>6 DEF Refresh, Fetching
<1>7. ASSUME NEW r \in Requests, RefreshForUnknownKey(r) PROVE FailureInv'
  <2>1. CASE age < Gap
    <3>1. UNCHANGED <<issuerFailed, response, age, lastRefreshErr>>
      BY <1>7, <2>1 DEF RefreshForUnknownKey, Cooldown
    <3>2. \E p \in {"left", "accepted", "unknown_key", "unavailable"} :
            phase' = [phase EXCEPT ![r] = p] /\ (p = "unavailable" => lastRefreshErr = TRUE)
      BY <1>7, <2>1 DEF RefreshForUnknownKey, Cooldown, Judge, Answer, TypeOK
    <3> QED
      BY <3>1, <3>2 DEF TypeOK, Fetching
  <2>2. CASE ~(age < Gap)
    BY <1>5, <1>7, <2>2 DEF RefreshForUnknownKey, Fetching
  <2> QED
    BY <2>1, <2>2
<1>8. ASSUME NEW r \in Requests, IssuerAnswers(r) \/ IssuerRefuses(r) PROVE FailureInv'
  <2>1. /\ UNCHANGED <<phase, age, lastRefreshErr>>
        /\ issuerFailed = TRUE => issuerFailed' = TRUE
    BY <1>8 DEF IssuerAnswers, IssuerRefuses
  <2>2. /\ response'.refused = TRUE => issuerFailed' = TRUE
        /\ response'.arrived = TRUE /\ response'.keys = {} => issuerFailed' = TRUE
    <3>1. CASE IssuerAnswers(r)
      <4>1. response'.keys = published /\ response'.refused = FALSE
        BY <3>1 DEF IssuerAnswers
      <4>2. published = {} => issuerFailed' = TRUE
        BY <3>1 DEF IssuerAnswers
      <4> QED
        BY <4>1, <4>2
    <3>2. CASE IssuerRefuses(r)
      BY <3>2 DEF IssuerRefuses
    <3> QED
      BY <1>8, <3>1, <3>2
  <2> QED
    BY <2>1, <2>2
<1>9. CASE Environment
  BY <1>1, <1>8, <1>9, TickFailure DEF Environment, Publish, Withdraw, BackgroundFetch, ClientLeaves
<1> QED
  BY <1>1, <1>2, <1>3, <1>4, <1>6, <1>7, <1>9 DEF Next, Validate, vars

(* As long as the clients of fetching requests stay and the wait for the   *)
(* lock takes nothing of the time for a fetch, 503 is answered only after  *)
(* the issuer itself refused, had no key or used up a whole timeout.  So a *)
(* recorded disconnection and a deadline that ran before the fetch began   *)
(* are the two ways in which UnavailableMeansIssuerFailed can be violated. *)
THEOREM UnavailableOnlyIfFetchesAreCut ==
  Spec /\ [](FetchersStay /\ FetchesHaveTime) => []UnavailableMeansIssuerFailed
<1>1. Init => FailureInv
  BY DEF Init, FailureInv, Nothing, Fetching
<1>2. KeyInv /\ FailureInv /\ FetchersStay /\ FetchesHaveTime /\ [Next]_vars => FailureInv'
  BY FailureStep
<1>3. FailureInv => UnavailableMeansIssuerFailed
  BY DEF FailureInv, UnavailableMeansIssuerFailed
<1> QED
  BY <1>1, <1>2, <1>3, KeyInvariant, PTL DEF Spec
===============================================================================
