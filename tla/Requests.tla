-------------------------------- MODULE Requests --------------------------------
(***************************************************************************)
(* Requests to the API: the guard that authenticates and authorizes them,  *)
(* the handlers that check their input, call the store and answer.  Other  *)
(* requests and workers change the store between any two steps; the store  *)
(* behaves as ProcessingContract says.                                     *)
(*                                                                         *)
(* A store call takes effect at one moment and returns at a later one, and *)
(* it may fail before or after it took effect.                             *)
(***************************************************************************)
EXTENDS Naturals

CONSTANTS Clients,      \* bound: requests open at once
          Tokens,       \* bound: the tokens they carry
          NoToken,      \* no Authorization header with a bearer token
          Items, NoItem, MaxJobs, MaxAttempts,
          NoRequest, NoAnswer, NoEffect

Jobs == 1..MaxJobs
NoJob == 0

Known == {"items.read", "items.create", "items.process"}
NotAString == "not a string"

(* What a decoded resource_access claim can look like, level by level.     *)
Shapes == {"absent", "not an object", "without the client", "client not an object",
           "without roles", "roles not a list", "roles"}
Claims == [shape : Shapes, roles : SUBSET (Known \cup {"another name", NotAString})]

(* What Validate finds in a token before it looks at the claims. *)
Verdicts == {"malformed", "invalid", "valid"}

ASSUME TokensAssumption ==
  Tokens \subseteq [verdict : Verdicts, claim : Claims] /\ NoToken \notin Tokens

Operations ==
  [route : {"GET /items"}]
    \cup [route : {"POST /items"}, body : {"invalid_request", "title_required", "invalid_status", "valid"}]
    \cup [route : {"POST /items/{id}/process"}, item : Items \cup {NoItem}]
    \cup [route : {"GET /processing-jobs/{id}"}, job : Jobs \cup {NoJob}]

ASSUME MaxAttemptsAssumption == MaxAttempts \in Nat \ {0}

VARIABLES
  created, jobItem, jobState, attempts,  \* the store
  mode,     \* AUTHENTICATION
  request,  \* each client's operation and token
  phase,    \* where its handler is
  answer,   \* what it answers, or is about to
  effect,   \* what it changed in the store
  told      \* job identities that were part of an answer

store == <<created, jobItem, jobState, attempts>>
vars == <<store, mode, request, phase, answer, effect, told>>

API == INSTANCE ProcessingContract

Answer(code, error) == [code |-> code, error |-> error, job |-> NoJob]
AnswerJob(code, error, j) == [code |-> code, error |-> error, job |-> j]
Unavailable == Answer(503, "persistence_unavailable")

TypeOK ==
  /\ created \subseteq Items
  /\ jobItem \in [Jobs -> Items \cup {NoItem}]
  /\ jobState \in [Jobs -> {"none", "accepted", "succeeded", "failed"}]
  /\ attempts \in [Jobs -> 0..MaxAttempts]
  /\ mode \in {"disabled", "oidc"}
  /\ request \in [Clients -> {NoRequest} \cup [operation : Operations, token : Tokens \cup {NoToken}]]
  /\ phase \in [Clients -> {"idle", "guard", "handler", "store", "returned", "answered"}]
  /\ \A c \in Clients :
       answer[c] = NoAnswer \/ (answer[c].code \in 200..503 /\ answer[c].job \in Jobs \cup {NoJob})
  /\ effect \in [Clients -> {NoEffect} \cup Items \cup Jobs]
  /\ told \subseteq Jobs

Init ==
  /\ API!Init
  /\ mode \in {"disabled", "oidc"}
  /\ request = [c \in Clients |-> NoRequest]
  /\ phase = [c \in Clients |-> "idle"]
  /\ answer = [c \in Clients |-> NoAnswer]
  /\ effect = [c \in Clients |-> NoEffect]
  /\ told = {}

At(c, p) == phase[c] = p
Goto(c, p) == phase' = [phase EXCEPT ![c] = p]
Operation(c) == request[c].operation
Token(c) == request[c].token

(* The handler answers and is done. *)
Reply(c, a) ==
  /\ answer' = [answer EXCEPT ![c] = a]
  /\ Goto(c, "answered")
  /\ UNCHANGED <<store, mode, request, effect, told>>

Arrive(c) ==
  /\ At(c, "idle")
  /\ \E o \in Operations, t \in Tokens \cup {NoToken} :
       request' = [request EXCEPT ![c] = [operation |-> o, token |-> t]]
  /\ Goto(c, "guard")
  /\ UNCHANGED <<store, mode, answer, effect, told>>

-------------------------------------------------------------------------------
(* The guard *)

Permission(o) ==
  CASE o.route = "POST /items" -> "items.create"
    [] o.route = "POST /items/{id}/process" -> "items.process"
    [] OTHER -> "items.read"

(* A variant of Parse that skips entries it does not understand. *)
ParseLenient(claim) == IF claim.shape = "roles" THEN claim.roles \cap Known ELSE {}

(* authz.Parse: one entry that is not a string discards all of them. *)
Parse(claim) ==
  IF claim.shape # "roles" \/ NotAString \in claim.roles
  THEN {}
  ELSE claim.roles \cap Known

(* A malformed token is rejected at once; any other judgement takes keys,  *)
(* which may be unavailable.                                               *)
Validate(t) ==
  IF t.verdict = "malformed" THEN {"failure"}
  ELSE {"unavailable", IF t.verdict = "valid" THEN "principal" ELSE "failure"}

Enter(c) == Goto(c, "handler") /\ UNCHANGED <<store, mode, request, answer, effect, told>>

WithoutAuthentication(c) ==
  /\ At(c, "guard")
  /\ mode = "disabled"
  /\ Enter(c)

RequireBearerToken(c) ==
  /\ At(c, "guard")
  /\ mode = "oidc"
  /\ IF Token(c) = NoToken THEN Reply(c, Answer(401, "unauthenticated"))
     ELSE \E outcome \in Validate(Token(c)) :
            CASE outcome = "failure" -> Reply(c, Answer(401, "unauthenticated"))
              [] outcome = "unavailable" -> Reply(c, Answer(503, "authentication_unavailable"))
              [] outcome = "principal" ->
                   IF Permission(Operation(c)) \in Parse(Token(c).claim)
                   THEN Enter(c)
                   ELSE Reply(c, Answer(403, "insufficient_permissions"))

-------------------------------------------------------------------------------
(* The handlers *)

(* What the handler says of the input, "valid" if nothing. *)
InputError(o) ==
  CASE o.route = "POST /items" -> o.body
    [] o.route = "POST /items/{id}/process" -> IF o.item = NoItem THEN "invalid_item_id" ELSE "valid"
    [] o.route = "GET /processing-jobs/{id}" -> IF o.job = NoJob THEN "invalid_processing_job_id" ELSE "valid"
    [] OTHER -> "valid"

CheckInput(c) ==
  /\ At(c, "handler")
  /\ IF InputError(Operation(c)) = "valid"
     THEN Goto(c, "store") /\ UNCHANGED <<store, mode, request, answer, effect, told>>
     ELSE Reply(c, Answer(400, InputError(Operation(c))))

(* The store has done e for c and is about to return a. *)
Return(c, a, e) ==
  /\ answer' = [answer EXCEPT ![c] = a]
  /\ effect' = [effect EXCEPT ![c] = e]
  /\ Goto(c, "returned")
  /\ UNCHANGED <<mode, request, told>>

Read(c, a) == Return(c, a, NoEffect) /\ UNCHANGED store

CreateWorkItem(c) ==
  /\ At(c, "store") /\ Operation(c).route = "POST /items"
  /\ \E i \in Items : API!Create(i) /\ Return(c, Answer(201, "none"), i)

ListWorkItems(c) ==
  /\ At(c, "store") /\ Operation(c).route = "GET /items"
  /\ Read(c, Answer(200, "none"))

(* A variant of GetProcessingJob that looks for active jobs only. *)
GetActiveJob(c) ==
  /\ At(c, "store") /\ Operation(c).route = "GET /processing-jobs/{id}"
  /\ LET j == Operation(c).job IN
       Read(c, IF jobState[j] = "accepted" THEN AnswerJob(200, "none", j)
                                           ELSE Answer(404, "processing_job_not_found"))

GetProcessingJob(c) ==
  /\ At(c, "store") /\ Operation(c).route = "GET /processing-jobs/{id}"
  /\ LET j == Operation(c).job IN
       Read(c, IF jobState[j] # "none" THEN AnswerJob(200, "none", j)
                                       ELSE Answer(404, "processing_job_not_found"))

JobsOf(i, state) == {j \in Jobs : jobItem[j] = i /\ jobState[j] = state}

(* The transaction's checks in their order. *)
AcceptProcessingJob(c) ==
  /\ At(c, "store") /\ Operation(c).route = "POST /items/{id}/process"
  /\ LET i == Operation(c).item
         done == JobsOf(i, "succeeded") # {}
         active == JobsOf(i, "accepted")
     IN  \/ i \notin created /\ Read(c, Answer(404, "work_item_not_found"))
         \/ i \in created /\ done /\ Read(c, Answer(409, "work_item_already_done"))
         \/ /\ i \in created /\ ~done
            /\ \E j \in active : Read(c, AnswerJob(409, "processing_already_active", j))
         \/ /\ i \in created /\ ~done /\ active = {}
            /\ \E j \in Jobs : API!Accept(i, j) /\ Return(c, AnswerJob(202, "none", j), j)

(* A variant of Respond that answers with the store's error as a conflict. *)
RespondConflict(c) ==
  /\ At(c, "returned")
  /\ \E a \in {answer[c], Answer(409, "work_item_already_done")} :
       /\ answer' = [answer EXCEPT ![c] = a]
       /\ told' = told \cup ({a.job} \ {NoJob})
  /\ Goto(c, "answered")
  /\ UNCHANGED <<store, mode, request, effect>>

(* The call returns in time, or with an error that hides what it did.      *)
Respond(c) ==
  /\ At(c, "returned")
  /\ \E a \in {answer[c], Unavailable} :
       /\ answer' = [answer EXCEPT ![c] = a]
       /\ told' = told \cup ({a.job} \ {NoJob})
  /\ Goto(c, "answered")
  /\ UNCHANGED <<store, mode, request, effect>>

(* Deadline, lost connection or a client that left: nothing was done. *)
StoreFails(c) == At(c, "store") /\ Reply(c, Unavailable)

(* The answer is gone, received or not. *)
Leave(c) ==
  /\ At(c, "answered")
  /\ Goto(c, "idle")
  /\ request' = [request EXCEPT ![c] = NoRequest]
  /\ answer' = [answer EXCEPT ![c] = NoAnswer]
  /\ effect' = [effect EXCEPT ![c] = NoEffect]
  /\ UNCHANGED <<store, mode, told>>

(* A variant of Work that goes on with jobs that have ended. *)
WorkOn ==
  /\ \E j \in Jobs :
       /\ jobState[j] # "none"
       /\ attempts' = [attempts EXCEPT ![j] = @ + 1]
       /\ jobState' = [jobState EXCEPT ![j] = "failed"]
  /\ UNCHANGED <<created, jobItem, mode, request, phase, answer, effect, told>>

(* Workers resolve jobs. *)
Work ==
  /\ \E j \in Jobs : API!FailAttempt(j) \/ API!Succeed(j)
  /\ UNCHANGED <<mode, request, phase, answer, effect, told>>

Next ==
  \/ Work
  \/ \E c \in Clients :
       \/ Arrive(c)
       \/ WithoutAuthentication(c)
       \/ RequireBearerToken(c)
       \/ CheckInput(c)
       \/ CreateWorkItem(c)
       \/ ListWorkItems(c)
       \/ GetProcessingJob(c)
       \/ AcceptProcessingJob(c)
       \/ StoreFails(c)
       \/ Respond(c)
       \/ Leave(c)

Spec == Init /\ [][Next]_vars

-------------------------------------------------------------------------------
(* Properties *)

(* What a token must say, in full, for an operation to be allowed. *)
Allows(t, o) ==
  /\ t # NoToken
  /\ t.verdict = "valid"
  /\ t.claim.shape = "roles"
  /\ NotAString \notin t.claim.roles
  /\ Permission(o) \in t.claim.roles

Refusal(a) == a.error \in {"unauthenticated", "authentication_unavailable", "insufficient_permissions"}

(* A request without the permission of its route changes nothing and       *)
(* learns nothing, not even whether its input is valid, and a refusal says *)
(* why: 401 for the token, 403 only for the permission.                    *)
OnlyPermittedRequestsRun ==
  \A c \in Clients : mode = "oidc" /\ ~At(c, "idle") =>
    /\ \/ Allows(Token(c), Operation(c))
       \/ At(c, "guard")
       \/ At(c, "answered") /\ Refusal(answer[c]) /\ effect[c] = NoEffect
    /\ At(c, "answered") /\ answer[c].code = 401 => Token(c) = NoToken \/ Token(c).verdict # "valid"
    /\ At(c, "answered") /\ answer[c].code = 403 =>
         Token(c).verdict = "valid" /\ ~Allows(Token(c), Operation(c))

(* A success is durable and this request's own, a refusal or a conflict    *)
(* changed nothing, a conflict names a job of this item, and only 503      *)
(* leaves open what happened.                                              *)
AnswersAreTrue ==
  \A c \in Clients : At(c, "answered") =>
    /\ answer[c].code = 201 => effect[c] \in created
    /\ answer[c].code = 202 => effect[c] = answer[c].job /\ jobItem[answer[c].job] = Operation(c).item
    /\ answer[c].code \notin {201, 202} /\ answer[c].error # "persistence_unavailable" =>
         effect[c] = NoEffect
    /\ answer[c].error = "processing_already_active" => jobItem[answer[c].job] = Operation(c).item

(* A job identity that was part of any answer, a conflict's too, is found  *)
(* ever after: what a client follows after 202 or 409 does not turn into a *)
(* 404.                                                                    *)
NamedJobsAreFound ==
  [][\A c \in Clients :
       At(c, "store") /\ phase'[c] = "returned" /\ answer'[c].error = "processing_job_not_found" =>
         Operation(c).job \notin told]_vars
===============================================================================
