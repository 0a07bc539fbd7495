----------------------------- MODULE RequestsProofs -----------------------------
(***************************************************************************)
(* For any number of clients, tokens, items and jobs: what a request       *)
(* without its route's permission can do and what it is told, that answers *)
(* say what happened, and that the jobs they name are found.               *)
(***************************************************************************)
EXTENDS Requests, TLAPS

(* The four variables that hold a cell for each client.                    *)
Cells ==
  /\ request = [c \in Clients |-> request[c]]
  /\ phase = [c \in Clients |-> phase[c]]
  /\ answer = [c \in Clients |-> answer[c]]
  /\ effect = [c \in Clients |-> effect[c]]

Allowed(c) == Allows(request[c].token, request[c].operation)

(* What OnlyPermittedRequestsRun says of one client, with what carries it  *)
(* from step to step: a request that is not through the guard has changed  *)
(* nothing, and what the store returns is none of the guard's answers.     *)
Guarded(c) ==
  /\ phase[c] \in {"idle", "guard", "handler", "store", "returned", "answered"}
  /\ phase[c] \in {"idle", "guard"} => effect[c] = NoEffect
  /\ phase[c] = "returned" => answer[c].code \notin {401, 403}
  /\ mode = "oidc" /\ phase[c] # "idle" =>
       /\ \/ Allowed(c)
          \/ phase[c] = "guard"
          \/ phase[c] = "answered" /\ Refusal(answer[c]) /\ effect[c] = NoEffect
       /\ phase[c] = "answered" /\ answer[c].code = 401 =>
            request[c].token = NoToken \/ request[c].token.verdict # "valid"
       /\ phase[c] = "answered" /\ answer[c].code = 403 =>
            request[c].token.verdict = "valid" /\ ~Allowed(c)

GuardInv == Cells /\ \A c \in Clients : Guarded(c)

(* authz.Parse grants a permission exactly when the claim lists it.        *)
LEMMA ParseGrants ==
  ASSUME NEW t, t # NoToken, t.verdict = "valid", NEW o
  PROVE  Permission(o) \in Parse(t.claim) <=> Allows(t, o)
<1>1. Permission(o) \in Known
  BY DEF Permission, Known
<1> QED
  BY <1>1 DEF Parse, Allows

-------------------------------------------------------------------------------
(* A client's steps leave the cells of the others alone. *)

Frame(c) ==
  /\ mode' = mode
  /\ Cells'
  /\ \A d \in Clients \ {c} : /\ request'[d] = request[d] /\ phase'[d] = phase[d]
                              /\ answer'[d] = answer[d] /\ effect'[d] = effect[d]

Step(c) ==
  \/ Arrive(c) \/ WithoutAuthentication(c) \/ RequireBearerToken(c) \/ CheckInput(c)
  \/ CreateWorkItem(c) \/ ListWorkItems(c) \/ GetProcessingJob(c) \/ AcceptProcessingJob(c)
  \/ StoreFails(c) \/ Respond(c) \/ Leave(c)

LEMMA FrameSuffices ==
  ASSUME GuardInv, NEW c \in Clients, Frame(c), Guarded(c)'
  PROVE  GuardInv'
<1>1. ASSUME NEW d \in Clients \ {c} PROVE Guarded(d)'
  BY <1>1 DEF GuardInv, Frame, Guarded, Allowed
<1> QED
  BY <1>1 DEF GuardInv, Frame

LEMMA ReplySteps ==
  ASSUME Cells, NEW c \in Clients, NEW a, Reply(c, a)
  PROVE  /\ Frame(c)
         /\ phase'[c] = "answered" /\ answer'[c] = a
         /\ request'[c] = request[c] /\ effect'[c] = effect[c]
BY DEF Cells, Reply, Goto, Frame

LEMMA EnterSteps ==
  ASSUME Cells, NEW c \in Clients, NEW p, Goto(c, p), UNCHANGED <<mode, request, answer, effect>>
  PROVE  /\ Frame(c)
         /\ phase'[c] = p /\ answer'[c] = answer[c]
         /\ request'[c] = request[c] /\ effect'[c] = effect[c]
BY DEF Cells, Goto, Frame

LEMMA ReturnSteps ==
  ASSUME Cells, NEW c \in Clients, NEW a, NEW e, Return(c, a, e)
  PROVE  /\ Frame(c)
         /\ phase'[c] = "returned" /\ answer'[c] = a
         /\ request'[c] = request[c]
BY DEF Cells, Return, Goto, Frame

-------------------------------------------------------------------------------
(* Through the guard *)

LEMMA GuardAnswers ==
  ASSUME GuardInv, NEW c \in Clients, RequireBearerToken(c)
  PROVE  Frame(c) /\ Guarded(c)'
<1> USE DEF GuardInv
<1>0. phase[c] = "guard" /\ effect[c] = NoEffect
  BY DEF RequireBearerToken, At, Guarded
<1>1. ASSUME NEW a, Reply(c, a), Refusal(a),
             a.code = 401 => request[c].token = NoToken \/ request[c].token.verdict # "valid",
             a.code = 403 => request[c].token.verdict = "valid" /\ ~Allowed(c)
      PROVE  Frame(c) /\ Guarded(c)'
  <2>1. /\ Frame(c)
        /\ phase'[c] = "answered" /\ answer'[c] = a
        /\ request'[c] = request[c] /\ effect'[c] = NoEffect
    BY <1>0, <1>1, ReplySteps
  <2> QED
    BY <1>1, <2>1 DEF Guarded, Allowed, Refusal
<1>2. ASSUME Enter(c), Allowed(c) PROVE Frame(c) /\ Guarded(c)'
  <2>1. /\ Frame(c)
        /\ phase'[c] = "handler" /\ request'[c] = request[c] /\ effect'[c] = NoEffect
    BY <1>0, <1>2, EnterSteps DEF Enter
  <2> QED
    BY <1>2, <2>1 DEF Guarded, Allowed
<1>3. CASE Token(c) = NoToken
  <2>1. Reply(c, Answer(401, "unauthenticated"))
    BY <1>3 DEF RequireBearerToken
  <2> QED
    BY <1>1, <1>3, <2>1 DEF Answer, Refusal, Token
<1>4. CASE Token(c) # NoToken
  <2>1. PICK outcome \in Validate(Token(c)) :
          CASE outcome = "failure" -> Reply(c, Answer(401, "unauthenticated"))
            [] outcome = "unavailable" -> Reply(c, Answer(503, "authentication_unavailable"))
            [] outcome = "principal" ->
                 IF Permission(Operation(c)) \in Parse(Token(c).claim)
                 THEN Enter(c)
                 ELSE Reply(c, Answer(403, "insufficient_permissions"))
    BY <1>4 DEF RequireBearerToken
  <2>2. CASE outcome = "failure"
    <3>1. Token(c).verdict # "valid" /\ Reply(c, Answer(401, "unauthenticated"))
      BY <2>1, <2>2 DEF Validate
    <3> QED
      BY <1>1, <3>1 DEF Answer, Refusal, Token
  <2>3. CASE outcome = "unavailable"
    <3>1. Reply(c, Answer(503, "authentication_unavailable"))
      BY <2>1, <2>3
    <3> QED
      BY <1>1, <3>1 DEF Answer, Refusal
  <2>4. CASE outcome = "principal"
    <3>1. Token(c).verdict = "valid"
      BY <2>1, <2>4 DEF Validate
    <3>2. Permission(Operation(c)) \in Parse(Token(c).claim) <=> Allowed(c)
      BY <1>4, <3>1, ParseGrants DEF Allowed, Token, Operation
    <3>3. CASE Allowed(c)
      BY <1>2, <2>1, <2>4, <3>2, <3>3
    <3>4. CASE ~Allowed(c)
      <4>1. Reply(c, Answer(403, "insufficient_permissions"))
        BY <2>1, <2>4, <3>2, <3>4
      <4> QED
        BY <1>1, <3>1, <3>4, <4>1 DEF Answer, Refusal, Token
    <3> QED
      BY <3>3, <3>4
  <2> QED
    BY <2>1, <2>2, <2>3, <2>4 DEF Validate
<1> QED
  BY <1>3, <1>4

-------------------------------------------------------------------------------
(* Behind it *)

LEMMA StepsKeepGuarded ==
  ASSUME GuardInv, NEW c \in Clients, Step(c)
  PROVE  Frame(c) /\ Guarded(c)'
<1> USE DEF GuardInv, At
<1>1. CASE Arrive(c)
  <2>1. phase[c] = "idle" /\ effect[c] = NoEffect
    BY <1>1 DEF Arrive, Guarded
  <2>2. /\ Frame(c)
        /\ phase'[c] = "guard" /\ effect'[c] = effect[c]
    BY <1>1 DEF Arrive, Cells, Goto, Frame
  <2> QED
    BY <2>1, <2>2 DEF Guarded
<1>2. CASE WithoutAuthentication(c)
  BY <1>2, EnterSteps DEF WithoutAuthentication, Enter, Frame, Guarded
<1>3. CASE RequireBearerToken(c)
  BY <1>3, GuardAnswers
<1>4. ASSUME phase[c] \in {"handler", "store"}, NEW a, Reply(c, a), a.code \notin {401, 403}
      PROVE  Frame(c) /\ Guarded(c)'
  BY <1>4, ReplySteps DEF Frame, Guarded, Allowed
<1>5. CASE CheckInput(c)
  <2>1. CASE InputError(Operation(c)) = "valid"
    BY <1>5, <2>1, EnterSteps DEF CheckInput, Frame, Guarded, Allowed
  <2>2. CASE InputError(Operation(c)) # "valid"
    BY <1>4, <1>5, <2>2 DEF CheckInput, Answer
  <2> QED
    BY <2>1, <2>2
<1>6. ASSUME phase[c] = "store", NEW a, NEW e, Return(c, a, e), a.code \notin {401, 403}
      PROVE  Frame(c) /\ Guarded(c)'
  BY <1>6, ReturnSteps DEF Frame, Guarded, Allowed
<1>7. CASE CreateWorkItem(c)
  <2>1. PICK i \in Items : Return(c, Answer(201, "none"), i)
    BY <1>7 DEF CreateWorkItem
  <2>2. phase[c] = "store"
    BY <1>7 DEF CreateWorkItem
  <2>3. Answer(201, "none").code \notin {401, 403}
    BY DEF Answer
  <2> QED
    BY <1>6, <2>1, <2>2, <2>3
<1>8. CASE ListWorkItems(c)
  <2>1. Return(c, Answer(200, "none"), NoEffect)
    BY <1>8 DEF ListWorkItems, Read
  <2>2. phase[c] = "store"
    BY <1>8 DEF ListWorkItems
  <2>3. Answer(200, "none").code \notin {401, 403}
    BY DEF Answer
  <2> QED
    BY <1>6, <2>1, <2>2, <2>3
<1>9. CASE GetProcessingJob(c)
  <2>1. PICK a \in {AnswerJob(200, "none", Operation(c).job), Answer(404, "processing_job_not_found")} :
          Return(c, a, NoEffect)
    BY <1>9 DEF GetProcessingJob, Read
  <2>2. phase[c] = "store"
    BY <1>9 DEF GetProcessingJob
  <2>3. a.code \notin {401, 403}
    BY DEF Answer, AnswerJob
  <2> QED
    BY <1>6, <2>1, <2>2, <2>3
<1>10. CASE AcceptProcessingJob(c)
  <2> DEFINE i == Operation(c).item
  <2>1. phase[c] = "store"
    BY <1>10 DEF AcceptProcessingJob
  <2>2. \/ Read(c, Answer(404, "work_item_not_found"))
        \/ Read(c, Answer(409, "work_item_already_done"))
        \/ \E j \in JobsOf(i, "accepted") : Read(c, AnswerJob(409, "processing_already_active", j))
        \/ \E j \in Jobs : Return(c, AnswerJob(202, "none", j), j)
    BY <1>10, Zenon DEF AcceptProcessingJob
  <2>3. /\ Answer(404, "work_item_not_found").code \notin {401, 403}
        /\ Answer(409, "work_item_already_done").code \notin {401, 403}
        /\ \A j : AnswerJob(409, "processing_already_active", j).code \notin {401, 403}
        /\ \A j : AnswerJob(202, "none", j).code \notin {401, 403}
    BY DEF Answer, AnswerJob
  <2>4. CASE Read(c, Answer(404, "work_item_not_found"))
    BY <1>6, <2>1, <2>3, <2>4 DEF Read
  <2>5. CASE Read(c, Answer(409, "work_item_already_done"))
    BY <1>6, <2>1, <2>3, <2>5 DEF Read
  <2>6. CASE \E j \in JobsOf(i, "accepted") : Read(c, AnswerJob(409, "processing_already_active", j))
    BY <1>6, <2>1, <2>3, <2>6 DEF Read
  <2>7. CASE \E j \in Jobs : Return(c, AnswerJob(202, "none", j), j)
    BY <1>6, <2>1, <2>3, <2>7
  <2> QED
    BY <2>2, <2>4, <2>5, <2>6, <2>7
<1>11. CASE StoreFails(c)
  BY <1>4, <1>11 DEF StoreFails, Unavailable, Answer
<1>12. CASE Respond(c)
  <2>1. PICK a \in {answer[c], Unavailable} : answer' = [answer EXCEPT ![c] = a]
    BY <1>12 DEF Respond
  <2>2. /\ Frame(c)
        /\ phase'[c] = "answered" /\ answer'[c] = a
        /\ request'[c] = request[c] /\ effect'[c] = effect[c]
    BY <1>12, <2>1 DEF Respond, Cells, Goto, Frame
  <2>3. phase[c] = "returned" /\ a.code \notin {401, 403}
    BY <1>12, <2>1 DEF Respond, Guarded, Unavailable, Answer
  <2> QED
    BY <2>2, <2>3 DEF Frame, Guarded, Allowed
<1>13. CASE Leave(c)
  <2>1. /\ Frame(c)
        /\ phase'[c] = "idle" /\ effect'[c] = NoEffect
    BY <1>13 DEF Leave, Cells, Goto, Frame
  <2> QED
    BY <2>1 DEF Guarded
<1> QED
  BY <1>1, <1>2, <1>3, <1>5, <1>7, <1>8, <1>9, <1>10, <1>11, <1>12, <1>13 DEF Step

LEMMA GuardStep == GuardInv /\ [Next]_vars => GuardInv'
<1> SUFFICES ASSUME GuardInv, [Next]_vars PROVE GuardInv'
  OBVIOUS
<1>1. ASSUME NEW c \in Clients, Step(c) PROVE GuardInv'
  BY <1>1, StepsKeepGuarded, FrameSuffices
<1>2. CASE UNCHANGED <<mode, request, phase, answer, effect>>
  BY <1>2 DEF GuardInv, Cells, Guarded, Allowed
<1> QED
  BY <1>1, <1>2 DEF Next, Step, Work, vars

(* A request without its route's permission changes nothing, learns        *)
(* nothing and is refused for the right reason, whatever the tokens say    *)
(* and however many requests there are.                                    *)
THEOREM GuardHolds == Spec => []OnlyPermittedRequestsRun
<1>1. Init => GuardInv
  BY DEF Init, GuardInv, Cells, Guarded
<1>2. GuardInv => OnlyPermittedRequestsRun
  BY DEF GuardInv, Guarded, Allowed, OnlyPermittedRequestsRun, At, Token, Operation
<1> QED
  BY <1>1, <1>2, GuardStep, PTL DEF Spec

-------------------------------------------------------------------------------
(* What the answers say *)

(* The store's functions, cell by cell. *)
StoreCells ==
  /\ jobState = [j \in Jobs |-> jobState[j]]
  /\ jobItem = [j \in Jobs |-> jobItem[j]]

Exists(j) == j \in Jobs /\ jobState[j] # "none"

(* The job in c's answer is one of the item c asked for. *)
NamesItsJob(c) == Exists(answer[c].job) /\ jobItem[answer[c].job] = Operation(c).item

(* What AnswersAreTrue says of one client, from the store's return on, and *)
(* what the earlier phases leave untouched.                                *)
Truthful(c) ==
  /\ phase[c] # "idle" => Operation(c) \in Operations
  /\ phase[c] = "store" => InputError(Operation(c)) = "valid"
  /\ phase[c] \in {"guard", "handler", "store"} => effect[c] = NoEffect
  /\ phase[c] = "idle" => effect[c] = NoEffect
  /\ phase[c] \in {"returned", "answered"} =>
       \/ /\ effect[c] = NoEffect
          /\ answer[c].code \notin {201, 202}
          /\ answer[c].error = "processing_already_active" => NamesItsJob(c)
       \/ answer[c].code = 201 /\ answer[c].error = "none" /\ effect[c] \in created
       \/ /\ answer[c].code = 202 /\ answer[c].error = "none"
          /\ effect[c] = answer[c].job /\ NamesItsJob(c)
       \/ answer[c] = Unavailable
  /\ phase[c] = "returned" => answer[c].job = NoJob \/ Exists(answer[c].job)

AnswerInv ==
  /\ GuardInv
  /\ StoreCells
  /\ \A j \in told : Exists(j)
  /\ \A c \in Clients : Truthful(c)

(* The store forgets nothing. *)
StoreGrows ==
  /\ StoreCells'
  /\ created \subseteq created'
  /\ \A j \in Jobs : jobState[j] # "none" => jobState'[j] # "none" /\ jobItem'[j] = jobItem[j]

LEMMA ContractGrows ==
  ASSUME StoreCells,
         \/ UNCHANGED store
         \/ \E i \in Items : API!Create(i)
         \/ \E i \in Items, j \in Jobs : API!Accept(i, j)
         \/ \E j \in Jobs : API!FailAttempt(j) \/ API!Succeed(j)
  PROVE  StoreGrows
<1> USE DEF StoreCells, StoreGrows
<1>1. CASE UNCHANGED store
  BY <1>1 DEF store
<1>2. CASE \E i \in Items : API!Create(i)
  BY <1>2 DEF API!Create
<1>3. ASSUME NEW i \in Items, NEW j \in Jobs, API!Accept(i, j) PROVE StoreGrows
  BY <1>3 DEF API!Accept
<1>4. ASSUME NEW j \in Jobs, API!FailAttempt(j) PROVE StoreGrows
  BY <1>4 DEF API!FailAttempt
<1>5. ASSUME NEW j \in Jobs, API!Succeed(j) PROVE StoreGrows
  BY <1>5 DEF API!Succeed
<1> QED
  BY <1>1, <1>2, <1>3, <1>4, <1>5

(* What was true of a client stays true while others act. *)
LEMMA TruthStays ==
  ASSUME NEW c \in Clients, Truthful(c), StoreGrows,
         request'[c] = request[c], phase'[c] = phase[c], answer'[c] = answer[c], effect'[c] = effect[c]
  PROVE  Truthful(c)'
<1>1. Exists(answer[c].job) => Exists(answer[c].job)'
  BY DEF StoreGrows, Exists
<1>2. NamesItsJob(c) => NamesItsJob(c)'
  BY <1>1 DEF StoreGrows, NamesItsJob, Operation, Exists
<1>3. Operation(c)' = Operation(c)
  BY DEF Operation
<1> QED
  BY <1>1, <1>2, <1>3 DEF Truthful, StoreGrows, Unavailable, Answer, NoJob

LEMMA StepGrows ==
  ASSUME StoreCells, NEW c \in Clients, Step(c)
  PROVE  StoreGrows
<1>1. CASE CreateWorkItem(c)
  <2>1. \E i \in Items : API!Create(i)
    BY <1>1, Zenon DEF CreateWorkItem
  <2> QED
    BY <2>1, ContractGrows
<1>2. CASE AcceptProcessingJob(c)
  <2> DEFINE i == Operation(c).item
  <2>1. UNCHANGED store \/ \E j \in Jobs : API!Accept(i, j)
    BY <1>2, Zenon DEF AcceptProcessingJob, Read
  <2>2. ASSUME NEW j \in Jobs, API!Accept(i, j) PROVE StoreGrows
    BY <2>2 DEF API!Accept, StoreCells, StoreGrows
  <2> QED
    BY <2>1, <2>2, ContractGrows
<1>3. CASE UNCHANGED store
  BY <1>3, ContractGrows
<1>4. ASSUME NEW a, Reply(c, a) PROVE UNCHANGED store
  BY <1>4 DEF Reply
<1>5. RequireBearerToken(c) => UNCHANGED store
  BY <1>4, Zenon DEF RequireBearerToken, Reply, Enter, Validate
<1>6. CheckInput(c) => UNCHANGED store
  BY <1>4, Zenon DEF CheckInput
<1>7. StoreFails(c) => UNCHANGED store
  BY <1>4, Zenon DEF StoreFails
<1>8. ListWorkItems(c) \/ GetProcessingJob(c) => UNCHANGED store
  BY Zenon DEF ListWorkItems, GetProcessingJob, Read
<1>9. Arrive(c) \/ WithoutAuthentication(c) \/ Respond(c) \/ Leave(c) => UNCHANGED store
  BY Zenon DEF Arrive, WithoutAuthentication, Enter, Respond, Leave
<1> QED
  BY <1>1, <1>2, <1>3, <1>5, <1>6, <1>7, <1>8, <1>9 DEF Step

LEMMA StepIsTruthful ==
  ASSUME AnswerInv, NEW c \in Clients, Step(c)
  PROVE  Truthful(c)'
<1> USE DEF At
<1>0. Cells /\ Truthful(c) /\ StoreCells /\ (\A j \in told : Exists(j)) /\ StoreGrows
  BY StepGrows DEF AnswerInv, GuardInv
<1>1. CASE Arrive(c)
  <2>1. PICK o \in Operations, t \in Tokens \cup {NoToken} :
          request' = [request EXCEPT ![c] = [operation |-> o, token |-> t]]
    BY <1>1 DEF Arrive
  <2>2. /\ phase'[c] = "guard" /\ effect'[c] = effect[c]
        /\ request'[c] = [operation |-> o, token |-> t]
    BY <1>0, <1>1, <2>1 DEF Arrive, Cells, Goto
  <2>3. phase[c] = "idle"
    BY <1>1 DEF Arrive
  <2> QED
    BY <1>0, <2>2, <2>3 DEF Truthful, Operation
<1>2. ASSUME phase[c] \in {"guard", "handler", "store"}, NEW a, Reply(c, a),
             a.code \notin {201, 202}, a.error # "processing_already_active"
      PROVE  Truthful(c)'
  BY <1>0, <1>2, ReplySteps DEF Truthful, Operation
<1>3. ASSUME phase[c] = "guard", Enter(c) PROVE Truthful(c)'
  <2>1. /\ phase'[c] = "handler" /\ answer'[c] = answer[c]
        /\ request'[c] = request[c] /\ effect'[c] = effect[c]
    BY <1>0, <1>3, EnterSteps DEF Enter
  <2> QED
    BY <1>0, <1>3, <2>1 DEF Truthful, Operation
<1>4. CASE WithoutAuthentication(c)
  BY <1>3, <1>4 DEF WithoutAuthentication
<1>5. CASE RequireBearerToken(c)
  <2>1. phase[c] = "guard"
    BY <1>5 DEF RequireBearerToken
  <2>2. \/ Enter(c)
        \/ Reply(c, Answer(401, "unauthenticated"))
        \/ Reply(c, Answer(503, "authentication_unavailable"))
        \/ Reply(c, Answer(403, "insufficient_permissions"))
    BY <1>5 DEF RequireBearerToken, Validate
  <2>3. \A code \in {401, 403, 503} : \A error :
          Answer(code, error).code \notin {201, 202} /\ Answer(code, error).error = error
    BY DEF Answer
  <2> QED
    BY <1>2, <1>3, <2>1, <2>2, <2>3
<1>6. CASE CheckInput(c)
  <2>1. phase[c] = "handler"
    BY <1>6 DEF CheckInput
  <2>2. CASE InputError(Operation(c)) = "valid"
    <3>1. /\ phase'[c] = "store" /\ answer'[c] = answer[c]
          /\ request'[c] = request[c] /\ effect'[c] = effect[c]
      BY <1>0, <1>6, <2>2, EnterSteps DEF CheckInput
    <3> QED
      BY <1>0, <2>1, <2>2, <3>1 DEF Truthful, Operation
  <2>3. CASE InputError(Operation(c)) # "valid"
    <3>1. Reply(c, Answer(400, InputError(Operation(c))))
      BY <1>6, <2>3 DEF CheckInput
    <3>2. InputError(Operation(c)) # "processing_already_active"
      BY <1>0, <2>1 DEF Truthful, InputError, Operations
    <3>3. /\ Answer(400, InputError(Operation(c))).code \notin {201, 202}
          /\ Answer(400, InputError(Operation(c))).error = InputError(Operation(c))
      BY DEF Answer
    <3> QED
      BY <1>2, <2>1, <3>1, <3>2, <3>3
  <2> QED
    BY <2>2, <2>3
<1>7. CASE StoreFails(c)
  <2>1. phase[c] = "store" /\ Reply(c, Unavailable)
    BY <1>7 DEF StoreFails
  <2>2. Unavailable.code = 503 /\ Unavailable.error = "persistence_unavailable"
    BY DEF Unavailable, Answer
  <2> QED
    BY <1>2, <2>1, <2>2
<1>8. CASE Respond(c)
  <2>1. PICK a \in {answer[c], Unavailable} : answer' = [answer EXCEPT ![c] = a]
    BY <1>8 DEF Respond
  <2>2. /\ phase'[c] = "answered" /\ answer'[c] = a
        /\ request'[c] = request[c] /\ effect'[c] = effect[c]
    BY <1>0, <1>8, <2>1 DEF Respond, Cells, Goto
  <2>3. phase[c] = "returned" /\ UNCHANGED store
    BY <1>8 DEF Respond
  <2>4. CASE a = answer[c]
    BY <1>0, <2>2, <2>3, <2>4 DEF Truthful, Operation, NamesItsJob, Exists, Unavailable, Answer, NoJob, store
  <2>5. CASE a = Unavailable
    BY <1>0, <2>2, <2>3, <2>5 DEF Truthful, Operation, Unavailable, Answer, NoJob
  <2> QED
    BY <2>4, <2>5
<1>9. CASE Leave(c)
  <2>1. phase'[c] = "idle" /\ effect'[c] = NoEffect
    BY <1>0, <1>9 DEF Leave, Cells, Goto
  <2> QED
    BY <2>1 DEF Truthful
<1>10. ASSUME phase[c] = "store", NEW a, Return(c, a, NoEffect), UNCHANGED store,
              a.code \notin {201, 202}, a.job = NoJob \/ Exists(a.job),
              a.error = "processing_already_active" =>
                Exists(a.job) /\ jobItem[a.job] = Operation(c).item
       PROVE  Truthful(c)'
  <2>1. /\ phase'[c] = "returned" /\ answer'[c] = a
        /\ request'[c] = request[c] /\ effect'[c] = NoEffect
    BY <1>0, <1>10, ReturnSteps DEF Return, Cells
  <2> QED
    BY <1>0, <1>10, <2>1 DEF Truthful, Operation, NamesItsJob, Exists, store
<1>11. CASE CreateWorkItem(c)
  <2>1. PICK i \in Items : API!Create(i) /\ Return(c, Answer(201, "none"), i)
    BY <1>11 DEF CreateWorkItem
  <2>2. phase[c] = "store"
    BY <1>11 DEF CreateWorkItem
  <2>3. /\ phase'[c] = "returned" /\ answer'[c] = Answer(201, "none")
        /\ request'[c] = request[c] /\ effect'[c] = i
    BY <1>0, <2>1, ReturnSteps DEF Return, Cells
  <2>4. i \in created'
    BY <2>1 DEF API!Create
  <2> QED
    BY <1>0, <2>2, <2>3, <2>4 DEF Truthful, Operation, Answer
<1>12. CASE ListWorkItems(c)
  <2>1. phase[c] = "store" /\ Return(c, Answer(200, "none"), NoEffect) /\ UNCHANGED store
    BY <1>12 DEF ListWorkItems, Read
  <2>2. /\ Answer(200, "none").code = 200 /\ Answer(200, "none").error = "none"
        /\ Answer(200, "none").job = NoJob
    BY DEF Answer
  <2> QED
    BY <1>10, <2>1, <2>2
<1>13. CASE GetProcessingJob(c)
  <2> DEFINE j == Operation(c).job
  <2>1. phase[c] = "store" /\ Operation(c).route = "GET /processing-jobs/{id}"
    BY <1>13 DEF GetProcessingJob
  <2>2. j \in Jobs
    BY <1>0, <2>1 DEF Truthful, Operations, InputError
  <2>3. CASE jobState[j] # "none"
    <3>1. Return(c, AnswerJob(200, "none", j), NoEffect) /\ UNCHANGED store
      BY <1>13, <2>3 DEF GetProcessingJob, Read
    <3>2. /\ AnswerJob(200, "none", j).code \notin {201, 202}
          /\ AnswerJob(200, "none", j).error # "processing_already_active"
          /\ AnswerJob(200, "none", j).job = j
      BY DEF AnswerJob
    <3>3. Exists(AnswerJob(200, "none", j).job)
      BY <2>2, <2>3, <3>2 DEF Exists
    <3> QED
      BY <1>10, <2>1, <3>1, <3>2, <3>3
  <2>4. CASE ~(jobState[j] # "none")
    <3>1. Return(c, Answer(404, "processing_job_not_found"), NoEffect) /\ UNCHANGED store
      BY <1>13, <2>4 DEF GetProcessingJob, Read
    <3>2. /\ Answer(404, "processing_job_not_found").code \notin {201, 202}
          /\ Answer(404, "processing_job_not_found").error # "processing_already_active"
          /\ Answer(404, "processing_job_not_found").job = NoJob
      BY DEF Answer
    <3> QED
      BY <1>10, <2>1, <3>1, <3>2
  <2> QED
    BY <2>3, <2>4
<1>14. CASE AcceptProcessingJob(c)
  <2> DEFINE i == Operation(c).item
  <2>1. phase[c] = "store"
    BY <1>14 DEF AcceptProcessingJob
  <2>2. \/ Read(c, Answer(404, "work_item_not_found"))
        \/ Read(c, Answer(409, "work_item_already_done"))
        \/ \E j \in JobsOf(i, "accepted") : Read(c, AnswerJob(409, "processing_already_active", j))
        \/ \E j \in Jobs : API!Accept(i, j) /\ Return(c, AnswerJob(202, "none", j), j)
    BY <1>14, Zenon DEF AcceptProcessingJob
  <2>3. ASSUME NEW code \in {404, 409}, NEW error \in {"work_item_not_found", "work_item_already_done"},
               Read(c, Answer(code, error))
        PROVE  Truthful(c)'
    <3>1. Return(c, Answer(code, error), NoEffect) /\ UNCHANGED store
      BY <2>3 DEF Read
    <3>2. /\ Answer(code, error).code \notin {201, 202} /\ Answer(code, error).job = NoJob
          /\ Answer(code, error).error # "processing_already_active"
      BY DEF Answer
    <3> QED
      BY <1>10, <2>1, <3>1, <3>2
  <2>4. ASSUME NEW j \in JobsOf(i, "accepted"), Read(c, AnswerJob(409, "processing_already_active", j))
        PROVE  Truthful(c)'
    <3> DEFINE a == AnswerJob(409, "processing_already_active", j)
    <3>1. Return(c, a, NoEffect) /\ UNCHANGED store
      BY <2>4 DEF Read
    <3>2. a.code \notin {201, 202} /\ a.job = j
      BY DEF AnswerJob
    <3>3. Exists(a.job) /\ jobItem[a.job] = i
      BY <2>4, <3>2 DEF JobsOf, Exists
    <3> HIDE DEF a
    <3> QED
      BY <1>10, <2>1, <3>1, <3>2, <3>3
  <2>5. ASSUME NEW j \in Jobs, API!Accept(i, j), Return(c, AnswerJob(202, "none", j), j)
        PROVE  Truthful(c)'
    <3> DEFINE a == AnswerJob(202, "none", j)
    <3>1. /\ phase'[c] = "returned" /\ answer'[c] = a
          /\ request'[c] = request[c] /\ effect'[c] = j
      BY <1>0, <2>5, ReturnSteps DEF Return, Cells
    <3>2. a.code = 202 /\ a.error = "none" /\ a.job = j
      BY DEF AnswerJob
    <3>3. jobState'[j] # "none" /\ jobItem'[j] = i
      BY <1>0, <2>5 DEF API!Accept, StoreCells
    <3> QED
      BY <1>0, <2>1, <3>1, <3>2, <3>3 DEF Truthful, Operation, NamesItsJob, Exists
  <2> QED
    BY <2>2, <2>3, <2>4, <2>5
<1> QED
  BY <1>1, <1>4, <1>5, <1>6, <1>7, <1>8, <1>9, <1>11, <1>12, <1>13, <1>14 DEF Step

(* Only Respond adds to what was told, and only the job it answers with.   *)
LEMMA StepTells ==
  ASSUME AnswerInv, NEW c \in Clients, Step(c)
  PROVE  \A j \in told' : Exists(j)'
<1>1. StoreGrows
  BY StepGrows DEF AnswerInv
<1>2. \A j : Exists(j) => Exists(j)'
  BY <1>1 DEF StoreGrows, Exists
<1>3. CASE told' \subseteq told
  BY <1>2, <1>3 DEF AnswerInv
<1>4. CASE Respond(c)
  <2>1. PICK a \in {answer[c], Unavailable} : told' = told \cup ({a.job} \ {NoJob})
    BY <1>4 DEF Respond
  <2>2. answer[c].job = NoJob \/ Exists(answer[c].job)
    BY <1>4 DEF Respond, At, AnswerInv, Truthful
  <2>3. Unavailable.job = NoJob
    BY DEF Unavailable, Answer
  <2> QED
    BY <1>2, <2>1, <2>2, <2>3 DEF AnswerInv
<1>5. \A a : Reply(c, a) => told' = told
  BY DEF Reply
<1>6. \A a, e : Return(c, a, e) => told' = told
  BY DEF Return
<1>7. RequireBearerToken(c) => told' = told
  BY <1>5, Zenon DEF RequireBearerToken, Reply, Enter, Validate
<1>8. CheckInput(c) \/ StoreFails(c) => told' = told
  BY <1>5, Zenon DEF CheckInput, StoreFails
<1>9. CreateWorkItem(c) \/ ListWorkItems(c) \/ GetProcessingJob(c) => told' = told
  BY <1>6, Zenon DEF CreateWorkItem, ListWorkItems, GetProcessingJob, Read
<1>10. AcceptProcessingJob(c) => told' = told
  BY <1>6, Zenon DEF AcceptProcessingJob, Read
<1>11. Arrive(c) \/ WithoutAuthentication(c) \/ Leave(c) => told' = told
  BY Zenon DEF Arrive, WithoutAuthentication, Enter, Leave
<1> QED
  BY <1>3, <1>4, <1>7, <1>8, <1>9, <1>10, <1>11 DEF Step

LEMMA AnswerStep == AnswerInv /\ [Next]_vars => AnswerInv'
<1> SUFFICES ASSUME AnswerInv, [Next]_vars PROVE AnswerInv'
  OBVIOUS
<1>1. GuardInv'
  BY GuardStep DEF AnswerInv
<1>2. ASSUME StoreGrows, UNCHANGED <<mode, request, phase, answer, effect, told>> PROVE AnswerInv'
  <2>1. ASSUME NEW c \in Clients PROVE Truthful(c)'
    BY <1>2, <2>1, TruthStays DEF AnswerInv
  <2>2. \A j \in told' : Exists(j)'
    BY <1>2 DEF AnswerInv, StoreGrows, Exists
  <2> QED
    BY <1>1, <1>2, <2>1, <2>2 DEF AnswerInv, StoreGrows
<1>3. CASE Work
  <2>1. \E j \in Jobs : API!FailAttempt(j) \/ API!Succeed(j)
    BY <1>3 DEF Work
  <2>2. StoreGrows
    BY <2>1, ContractGrows DEF AnswerInv
  <2> QED
    BY <1>2, <1>3, <2>2 DEF Work
<1>4. CASE UNCHANGED vars
  <2>1. StoreGrows
    BY <1>4, ContractGrows DEF AnswerInv, vars
  <2> QED
    BY <1>2, <1>4, <2>1 DEF vars
<1>5. ASSUME NEW c \in Clients, Step(c) PROVE AnswerInv'
  <2>1. Frame(c)
    BY <1>5, StepsKeepGuarded DEF AnswerInv
  <2>2. StoreGrows
    BY <1>5, StepGrows DEF AnswerInv
  <2>3. ASSUME NEW d \in Clients \ {c} PROVE Truthful(d)'
    BY <2>1, <2>2, <2>3, TruthStays DEF AnswerInv, Frame
  <2>4. Truthful(c)'
    BY <1>5, StepIsTruthful
  <2>5. \A j \in told' : Exists(j)'
    BY <1>5, StepTells
  <2> QED
    BY <1>1, <2>2, <2>3, <2>4, <2>5 DEF AnswerInv, StoreGrows
<1> QED
  BY <1>3, <1>4, <1>5 DEF Next, Step

LEMMA AnswerInvHolds == Spec => []AnswerInv
<1>1. Init => AnswerInv
  BY DEF Init, API!Init, AnswerInv, GuardInv, Cells, Guarded, StoreCells, Truthful, Jobs, API!Jobs
<1> QED
  BY <1>1, AnswerStep, PTL DEF Spec

(* Answers are true for any number of requests and whatever workers do in  *)
(* between: 503 is the only one that leaves open what happened.            *)
THEOREM AnswersHold == Spec => []AnswersAreTrue
<1>1. AnswerInv => AnswersAreTrue
  BY DEF AnswerInv, Truthful, AnswersAreTrue, At, NamesItsJob, Unavailable, Answer
<1> QED
  BY <1>1, AnswerInvHolds, PTL

(* The one answer that says a job is not there, and when it is given.      *)
LEMMA OnlyMissingJobsAreMissed ==
  ASSUME AnswerInv, NEW c \in Clients, Step(c),
         phase[c] = "store", phase'[c] = "returned", answer'[c].error = "processing_job_not_found"
  PROVE  Operation(c).job \notin told
<1> USE DEF At
<1>0. Cells
  BY DEF AnswerInv, GuardInv
<1>1. ASSUME NEW a, NEW e, Return(c, a, e), a.error # "processing_job_not_found" PROVE FALSE
  BY <1>0, <1>1, ReturnSteps
<1>2. ASSUME NEW a, Reply(c, a) PROVE FALSE
  BY <1>0, <1>2, ReplySteps
<1>3. CASE GetProcessingJob(c)
  <2> DEFINE j == Operation(c).job
  <2>1. CASE jobState[j] # "none"
    <3>1. Return(c, AnswerJob(200, "none", j), NoEffect)
      BY <1>3, <2>1 DEF GetProcessingJob, Read
    <3>2. AnswerJob(200, "none", j).error # "processing_job_not_found"
      BY DEF AnswerJob
    <3> QED
      BY <1>1, <3>1, <3>2
  <2>2. CASE ~(jobState[j] # "none")
    BY <2>2 DEF AnswerInv, Exists
  <2> QED
    BY <2>1, <2>2
<1>4. CASE CreateWorkItem(c)
  <2>1. PICK i \in Items : Return(c, Answer(201, "none"), i)
    BY <1>4 DEF CreateWorkItem
  <2>2. Answer(201, "none").error # "processing_job_not_found"
    BY DEF Answer
  <2> QED
    BY <1>1, <2>1, <2>2
<1>5. CASE ListWorkItems(c)
  <2>1. Return(c, Answer(200, "none"), NoEffect)
    BY <1>5 DEF ListWorkItems, Read
  <2>2. Answer(200, "none").error # "processing_job_not_found"
    BY DEF Answer
  <2> QED
    BY <1>1, <2>1, <2>2
<1>6. CASE AcceptProcessingJob(c)
  <2> DEFINE i == Operation(c).item
  <2>1. \/ Return(c, Answer(404, "work_item_not_found"), NoEffect)
        \/ Return(c, Answer(409, "work_item_already_done"), NoEffect)
        \/ \E j \in JobsOf(i, "accepted") : Return(c, AnswerJob(409, "processing_already_active", j), NoEffect)
        \/ \E j \in Jobs : Return(c, AnswerJob(202, "none", j), j)
    BY <1>6, Zenon DEF AcceptProcessingJob, Read
  <2>2. /\ Answer(404, "work_item_not_found").error # "processing_job_not_found"
        /\ Answer(409, "work_item_already_done").error # "processing_job_not_found"
        /\ \A j : AnswerJob(409, "processing_already_active", j).error # "processing_job_not_found"
        /\ \A j : AnswerJob(202, "none", j).error # "processing_job_not_found"
    BY DEF Answer, AnswerJob
  <2> QED
    BY <1>1, <2>1, <2>2
<1>7. CASE StoreFails(c)
  BY <1>2, <1>7 DEF StoreFails
<1> QED
  BY <1>3, <1>4, <1>5, <1>6, <1>7
     DEF Step, Arrive, WithoutAuthentication, RequireBearerToken, CheckInput, Respond, Leave

(* A job that any client was told of is found by every later read.         *)
THEOREM NamedJobsHold == Spec => NamedJobsAreFound
<1> DEFINE Found == \A c \in Clients :
             At(c, "store") /\ phase'[c] = "returned" /\ answer'[c].error = "processing_job_not_found" =>
               Operation(c).job \notin told
<1>1. ASSUME AnswerInv, [Next]_vars PROVE [Found]_vars
  <2>1. ASSUME NEW c \in Clients, At(c, "store"), phase'[c] = "returned",
               answer'[c].error = "processing_job_not_found", Next
        PROVE  Operation(c).job \notin told
    <3>1. PICK d \in Clients : Step(d)
      BY <2>1 DEF Next, Step, Work, At
    <3>2. d = c
      BY <1>1, <2>1, <3>1, StepsKeepGuarded DEF AnswerInv, Frame, At
    <3> QED
      BY <1>1, <2>1, <3>1, <3>2, OnlyMissingJobsAreMissed DEF At
  <2>2. CASE Next
    BY <2>1, <2>2
  <2>3. CASE UNCHANGED vars
    BY <2>3
  <2> QED
    BY <1>1, <2>2, <2>3
<1> QED
  BY <1>1, AnswerInvHolds, PTL DEF Spec, NamedJobsAreFound

-------------------------------------------------------------------------------
(* Types *)

(* A job that can fail or succeed once more has budget left.               *)
StoreTypes ==
  /\ created \subseteq Items
  /\ jobItem \in [Jobs -> Items \cup {NoItem}]
  /\ jobState \in [Jobs -> {"none", "accepted", "succeeded", "failed"}]
  /\ attempts \in [Jobs -> 0..MaxAttempts]
  /\ \A j \in Jobs : jobState[j] \in {"none", "accepted"} => attempts[j] < MaxAttempts

Sendable == [operation : Operations, token : Tokens \cup {NoToken}]

AnswerFits(a) == a = NoAnswer \/ (a.code \in 200..503 /\ a.job \in Jobs \cup {NoJob})

ClientTypes(c) ==
  /\ request[c] \in {NoRequest} \cup Sendable
  /\ AnswerFits(answer[c])
  /\ effect[c] \in {NoEffect} \cup Items \cup Jobs

TypeInv ==
  /\ AnswerInv
  /\ StoreTypes
  /\ mode \in {"disabled", "oidc"}
  /\ \A c \in Clients : ClientTypes(c)

(* Every change of the store is one of the contract.                       *)
StoreStep ==
  \/ UNCHANGED store
  \/ \E i \in Items : API!Create(i)
  \/ \E i \in Items, j \in Jobs : API!Accept(i, j)
  \/ \E j \in Jobs : API!FailAttempt(j) \/ API!Succeed(j)

LEMMA StoreKeepsTypes ==
  ASSUME StoreTypes, StoreStep
  PROVE  StoreTypes'
<1> USE MaxAttemptsAssumption DEF StoreTypes
<1>1. CASE UNCHANGED store
  BY <1>1 DEF store
<1>2. ASSUME NEW i \in Items, API!Create(i) PROVE StoreTypes'
  BY <1>2 DEF API!Create
<1>3. ASSUME NEW i \in Items, NEW j \in Jobs, API!Accept(i, j) PROVE StoreTypes'
  BY <1>3 DEF API!Accept
<1>4. ASSUME NEW j \in Jobs, API!FailAttempt(j) \/ API!Succeed(j) PROVE StoreTypes'
  <2>1. /\ attempts' = [attempts EXCEPT ![j] = attempts[j] + 1]
        /\ jobState[j] = "accepted" /\ attempts[j] + 1 \in 0..MaxAttempts
        /\ UNCHANGED <<created, jobItem>>
    BY <1>4 DEF API!FailAttempt, API!Succeed
  <2>2. \/ jobState' = [jobState EXCEPT ![j] = "accepted"] /\ attempts[j] + 1 < MaxAttempts
        \/ jobState' = [jobState EXCEPT ![j] = "failed"]
        \/ jobState' = [jobState EXCEPT ![j] = "succeeded"]
    BY <1>4, <2>1 DEF API!FailAttempt, API!Succeed
  <2> QED
    BY <2>1, <2>2
<1> QED
  BY <1>1, <1>2, <1>3, <1>4 DEF StoreStep

LEMMA AnswersFit ==
  ASSUME NEW code \in 200..503, NEW error
  PROVE  AnswerFits(Answer(code, error)) /\ \A j \in Jobs : AnswerFits(AnswerJob(code, error, j))
BY DEF AnswerFits, Answer, AnswerJob

(* The item of a request that reaches the store is one the path named.     *)
LEMMA StepTypes ==
  ASSUME TypeInv, NEW c \in Clients, Step(c)
  PROVE  StoreStep /\ ClientTypes(c)'
<1> USE DEF At
<1>0. Cells /\ ClientTypes(c) /\ Truthful(c) /\ StoreTypes
  BY DEF TypeInv, AnswerInv, GuardInv
<1>1. ASSUME NEW a, Reply(c, a), AnswerFits(a)
      PROVE  StoreStep /\ ClientTypes(c)'
  <2>1. answer'[c] = a /\ request'[c] = request[c] /\ effect'[c] = effect[c]
    BY <1>0, <1>1, ReplySteps
  <2> QED
    BY <1>0, <1>1, <2>1 DEF Reply, StoreStep, ClientTypes, AnswerFits
<1>2. ASSUME NEW a, NEW e \in {NoEffect} \cup Items \cup Jobs, Return(c, a, e), AnswerFits(a)
      PROVE  ClientTypes(c)'
  <2>1. /\ answer'[c] = a /\ request'[c] = request[c] /\ effect'[c] = e
    BY <1>0, <1>2, ReturnSteps DEF Return, Cells
  <2> QED
    BY <1>0, <1>2, <2>1 DEF ClientTypes, AnswerFits
<1>3. ASSUME NEW a, Read(c, a), AnswerFits(a)
      PROVE  StoreStep /\ ClientTypes(c)'
  BY <1>2, <1>3 DEF Read, StoreStep
<1>4. ASSUME NEW p, Goto(c, p), UNCHANGED <<store, mode, request, answer, effect>>
      PROVE  StoreStep /\ ClientTypes(c)'
  BY <1>0, <1>4 DEF StoreStep, ClientTypes
<1>5. CASE Arrive(c)
  <2>1. PICK r \in Sendable : request' = [request EXCEPT ![c] = r]
    BY <1>5 DEF Arrive, Sendable
  <2>2. request'[c] = r /\ UNCHANGED <<store, answer, effect>>
    BY <1>0, <1>5, <2>1 DEF Arrive, Cells
  <2> QED
    BY <1>0, <2>1, <2>2 DEF StoreStep, ClientTypes
<1>6. CASE WithoutAuthentication(c)
  BY <1>4, <1>6 DEF WithoutAuthentication, Enter
<1>7. CASE RequireBearerToken(c)
  <2>1. \/ Enter(c)
        \/ Reply(c, Answer(401, "unauthenticated"))
        \/ Reply(c, Answer(503, "authentication_unavailable"))
        \/ Reply(c, Answer(403, "insufficient_permissions"))
    <3>1. \A outcome \in Validate(Token(c)) : outcome \in {"failure", "unavailable", "principal"}
      BY DEF Validate
    <3> QED
      BY <1>7, <3>1 DEF RequireBearerToken
  <2>2. /\ AnswerFits(Answer(401, "unauthenticated"))
        /\ AnswerFits(Answer(503, "authentication_unavailable"))
        /\ AnswerFits(Answer(403, "insufficient_permissions"))
    BY AnswersFit
  <2> QED
    BY <1>1, <1>4, <2>1, <2>2 DEF Enter
<1>8. CASE CheckInput(c)
  <2>1. AnswerFits(Answer(400, InputError(Operation(c))))
    BY AnswersFit
  <2> QED
    BY <1>1, <1>4, <1>8, <2>1 DEF CheckInput
<1>9. CASE CreateWorkItem(c)
  <2>1. PICK i \in Items : API!Create(i) /\ Return(c, Answer(201, "none"), i)
    BY <1>9 DEF CreateWorkItem
  <2>2. AnswerFits(Answer(201, "none"))
    BY AnswersFit
  <2> QED
    BY <1>2, <2>1, <2>2 DEF StoreStep
<1>10. CASE ListWorkItems(c)
  <2>1. AnswerFits(Answer(200, "none"))
    BY AnswersFit
  <2> QED
    BY <1>3, <1>10, <2>1 DEF ListWorkItems
<1>11. CASE GetProcessingJob(c)
  <2>1. PICK j \in Jobs : j = Operation(c).job
    BY <1>0, <1>11 DEF GetProcessingJob, Truthful, Operations, InputError
  <2>2. AnswerFits(AnswerJob(200, "none", j))
    BY DEF AnswerFits, AnswerJob
  <2>3. AnswerFits(Answer(404, "processing_job_not_found"))
    BY AnswersFit
  <2> QED
    BY <1>3, <1>11, <2>1, <2>2, <2>3 DEF GetProcessingJob
<1>12. CASE AcceptProcessingJob(c)
  <2> DEFINE i == Operation(c).item
  <2>1. \/ Read(c, Answer(404, "work_item_not_found"))
        \/ Read(c, Answer(409, "work_item_already_done"))
        \/ \E j \in JobsOf(i, "accepted") : Read(c, AnswerJob(409, "processing_already_active", j))
        \/ \E j \in Jobs : API!Accept(i, j) /\ Return(c, AnswerJob(202, "none", j), j)
    BY <1>12, Zenon DEF AcceptProcessingJob
  <2>2. CASE Read(c, Answer(404, "work_item_not_found")) \/ Read(c, Answer(409, "work_item_already_done"))
    <3>1. AnswerFits(Answer(404, "work_item_not_found")) /\ AnswerFits(Answer(409, "work_item_already_done"))
      BY AnswersFit
    <3> QED
      BY <1>3, <2>2, <3>1
  <2>3. CASE \E j \in JobsOf(i, "accepted") : Read(c, AnswerJob(409, "processing_already_active", j))
    <3>1. PICK j \in Jobs : Read(c, AnswerJob(409, "processing_already_active", j))
      BY <2>3 DEF JobsOf
    <3>2. AnswerFits(AnswerJob(409, "processing_already_active", j))
      BY AnswersFit
    <3> QED
      BY <1>3, <3>1, <3>2
  <2>4. CASE \E j \in Jobs : API!Accept(i, j) /\ Return(c, AnswerJob(202, "none", j), j)
    <3>1. PICK j \in Jobs : API!Accept(i, j) /\ Return(c, AnswerJob(202, "none", j), j)
      BY <2>4
    <3>2. i \in Items
      BY <1>0, <3>1 DEF API!Accept, StoreTypes
    <3>3. AnswerFits(AnswerJob(202, "none", j))
      BY AnswersFit
    <3> QED
      BY <1>2, <3>1, <3>2, <3>3 DEF StoreStep
  <2> QED
    BY <2>1, <2>2, <2>3, <2>4
<1>13. CASE StoreFails(c)
  BY <1>1, <1>13, AnswersFit DEF StoreFails, Unavailable
<1>14. CASE Respond(c)
  <2>1. PICK a \in {answer[c], Unavailable} : answer' = [answer EXCEPT ![c] = a]
    BY <1>14 DEF Respond
  <2>2. answer'[c] = a /\ UNCHANGED <<store, request, effect>> /\ AnswerFits(a)
    BY <1>0, <1>14, <2>1, AnswersFit DEF Respond, Cells, ClientTypes, Unavailable
  <2> QED
    BY <1>0, <2>2 DEF StoreStep, ClientTypes, AnswerFits
<1>15. CASE Leave(c)
  <2>1. /\ request'[c] = NoRequest /\ answer'[c] = NoAnswer /\ effect'[c] = NoEffect
        /\ UNCHANGED store
    BY <1>0, <1>15 DEF Leave, Cells
  <2> QED
    BY <2>1 DEF StoreStep, ClientTypes, AnswerFits
<1> QED
  BY <1>5, <1>6, <1>7, <1>8, <1>9, <1>10, <1>11, <1>12, <1>13, <1>14, <1>15 DEF Step

(* Whatever requests and workers do together, no job spends more than its  *)
(* budget, and no answer names a job or an item the store could not have.  *)
THEOREM RequestTypes == Spec => []TypeOK
<1>1. Init => TypeInv
  <2> SUFFICES ASSUME Init PROVE TypeInv
    OBVIOUS
  <2>1. AnswerInv
    BY DEF Init, API!Init, AnswerInv, GuardInv, Cells, Guarded, StoreCells, Truthful, Jobs, API!Jobs
  <2>2. StoreTypes
    BY MaxAttemptsAssumption DEF Init, API!Init, API!Jobs, Jobs, StoreTypes
  <2> QED
    BY <2>1, <2>2 DEF Init, TypeInv, ClientTypes, AnswerFits
<1>2. TypeInv /\ [Next]_vars => TypeInv'
  <2> SUFFICES ASSUME TypeInv, [Next]_vars PROVE TypeInv'
    OBVIOUS
  <2>0. AnswerInv'
    BY AnswerStep DEF TypeInv
  <2>1. ASSUME NEW c \in Clients, Step(c) PROVE TypeInv'
    <3>1. Frame(c) /\ StoreTypes' /\ ClientTypes(c)'
      BY <2>1, StepTypes, StoreKeepsTypes, StepsKeepGuarded DEF TypeInv, AnswerInv
    <3>2. ASSUME NEW d \in Clients \ {c} PROVE ClientTypes(d)'
      BY <3>1, <3>2 DEF TypeInv, Frame, ClientTypes, AnswerFits
    <3> QED
      BY <2>0, <3>1, <3>2 DEF TypeInv, Frame
  <2>2. CASE Work \/ UNCHANGED vars
    <3>1. StoreStep /\ UNCHANGED <<mode, request, answer, effect>>
      BY <2>2 DEF Work, vars, StoreStep
    <3>2. StoreTypes'
      BY <3>1, StoreKeepsTypes DEF TypeInv
    <3> QED
      BY <2>0, <3>1, <3>2 DEF TypeInv, ClientTypes, AnswerFits
  <2> QED
    BY <2>1, <2>2 DEF Next, Step
<1>3. TypeInv => TypeOK
  <2> SUFFICES ASSUME TypeInv PROVE TypeOK
    OBVIOUS
  <2>1. Cells /\ \A c \in Clients : ClientTypes(c) /\ Guarded(c)
    BY DEF TypeInv, AnswerInv, GuardInv
  <2>2. told \subseteq Jobs
    <3>1. told \subseteq {j \in told : Exists(j)}
      BY DEF TypeInv, AnswerInv
    <3> QED
      BY <3>1 DEF Exists
  <2>3. /\ request \in [Clients -> {NoRequest} \cup Sendable]
        /\ effect \in [Clients -> {NoEffect} \cup Items \cup Jobs]
    BY <2>1 DEF Cells, ClientTypes
  <2>4. phase \in [Clients -> {"idle", "guard", "handler", "store", "returned", "answered"}]
    BY <2>1 DEF Cells, Guarded
  <2> QED
    BY <2>1, <2>2, <2>3, <2>4 DEF TypeInv, TypeOK, StoreTypes, Sendable, ClientTypes, AnswerFits
<1> QED
  BY <1>1, <1>2, <1>3, PTL DEF Spec
===============================================================================
