---------------------------- MODULE OutboxDelivery ----------------------------
(***************************************************************************)
(* The way of a processing job through the system: the API accepts it in   *)
(* one database transaction with an outbox row, publishers copy outbox     *)
(* rows to the RabbitMQ queue, workers take deliveries, record the outcome *)
(* in the database and settle the delivery.                                *)
(*                                                                         *)
(* Each database call is one step, because the code issues it as one       *)
(* statement or as one transaction; everything between two calls of a      *)
(* process is open to every other process.  A call may also fail, before   *)
(* or after it took effect.  A copy of a message carries only its job: the *)
(* payload is written from the job row in the transaction that inserts it. *)
(***************************************************************************)
EXTENDS Naturals, FiniteSets

CONSTANTS Items,             \* work item identities
          NoItem,            \* jobItem of a job that was never accepted
          MaxJobs,           \* bound: identities the sequences hand out
          Workers,           \* worker processes
          Publishers,        \* outbox publishers, one in each API process
          MaxAttempts,       \* workerProcessingMaxAttempts
          ProcessorMayFail,  \* may a processor return an error?
          MaxFaults          \* bound: crashes, lost connections, failed calls

Jobs == 1..MaxJobs
NoJob == 0

ASSUME ItemsAssumption == NoItem \notin Items
ASSUME BoundsAssumption == MaxJobs \in Nat /\ MaxFaults \in Nat
ASSUME MaxAttemptsAssumption == MaxAttempts \in Nat \ {0}
ASSUME ProcessorAssumption == ProcessorMayFail \in BOOLEAN

VARIABLES
  status,       \* work_items.status, "absent" before the row exists
  result,       \* the job of the item's work_item_results row, NoJob without one
  jobState,     \* processing_jobs.state, "none" before the row exists
  jobItem,      \* processing_jobs.work_item_id
  attempts,     \* processing_jobs.attempt_count
  outbox,       \* outbox_messages.published_at of the job's row
  outboxError,  \* outbox_messages.last_error_code is set
  ready,        \* copies of the job's message the queue can deliver
  pphase,       \* where each publisher is in its loop
  pjob,         \* the outbox row a publisher has in hand
  wphase,       \* where each worker is in its session
  delivery,     \* the delivery a worker has in hand
  settlement,   \* the settlement it decided on
  linked,       \* the broker regards the worker's consumer as alive
  faults        \* faults so far

items == <<status, result>>
jobs == <<jobState, jobItem, attempts>>
rows == <<outbox, outboxError>>
publishers == <<pphase, pjob>>
workers == <<wphase, delivery, settlement, linked>>
vars == <<items, jobs, rows, ready, publishers, workers, faults>>

Terminal == {"succeeded", "failed"}

TypeOK ==
  /\ status \in [Items -> {"absent", "pending", "done"}]
  /\ result \in [Items -> Jobs \cup {NoJob}]
  /\ jobState \in [Jobs -> {"none", "accepted"} \cup Terminal]
  /\ jobItem \in [Jobs -> Items \cup {NoItem}]
  /\ attempts \in [Jobs -> Nat]
  /\ outbox \in [Jobs -> {"none", "unpublished", "published"}]
  /\ outboxError \in [Jobs -> BOOLEAN]
  /\ ready \in [Jobs -> Nat]
  /\ pphase \in [Publishers -> {"down", "idle", "publish", "mark", "record"}]
  /\ pjob \in [Publishers -> Jobs \cup {NoJob}]
  /\ wphase \in [Workers -> {"down", "idle", "inspect", "process", "fail", "complete", "settle"}]
  /\ delivery \in [Workers -> Jobs \cup {NoJob}]
  /\ settlement \in [Workers -> {"none", "ack", "nack_requeue", "reject"}]
  /\ linked \in [Workers -> BOOLEAN]
  /\ faults \in Nat

Init ==
  /\ status = [i \in Items |-> "absent"]
  /\ result = [i \in Items |-> NoJob]
  /\ jobState = [j \in Jobs |-> "none"]
  /\ jobItem = [j \in Jobs |-> NoItem]
  /\ attempts = [j \in Jobs |-> 0]
  /\ outbox = [j \in Jobs |-> "none"]
  /\ outboxError = [j \in Jobs |-> FALSE]
  /\ ready = [j \in Jobs |-> 0]
  /\ pphase = [p \in Publishers |-> "down"]
  /\ pjob = [p \in Publishers |-> NoJob]
  /\ wphase = [w \in Workers |-> "down"]
  /\ delivery = [w \in Workers |-> NoJob]
  /\ settlement = [w \in Workers |-> "none"]
  /\ linked = [w \in Workers |-> FALSE]
  /\ faults = 0

NoFault == UNCHANGED faults
Fault == faults < MaxFaults /\ faults' = faults + 1

-------------------------------------------------------------------------------
(* API requests *)

CreateWorkItem(i) ==
  /\ status[i] = "absent"
  /\ status' = [status EXCEPT ![i] = "pending"]
  /\ UNCHANGED <<result, jobs, rows, ready, publishers, workers, faults>>

ActiveJobs(i) == {j \in Jobs : jobItem[j] = i /\ jobState[j] = "accepted"}

(* Job and outbox row are inserted together.  Their identities come from   *)
(* sequences outside the transaction, so a rolled back or slower request   *)
(* makes any unused identity the next one to appear.  j orders the outbox. *)
AcceptProcessingJob(i, j) ==
  /\ status[i] = "pending"
  /\ ActiveJobs(i) = {}
  /\ jobState[j] = "none"
  /\ jobState' = [jobState EXCEPT ![j] = "accepted"]
  /\ jobItem' = [jobItem EXCEPT ![j] = i]
  /\ outbox' = [outbox EXCEPT ![j] = "unpublished"]
  /\ UNCHANGED <<items, attempts, outboxError, ready, publishers, workers, faults>>

-------------------------------------------------------------------------------
(* The outbox publisher loop *)

ConnectPublisher(p) ==
  /\ pphase[p] = "down"
  /\ pphase' = [pphase EXCEPT ![p] = "idle"]
  /\ UNCHANGED <<items, jobs, rows, ready, pjob, workers, faults>>

Unpublished == {j \in Jobs : outbox[j] = "unpublished"}

(* A variant of Claimable that never comes back to a row with an error. *)
ClaimableUntried(p) ==
  {j \in Unpublished :
     /\ ~outboxError[j]
     /\ \A k \in Unpublished : k < j => \E q \in Publishers \ {p} : pjob[q] = k}

(* The lowest unpublished row, passing over rows locked at this moment.    *)
(* Row locks last for one statement, so only a row another publisher has   *)
(* in hand can be locked, and it can just as well be claimed a second time.*)
Claimable(p) ==
  {j \in Unpublished :
     \A k \in Unpublished : k < j => \E q \in Publishers \ {p} : pjob[q] = k}

BeginOutboxPublishAttempt(p) ==
  /\ pphase[p] = "idle"
  /\ \E j \in Claimable(p) : pjob' = [pjob EXCEPT ![p] = j]
  /\ pphase' = [pphase EXCEPT ![p] = "publish"]
  /\ UNCHANGED <<items, jobs, rows, ready, workers, faults>>

(* errNoOutboxMessage: wait for idlePollDelay and look again. *)
IdlePoll(p) ==
  /\ pphase[p] = "idle"
  /\ Unpublished = {}
  /\ UNCHANGED vars

Publish(p) ==
  /\ pphase[p] = "publish"
  /\ ready' = [ready EXCEPT ![pjob[p]] = @ + 1]
  /\ pphase' = [pphase EXCEPT ![p] = "mark"]
  /\ UNCHANGED <<items, jobs, rows, pjob, workers, faults>>

(* A variant of PublishFails that takes a missed confirmation for success. *)
PublishFailureIgnored(p) ==
  /\ pphase[p] = "publish"
  /\ \/ UNCHANGED ready
     \/ ready' = [ready EXCEPT ![pjob[p]] = @ + 1]
  /\ pphase' = [pphase EXCEPT ![p] = "mark"]
  /\ Fault
  /\ UNCHANGED <<items, jobs, rows, pjob, workers>>

(* Publish returns an error: returned or nacked messages are not in the    *)
(* queue, but when the confirmation is missed the message may be.          *)
PublishFails(p) ==
  /\ pphase[p] = "publish"
  /\ \/ UNCHANGED ready
     \/ ready' = [ready EXCEPT ![pjob[p]] = @ + 1]
  /\ pphase' = [pphase EXCEPT ![p] = "record"]
  /\ Fault
  /\ UNCHANGED <<items, jobs, rows, pjob, workers>>

(* A publisher keeps its connection when the store fails and drops it when *)
(* the broker did; either way it lets go of the row.                       *)
LetGo(p, phase) ==
  /\ pphase' = [pphase EXCEPT ![p] = phase]
  /\ pjob' = [pjob EXCEPT ![p] = NoJob]

(* UPDATE ... WHERE published_at IS NULL; when another publisher was first *)
(* no row changes and the error only makes the loop wait.                  *)
MarkOutboxPublished(p) ==
  /\ pphase[p] = "mark"
  /\ LetGo(p, "idle")
  /\ IF outbox[pjob[p]] = "unpublished"
     THEN /\ outbox' = [outbox EXCEPT ![pjob[p]] = "published"]
          /\ outboxError' = [outboxError EXCEPT ![pjob[p]] = FALSE]
     ELSE UNCHANGED rows
  /\ UNCHANGED <<items, jobs, ready, workers, faults>>

(* A variant of RecordOutboxPublishFailure without "published_at IS NULL". *)
RecordFailureUnguarded(p) ==
  /\ pphase[p] = "record"
  /\ LetGo(p, "down")
  /\ outboxError' = [outboxError EXCEPT ![pjob[p]] = TRUE]
  /\ UNCHANGED <<items, jobs, outbox, ready, workers, faults>>

RecordOutboxPublishFailure(p) ==
  /\ pphase[p] = "record"
  /\ LetGo(p, "down")
  /\ IF outbox[pjob[p]] = "unpublished"
     THEN outboxError' = [outboxError EXCEPT ![pjob[p]] = TRUE]
     ELSE UNCHANGED outboxError
  /\ UNCHANGED <<items, jobs, outbox, ready, workers, faults>>

(* The store does not carry out the update after an attempt to publish. *)
PublisherStoreFails(p) ==
  /\ \/ pphase[p] = "mark" /\ LetGo(p, "idle")
     \/ pphase[p] = "record" /\ LetGo(p, "down")
  /\ Fault
  /\ UNCHANGED <<items, jobs, rows, ready, workers>>

(* The API process stops, wherever its publisher is, and starts again. *)
PublisherCrash(p) ==
  /\ pphase[p] # "down"
  /\ LetGo(p, "down")
  /\ Fault
  /\ UNCHANGED <<items, jobs, rows, ready, workers>>

-------------------------------------------------------------------------------
(* The broker and the worker sessions *)

StartSession(w) ==
  /\ wphase[w] = "down"
  /\ wphase' = [wphase EXCEPT ![w] = "idle"]
  /\ linked' = [linked EXCEPT ![w] = TRUE]
  /\ UNCHANGED <<items, jobs, rows, ready, publishers, delivery, settlement, faults>>

(* With a prefetch of one, a consumer gets a message when it has none      *)
(* unsettled.                                                              *)
Deliver(w, j) ==
  /\ wphase[w] = "idle"
  /\ linked[w]
  /\ ready[j] > 0
  /\ ready' = [ready EXCEPT ![j] = @ - 1]
  /\ delivery' = [delivery EXCEPT ![w] = j]
  /\ wphase' = [wphase EXCEPT ![w] = "inspect"]
  /\ UNCHANGED <<items, jobs, rows, publishers, settlement, linked, faults>>

(* The queue after the broker gives up on w's consumer. *)
Requeued(w) ==
  IF linked[w] /\ delivery[w] # NoJob
  THEN [ready EXCEPT ![delivery[w]] = @ + 1]
  ELSE ready

(* The connection breaks: the broker requeues what w has not settled while *)
(* w, which only notices when it uses the connection, goes on.             *)
ConnectionLost(w) ==
  /\ linked[w]
  /\ linked' = [linked EXCEPT ![w] = FALSE]
  /\ ready' = Requeued(w)
  /\ Fault
  /\ UNCHANGED <<items, jobs, rows, publishers, wphase, delivery, settlement>>

(* errWorkerDeliveryStreamClosed ends the session of a waiting worker. *)
StreamClosed(w) ==
  /\ wphase[w] = "idle"
  /\ ~linked[w]
  /\ wphase' = [wphase EXCEPT ![w] = "down"]
  /\ UNCHANGED <<items, jobs, rows, ready, publishers, delivery, settlement, linked, faults>>

WorkerCrash(w) ==
  /\ wphase[w] # "down"
  /\ wphase' = [wphase EXCEPT ![w] = "down"]
  /\ delivery' = [delivery EXCEPT ![w] = NoJob]
  /\ settlement' = [settlement EXCEPT ![w] = "none"]
  /\ linked' = [linked EXCEPT ![w] = FALSE]
  /\ ready' = Requeued(w)
  /\ Fault
  /\ UNCHANGED <<items, jobs, rows, publishers>>

-------------------------------------------------------------------------------
(* Handling one delivery *)

Decide(w, s) ==
  /\ settlement' = [settlement EXCEPT ![w] = s]
  /\ wphase' = [wphase EXCEPT ![w] = "settle"]

(* A variant of GetProcessingJob that requeues what is already terminal. *)
RequeueTerminal(w) ==
  LET j == delivery[w] IN
  /\ wphase[w] = "inspect"
  /\ IF jobState[j] = "accepted"
     THEN wphase' = [wphase EXCEPT ![w] = "process"] /\ UNCHANGED settlement
     ELSE Decide(w, IF jobState[j] = "none" THEN "reject" ELSE "nack_requeue")
  /\ UNCHANGED <<items, jobs, rows, ready, publishers, delivery, linked, faults>>

GetProcessingJob(w) ==
  LET j == delivery[w] IN
  /\ wphase[w] = "inspect"
  /\ IF jobState[j] = "accepted"
     THEN wphase' = [wphase EXCEPT ![w] = "process"] /\ UNCHANGED settlement
     ELSE Decide(w, IF jobState[j] = "none" THEN "reject" ELSE "ack")
  /\ UNCHANGED <<items, jobs, rows, ready, publishers, delivery, linked, faults>>

Process(w) ==
  /\ wphase[w] = "process"
  /\ \/ wphase' = [wphase EXCEPT ![w] = "complete"]
     \/ ProcessorMayFail /\ wphase' = [wphase EXCEPT ![w] = "fail"]
  /\ UNCHANGED <<items, jobs, rows, ready, publishers, delivery, settlement, linked, faults>>

(* A variant of SpendAttempt that compares the count before the increment. *)
SpendAttemptLate(j) ==
  /\ attempts' = [attempts EXCEPT ![j] = @ + 1]
  /\ jobState' = [jobState EXCEPT
                    ![j] = IF attempts[j] >= MaxAttempts THEN "failed" ELSE "accepted"]
  /\ UNCHANGED <<items, jobItem>>

(* The guarded UPDATE: one more attempt, terminal when the budget is spent.*)
SpendAttempt(j) ==
  /\ attempts' = [attempts EXCEPT ![j] = @ + 1]
  /\ jobState' = [jobState EXCEPT
                    ![j] = IF attempts[j] + 1 >= MaxAttempts THEN "failed" ELSE "accepted"]
  /\ UNCHANGED <<items, jobItem>>

(* A variant of RecordProcessingFailure without "state = 'accepted'". *)
RecordProcessingFailureUnguarded(w) ==
  LET j == delivery[w] IN
  /\ wphase[w] = "fail"
  /\ SpendAttempt(j)
  /\ Decide(w, IF attempts[j] + 1 >= MaxAttempts THEN "ack" ELSE "nack_requeue")
  /\ UNCHANGED <<rows, ready, publishers, delivery, linked, faults>>

RecordProcessingFailure(w) ==
  LET j == delivery[w] IN
  /\ wphase[w] = "fail"
  /\ IF jobState[j] = "accepted"
     THEN SpendAttempt(j) /\ Decide(w, IF attempts[j] + 1 >= MaxAttempts THEN "ack" ELSE "nack_requeue")
     ELSE UNCHANGED <<items, jobs>> /\ Decide(w, IF jobState[j] = "none" THEN "reject" ELSE "ack")
  /\ UNCHANGED <<rows, ready, publishers, delivery, linked, faults>>

(* The completion transaction: result, item and job change together. *)
CommitSuccess(j) ==
  LET i == jobItem[j] IN
  /\ result' = [result EXCEPT ![i] = j]
  /\ status' = [status EXCEPT ![i] = "done"]
  /\ jobState' = [jobState EXCEPT ![j] = "succeeded"]
  /\ attempts' = [attempts EXCEPT ![j] = @ + 1]
  /\ UNCHANGED jobItem

(* The transaction gets to its commit: job accepted, item pending, and no  *)
(* earlier result in the way of the insert.                                *)
Completable(j) == /\ jobState[j] = "accepted"
                  /\ status[jobItem[j]] = "pending"
                  /\ result[jobItem[j]] = NoJob

CompleteProcessingJob(w) ==
  LET j == delivery[w] IN
  /\ wphase[w] = "complete"
  /\ IF Completable(j)
     THEN CommitSuccess(j) /\ Decide(w, "ack")
     ELSE /\ UNCHANGED <<items, jobs>>
          /\ Decide(w, IF jobState[j] \in Terminal THEN "ack"
                       ELSE IF jobState[j] = "none" \/ status[jobItem[j]] # "pending" THEN "reject"
                       ELSE "nack_requeue")
  /\ UNCHANGED <<rows, ready, publishers, delivery, linked, faults>>

(* A failure recorded between the transaction's read of the job and its    *)
(* guarded update, which then matches no row and rolls everything back.    *)
CompletionOvertaken(w) ==
  /\ wphase[w] = "complete"
  /\ jobState[delivery[w]] = "failed"
  /\ Decide(w, "nack_requeue")
  /\ UNCHANGED <<items, jobs, rows, ready, publishers, delivery, linked, faults>>

(* Variants of WorkerStoreFails: one acknowledges what it could not record, *)
(* one spends an attempt on a database failure.                            *)
WorkerStoreFailsAcked(w) ==
  /\ wphase[w] \in {"inspect", "fail", "complete"}
  /\ Decide(w, "ack")
  /\ Fault
  /\ UNCHANGED <<items, jobs, rows, ready, publishers, delivery, linked>>

WorkerStoreFailsCounted(w) ==
  /\ wphase[w] = "complete"
  /\ jobState[delivery[w]] = "accepted"
  /\ SpendAttempt(delivery[w])
  /\ Decide(w, "nack_requeue")
  /\ Fault
  /\ UNCHANGED <<rows, ready, publishers, delivery, linked>>

(* A database call of the worker returns an error; a write may have been   *)
(* committed all the same.                                                 *)
WorkerStoreFails(w) ==
  LET j == delivery[w] IN
  /\ wphase[w] \in {"inspect", "fail", "complete"}
  /\ \/ UNCHANGED <<items, jobs>>
     \/ wphase[w] = "fail" /\ jobState[j] = "accepted" /\ SpendAttempt(j)
     \/ wphase[w] = "complete" /\ Completable(j) /\ CommitSuccess(j)
  /\ Decide(w, "nack_requeue")
  /\ Fault
  /\ UNCHANGED <<rows, ready, publishers, delivery, linked>>

(* A settlement reaches the broker only over the session's connection; an  *)
(* error, like a requeue, ends the session.                                *)
SettleDelivery(w) ==
  LET requeue == settlement[w] = "nack_requeue"
      stays == linked[w] /\ ~requeue IN
  /\ wphase[w] = "settle"
  /\ ready' = IF requeue THEN Requeued(w) ELSE ready
  /\ wphase' = [wphase EXCEPT ![w] = IF stays THEN "idle" ELSE "down"]
  /\ linked' = [linked EXCEPT ![w] = stays]
  /\ delivery' = [delivery EXCEPT ![w] = NoJob]
  /\ settlement' = [settlement EXCEPT ![w] = "none"]
  /\ UNCHANGED <<items, jobs, rows, publishers, faults>>

-------------------------------------------------------------------------------
PublisherStep(p) ==
  \/ ConnectPublisher(p)
  \/ BeginOutboxPublishAttempt(p)
  \/ Publish(p)
  \/ MarkOutboxPublished(p)
  \/ RecordOutboxPublishFailure(p)

WorkerStep(w) ==
  \/ StartSession(w)
  \/ StreamClosed(w)
  \/ GetProcessingJob(w)
  \/ Process(w)
  \/ RecordProcessingFailure(w)
  \/ CompleteProcessingJob(w)
  \/ SettleDelivery(w)

Request == \/ \E i \in Items : CreateWorkItem(i)
           \/ \E i \in Items, j \in Jobs : AcceptProcessingJob(i, j)

PublisherNext(p) ==
  PublisherStep(p) \/ IdlePoll(p) \/ PublishFails(p) \/ PublisherStoreFails(p) \/ PublisherCrash(p)

WorkerNext(w) ==
  \/ WorkerStep(w)
  \/ \E j \in Jobs : Deliver(w, j)
  \/ CompletionOvertaken(w)
  \/ WorkerStoreFails(w)
  \/ ConnectionLost(w)
  \/ WorkerCrash(w)

Next == \/ Request
        \/ \E p \in Publishers : PublisherNext(p)
        \/ \E w \in Workers : WorkerNext(w)

Spec == Init /\ [][Next]_vars

(* The loops of a running process never stop, and the broker hands a ready *)
(* message to a waiting consumer.  That a crashed process is started again *)
(* is the operator's part; the code's part is to need nothing else.        *)
(* Requests and faults are owed by nobody.                                 *)
Fairness == /\ \A p \in Publishers : WF_vars(PublisherStep(p))
            /\ \A w \in Workers : WF_vars(WorkerStep(w))
            /\ WF_vars(\E w \in Workers, j \in Jobs : Deliver(w, j))

FairSpec == Spec /\ Fairness

-------------------------------------------------------------------------------
(* Properties *)

(* ADR 0003's success invariant: an item is done exactly when it has a     *)
(* result, and results and succeeded jobs correspond one to one, across    *)
(* duplicate deliveries, lost settlements and uncertain commits.           *)
SuccessInvariant ==
  /\ \A i \in Items : (status[i] = "done") <=> (result[i] # NoJob)
  /\ \A i \in Items : result[i] # NoJob =>
       jobState[result[i]] = "succeeded" /\ jobItem[result[i]] = i
  /\ \A j \in Jobs : jobState[j] = "succeeded" => result[jobItem[j]] = j

(* At most one of an item's jobs is accepted or succeeded, although        *)
(* acceptance looks at item status and active jobs only.                   *)
OneActiveJob ==
  \A j, k \in Jobs :
    /\ jobItem[j] = jobItem[k]
    /\ jobState[j] \in {"accepted", "succeeded"}
    /\ jobState[k] \in {"accepted", "succeeded"}
    => j = k

InBroker(j) == ready[j] > 0 \/ \E w \in Workers : linked[w] /\ delivery[w] = j

(* An accepted job is never forgotten: its outbox row is still to be       *)
(* published, or the broker holds a copy of its message, whatever crashes, *)
(* missed confirmations and lost settlements come before.                  *)
AcceptedHasCarrier ==
  \A j \in Jobs : jobState[j] = "accepted" => outbox[j] = "unpublished" \/ InBroker(j)

(* Without a database restore no message is ever rejected, that is dropped *)
(* for good: the reject branches of the handler are for foreign messages.  *)
NeverRejected == \A w \in Workers : settlement[w] # "reject"

(* The retry budget: an active job has budget left, a failed job has used  *)
(* exactly all of it, however many workers spend attempts on it at once.   *)
RetryBudget ==
  \A j \in Jobs :
    /\ jobState[j] = "none" => attempts[j] = 0
    /\ jobState[j] = "accepted" => attempts[j] < MaxAttempts
    /\ jobState[j] = "succeeded" => attempts[j] \in 1..MaxAttempts
    /\ jobState[j] = "failed" => attempts[j] = MaxAttempts

(* Lost connections, crashes and failed or uncertain database calls spend  *)
(* no attempt of their own: the count of a job rises with its success or   *)
(* when a worker records that the processor failed on this very job.       *)
OnlyProcessorSpendsAttempts ==
  [][\A j \in Jobs : attempts'[j] # attempts[j] =>
       \/ jobState'[j] = "succeeded"
       \/ \E w \in Workers : delivery[w] = j /\ wphase[w] = "fail" /\ wphase'[w] = "settle"]_vars

(* A published row carries no error code, even when one publisher marks    *)
(* the row while another one records that its own attempt failed.          *)
PublishedRowHasNoError == \A j \in Jobs : outbox[j] = "published" => ~outboxError[j]

CopiesInBroker(j) == ready[j] + Cardinality({w \in Workers : linked[w] /\ delivery[w] = j})

(* The delivery machinery implements the processing contract, and under    *)
(* Fairness every accepted job is resolved.                                *)
Contract == INSTANCE ProcessingContract WITH created <- {i \in Items : status[i] # "absent"}
ContractSafety == Contract!Safety
ContractSpec == Contract!Spec

(* Publishing comes to rest: every row is published and every duplicate    *)
(* copy consumed, with no message circulating forever.                     *)
Drained == <>[](Unpublished = {} /\ \A j \in Jobs : CopiesInBroker(j) = 0)

-------------------------------------------------------------------------------
(* The inductive invariant: what connects the processes' hands, the queue  *)
(* and the database between two steps.                                     *)

(* Messages, outbox rows and deliveries exist only for jobs that do. *)
JobsExist ==
  \A j \in Jobs :
    IF jobState[j] = "none"
    THEN jobItem[j] = NoItem /\ outbox[j] = "none" /\ ready[j] = 0
    ELSE jobItem[j] \in Items /\ status[jobItem[j]] # "absent" /\ outbox[j] # "none"

PublishersHoldRows ==
  \A p \in Publishers :
    IF pphase[p] \in {"down", "idle"}
    THEN pjob[p] = NoJob
    ELSE pjob[p] \in Jobs /\ jobState[pjob[p]] # "none"

WorkersHoldDeliveries ==
  \A w \in Workers :
    /\ IF wphase[w] \in {"down", "idle"}
       THEN delivery[w] = NoJob
       ELSE delivery[w] \in Jobs /\ jobState[delivery[w]] # "none"
    /\ wphase[w] # "settle" => settlement[w] = "none"

(* Settling loses nothing: only the delivery of a terminal job is acked. *)
SettlementsAreSafe ==
  \A w \in Workers : wphase[w] = "settle" =>
    \/ settlement[w] = "nack_requeue"
    \/ settlement[w] = "ack" /\ jobState[delivery[w]] \in Terminal

(* Between the broker's confirmation and the mark, an active job's message *)
(* is still with the broker.                                               *)
ConfirmedIsInBroker ==
  \A p \in Publishers :
    pphase[p] = "mark" /\ jobState[pjob[p]] = "accepted" => InBroker(pjob[p])

DatabaseInv == SuccessInvariant /\ OneActiveJob /\ RetryBudget
HandsInv == JobsExist /\ PublishersHoldRows /\ WorkersHoldDeliveries
CarrierInv == SettlementsAreSafe /\ ConfirmedIsInBroker /\ AcceptedHasCarrier

DeliveryInv == TypeOK /\ HandsInv /\ DatabaseInv /\ CarrierInv
===============================================================================
