------------------------- MODULE OutboxDeliveryProofs -------------------------
(***************************************************************************)
(* Proofs about OutboxDelivery, for every set of items, workers and        *)
(* publishers, every retry budget and every number of faults.              *)
(***************************************************************************)
EXTENDS OutboxDelivery, TLAPS

-------------------------------------------------------------------------------
(* Type correctness *)

(* Counting one more at any index, known or not, keeps a table of naturals.*)
LEMMA CountUp ==
  ASSUME NEW f \in [Jobs -> Nat], NEW x
  PROVE  [f EXCEPT ![x] = @ + 1] \in [Jobs -> Nat]
<1>1. CASE x \in Jobs
  BY <1>1
<1>2. CASE x \notin Jobs
  BY <1>2
<1> QED
  BY <1>1, <1>2

LEMMA NoJobIsNoJob == NoJob \notin Jobs
  BY BoundsAssumption DEF NoJob, Jobs

LEMMA TypeInit == Init => TypeOK
  BY BoundsAssumption DEF Init, TypeOK, Jobs, NoJob, Terminal

(* Every action keeps the variables within their types. *)
LEMMA TypeStep == TypeOK /\ [Next]_vars => TypeOK'
<1> SUFFICES ASSUME TypeOK, [Next]_vars PROVE TypeOK'
  OBVIOUS
<1> USE DEF TypeOK, items, jobs, rows, publishers, workers, Terminal, Fault
<1>1. CASE UNCHANGED vars
  BY <1>1 DEF vars
<1>2. ASSUME NEW i \in Items, CreateWorkItem(i) PROVE TypeOK'
  BY <1>2 DEF CreateWorkItem
<1>3. ASSUME NEW i \in Items, NEW j \in Jobs, AcceptProcessingJob(i, j) PROVE TypeOK'
  BY <1>3 DEF AcceptProcessingJob
<1>4. ASSUME NEW p \in Publishers, ConnectPublisher(p) PROVE TypeOK'
  BY <1>4 DEF ConnectPublisher
<1>5. ASSUME NEW p \in Publishers, BeginOutboxPublishAttempt(p) PROVE TypeOK'
  BY <1>5 DEF BeginOutboxPublishAttempt, Claimable, Unpublished
<1>6. ASSUME NEW p \in Publishers, Publish(p) PROVE TypeOK'
  <2>1. ready' \in [Jobs -> Nat]
    BY <1>6, CountUp DEF Publish
  <2> QED BY <1>6, <2>1 DEF Publish
<1>7. ASSUME NEW p \in Publishers, MarkOutboxPublished(p) PROVE TypeOK'
  <2>1. outbox' \in [Jobs -> {"none", "unpublished", "published"}]
    BY <1>7 DEF MarkOutboxPublished
  <2>2. outboxError' \in [Jobs -> BOOLEAN]
    BY <1>7 DEF MarkOutboxPublished
  <2>3. /\ pphase' \in [Publishers -> {"down", "idle", "publish", "mark", "record"}]
        /\ pjob' \in [Publishers -> Jobs \cup {NoJob}]
    BY <1>7 DEF MarkOutboxPublished, LetGo
  <2> QED BY <1>7, <2>1, <2>2, <2>3 DEF MarkOutboxPublished
<1>8. ASSUME NEW p \in Publishers, RecordOutboxPublishFailure(p) PROVE TypeOK'
  BY <1>8 DEF RecordOutboxPublishFailure, LetGo
<1>9. ASSUME NEW p \in Publishers, PublishFails(p) PROVE TypeOK'
  BY <1>9 DEF PublishFails
<1>10. ASSUME NEW p \in Publishers, PublisherStoreFails(p) PROVE TypeOK'
  BY <1>10 DEF PublisherStoreFails, LetGo
<1>11. ASSUME NEW p \in Publishers, PublisherCrash(p) PROVE TypeOK'
  BY <1>11 DEF PublisherCrash, LetGo
<1>12. ASSUME NEW w \in Workers, StartSession(w) PROVE TypeOK'
  BY <1>12 DEF StartSession
<1>13. ASSUME NEW w \in Workers, NEW j \in Jobs, Deliver(w, j) PROVE TypeOK'
  BY <1>13 DEF Deliver
<1>14. ASSUME NEW w \in Workers, ConnectionLost(w) PROVE TypeOK'
  BY <1>14 DEF ConnectionLost, Requeued
<1>15. ASSUME NEW w \in Workers, StreamClosed(w) PROVE TypeOK'
  BY <1>15 DEF StreamClosed
<1>16. ASSUME NEW w \in Workers, WorkerCrash(w) PROVE TypeOK'
  BY <1>16 DEF WorkerCrash, Requeued
<1>17. ASSUME NEW w \in Workers, GetProcessingJob(w) PROVE TypeOK'
  BY <1>17 DEF GetProcessingJob, Decide
<1>18. ASSUME NEW w \in Workers, Process(w) PROVE TypeOK'
  BY <1>18 DEF Process
<1>19. ASSUME NEW w \in Workers, RecordProcessingFailure(w) PROVE TypeOK'
  BY <1>19 DEF RecordProcessingFailure, SpendAttempt, Decide
<1>20. ASSUME NEW w \in Workers, CompleteProcessingJob(w) PROVE TypeOK'
  BY <1>20 DEF CompleteProcessingJob, CommitSuccess, Decide
<1>21. ASSUME NEW w \in Workers, CompletionOvertaken(w) PROVE TypeOK'
  BY <1>21 DEF CompletionOvertaken, Decide
<1>22. ASSUME NEW w \in Workers, WorkerStoreFails(w) PROVE TypeOK'
  BY <1>22 DEF WorkerStoreFails, SpendAttempt, CommitSuccess, Decide
<1>23. ASSUME NEW w \in Workers, SettleDelivery(w) PROVE TypeOK'
  BY <1>23 DEF SettleDelivery, Requeued
<1>24. ASSUME NEW p \in Publishers, IdlePoll(p) PROVE TypeOK'
  BY <1>1, <1>24 DEF IdlePoll
<1> HIDE DEF TypeOK, items, jobs, rows, publishers, workers, Terminal, Fault
<1>25. ASSUME Next PROVE TypeOK'
  BY <1>25, <1>2, <1>3, <1>4, <1>5, <1>6, <1>7, <1>8, <1>9, <1>10, <1>11, <1>12, <1>13, <1>14,
     <1>15, <1>16, <1>17, <1>18, <1>19, <1>20, <1>21, <1>22, <1>23, <1>24
  DEF Next, Request, PublisherNext, PublisherStep, WorkerNext, WorkerStep
<1> QED
  BY <1>1, <1>25

(* The variables keep their types: rows, copies, phases, hands and         *)
(* settlements always are what the code's types and columns allow.         *)
THEOREM TypeCorrect == Spec => []TypeOK
  BY TypeInit, TypeStep, PTL DEF Spec

-------------------------------------------------------------------------------
(* What a step does to the database, and who else it concerns *)

(* Items and jobs change by four transactions only. *)
LEMMA DatabaseSteps ==
  ASSUME TypeOK, WorkersHoldDeliveries, [Next]_vars
  PROVE  \/ UNCHANGED <<items, jobs>>
         \/ \E i \in Items : CreateWorkItem(i)
         \/ \E i \in Items, j \in Jobs : AcceptProcessingJob(i, j)
         \/ \E j \in Jobs : jobState[j] = "accepted" /\ SpendAttempt(j)
         \/ \E j \in Jobs : Completable(j) /\ CommitSuccess(j)
<1> DEFINE Goal == \/ UNCHANGED <<items, jobs>>
                   \/ \E i \in Items : CreateWorkItem(i)
                   \/ \E i \in Items, j \in Jobs : AcceptProcessingJob(i, j)
                   \/ \E j \in Jobs : jobState[j] = "accepted" /\ SpendAttempt(j)
                   \/ \E j \in Jobs : Completable(j) /\ CommitSuccess(j)
<1>1. CASE UNCHANGED vars
  BY <1>1 DEF vars
<1>2. ASSUME NEW w \in Workers, wphase[w] \in {"fail", "complete"} PROVE delivery[w] \in Jobs
  BY <1>2 DEF WorkersHoldDeliveries
<1>3. ASSUME NEW w \in Workers, RecordProcessingFailure(w) PROVE Goal
  BY <1>2, <1>3 DEF RecordProcessingFailure
<1>4. ASSUME NEW w \in Workers, CompleteProcessingJob(w) PROVE Goal
  BY <1>2, <1>4 DEF CompleteProcessingJob
<1>5. ASSUME NEW w \in Workers, WorkerStoreFails(w) PROVE Goal
  BY <1>2, <1>5 DEF WorkerStoreFails
<1>6. ASSUME NEW p \in Publishers, PublisherNext(p) PROVE UNCHANGED <<items, jobs>>
  BY <1>6 DEF PublisherNext, PublisherStep, ConnectPublisher, BeginOutboxPublishAttempt, Publish,
     MarkOutboxPublished, RecordOutboxPublishFailure, IdlePoll, PublishFails,
     PublisherStoreFails, PublisherCrash, vars
<1>7. ASSUME NEW w \in Workers, WorkerNext(w) PROVE Goal
  <2>1. ASSUME NEW j \in Jobs, Deliver(w, j) PROVE UNCHANGED <<items, jobs>>
    BY <2>1 DEF Deliver
  <2>2. CASE StartSession(w) \/ StreamClosed(w) \/ ConnectionLost(w) \/ WorkerCrash(w)
    BY <2>2 DEF StartSession, StreamClosed, ConnectionLost, WorkerCrash
  <2>3. CASE GetProcessingJob(w) \/ Process(w) \/ CompletionOvertaken(w) \/ SettleDelivery(w)
    BY <2>3 DEF GetProcessingJob, Process, CompletionOvertaken, SettleDelivery
  <2> QED
    BY <1>3, <1>4, <1>5, <1>7, <2>1, <2>2, <2>3 DEF WorkerNext, WorkerStep
<1> HIDE DEF Goal
<1>8. Goal
  BY <1>1, <1>6, <1>7 DEF Goal, Next, Request
<1> QED
  BY <1>8 DEF Goal

(* Rows stay: no item or job disappears and no job changes its item. *)
LEMMA RowsStay ==
  ASSUME TypeOK, WorkersHoldDeliveries, [Next]_vars
  PROVE  /\ \A j \in Jobs : jobState[j] # "none" => jobState'[j] # "none" /\ jobItem'[j] = jobItem[j]
         /\ \A j \in Jobs : jobState[j] \in Terminal => jobState'[j] = jobState[j]
         /\ \A i \in Items : status[i] # "absent" => status'[i] # "absent"
  BY DatabaseSteps
  DEF TypeOK, CreateWorkItem, AcceptProcessingJob, SpendAttempt, CommitSuccess, Completable,
      items, jobs, Terminal

(* A publisher's hand changes in its own steps only. *)
LEMMA PublisherSteps ==
  ASSUME [Next]_vars
  PROVE  UNCHANGED publishers \/ \E p \in Publishers : PublisherNext(p)
<1>1. ASSUME NEW w \in Workers, WorkerNext(w) PROVE UNCHANGED publishers
  BY <1>1 DEF WorkerNext, WorkerStep, Deliver, StartSession, StreamClosed, ConnectionLost,
     WorkerCrash, GetProcessingJob, Process, CompletionOvertaken, SettleDelivery,
     RecordProcessingFailure, CompleteProcessingJob, WorkerStoreFails
<1>2. Request => UNCHANGED publishers
  BY DEF Request, CreateWorkItem, AcceptProcessingJob
<1> QED
  BY <1>1, <1>2 DEF Next, vars

(* A worker's hand changes in its own steps only. *)
LEMMA WorkerSteps ==
  ASSUME [Next]_vars
  PROVE  UNCHANGED workers \/ \E w \in Workers : WorkerNext(w)
<1>1. ASSUME NEW p \in Publishers, PublisherNext(p) PROVE UNCHANGED workers
  BY <1>1 DEF PublisherNext, PublisherStep, ConnectPublisher, BeginOutboxPublishAttempt, Publish,
     MarkOutboxPublished, RecordOutboxPublishFailure, IdlePoll, PublishFails,
     PublisherStoreFails, PublisherCrash, vars
<1>2. Request => UNCHANGED workers
  BY DEF Request, CreateWorkItem, AcceptProcessingJob
<1> QED
  BY <1>1, <1>2 DEF Next, vars

-------------------------------------------------------------------------------
(* What processes and queue hold belongs to existing jobs *)

LEMMA PublishersHoldRowsStep ==
  ASSUME TypeOK, JobsExist, WorkersHoldDeliveries, PublishersHoldRows, [Next]_vars
  PROVE  PublishersHoldRows'
<1>1. CASE UNCHANGED publishers
  BY <1>1, RowsStay DEF PublishersHoldRows, publishers
<1>2. ASSUME NEW p \in Publishers, PublisherNext(p) PROVE PublishersHoldRows'
  <2>1. CASE ConnectPublisher(p) \/ IdlePoll(p) \/ Publish(p) \/ PublishFails(p)
    BY <2>1 DEF ConnectPublisher, IdlePoll, Publish, PublishFails, PublishersHoldRows, TypeOK,
       vars, jobs, publishers
  <2>2. CASE BeginOutboxPublishAttempt(p)
    BY <2>2 DEF BeginOutboxPublishAttempt, Claimable, Unpublished, PublishersHoldRows, TypeOK,
       JobsExist, jobs
  <2>3. CASE MarkOutboxPublished(p) \/ RecordOutboxPublishFailure(p) \/ PublisherStoreFails(p) \/ PublisherCrash(p)
    BY <2>3 DEF MarkOutboxPublished, RecordOutboxPublishFailure, PublisherStoreFails,
       PublisherCrash, LetGo, PublishersHoldRows, TypeOK, jobs
  <2> QED
    BY <1>2, <2>1, <2>2, <2>3 DEF PublisherNext, PublisherStep
<1> QED
  BY <1>1, <1>2, PublisherSteps

LEMMA WorkersHoldDeliveriesStep ==
  ASSUME TypeOK, JobsExist, WorkersHoldDeliveries, [Next]_vars
  PROVE  WorkersHoldDeliveries'
<1>1. CASE UNCHANGED workers
  BY <1>1, RowsStay DEF WorkersHoldDeliveries, workers
<1>2. ASSUME NEW w \in Workers, WorkerNext(w) PROVE WorkersHoldDeliveries'
  <2>1. ASSUME NEW j \in Jobs, Deliver(w, j) PROVE WorkersHoldDeliveries'
    BY <2>1 DEF Deliver, WorkersHoldDeliveries, TypeOK, JobsExist, jobs
  <2>2. CASE StartSession(w) \/ StreamClosed(w) \/ ConnectionLost(w)
    BY <2>2 DEF StartSession, StreamClosed, ConnectionLost, WorkersHoldDeliveries, TypeOK, jobs
  <2>3. CASE WorkerCrash(w) \/ SettleDelivery(w)
    BY <2>3 DEF WorkerCrash, SettleDelivery, WorkersHoldDeliveries, TypeOK, jobs
  <2>4. CASE GetProcessingJob(w) \/ Process(w) \/ CompletionOvertaken(w)
    BY <2>4 DEF GetProcessingJob, Process, CompletionOvertaken, Decide, WorkersHoldDeliveries,
       TypeOK, jobs
  <2>5. CASE RecordProcessingFailure(w) \/ CompleteProcessingJob(w) \/ WorkerStoreFails(w)
    <3>1. \A v \in Workers : wphase'[v] = IF v = w THEN "settle" ELSE wphase[v]
      BY <2>5 DEF RecordProcessingFailure, CompleteProcessingJob, WorkerStoreFails, Decide, TypeOK
    <3>2. \A v \in Workers : v # w => settlement'[v] = settlement[v]
      BY <2>5 DEF RecordProcessingFailure, CompleteProcessingJob, WorkerStoreFails, Decide, TypeOK
    <3>3. delivery' = delivery /\ wphase[w] \in {"inspect", "fail", "complete"}
      BY <2>5 DEF RecordProcessingFailure, CompleteProcessingJob, WorkerStoreFails
    <3> QED
      BY <3>1, <3>2, <3>3, RowsStay DEF WorkersHoldDeliveries
  <2> QED
    BY <1>2, <2>1, <2>2, <2>3, <2>4, <2>5 DEF WorkerNext, WorkerStep
<1> QED
  BY <1>1, <1>2, WorkerSteps

(* The outbox rows and queued copies of a step's jobs. *)
LEMMA JobsExistStep ==
  ASSUME TypeOK, HandsInv, [Next]_vars
  PROVE  JobsExist'
<1> USE DEF HandsInv
<1>1. ASSUME NEW i \in Items, NEW j \in Jobs, AcceptProcessingJob(i, j) PROVE JobsExist'
  BY <1>1 DEF AcceptProcessingJob, JobsExist, TypeOK, items
<1>2. CASE /\ \A j \in Jobs : jobState[j] = "none" =>
                jobState'[j] = "none" /\ jobItem'[j] = jobItem[j]
           /\ \A j \in Jobs : /\ jobState[j] = "none" => outbox'[j] = outbox[j] /\ ready'[j] = ready[j]
                              /\ outbox[j] # "none" => outbox'[j] # "none"
  BY <1>2, RowsStay DEF JobsExist
<1>3. (\A i \in Items, j \in Jobs : ~AcceptProcessingJob(i, j)) =>
        \A j \in Jobs : jobState[j] = "none" => jobState'[j] = "none" /\ jobItem'[j] = jobItem[j]
  BY DatabaseSteps DEF TypeOK, CreateWorkItem, SpendAttempt, CommitSuccess, Completable, items, jobs
<1> DEFINE Kept == \A j \in Jobs :
                     /\ jobState[j] = "none" => outbox'[j] = outbox[j] /\ ready'[j] = ready[j]
                     /\ outbox[j] # "none" => outbox'[j] # "none"
<1>4. ASSUME NEW p \in Publishers, PublisherNext(p) PROVE Kept
  <2>1. CASE UNCHANGED <<rows, ready>>
    BY <2>1 DEF rows
  <2>2. CASE Publish(p) \/ PublishFails(p)
    BY <2>2 DEF Publish, PublishFails, PublishersHoldRows, TypeOK, rows
  <2>3. CASE MarkOutboxPublished(p) \/ RecordOutboxPublishFailure(p)
    BY <2>3 DEF MarkOutboxPublished, RecordOutboxPublishFailure, JobsExist, TypeOK, rows
  <2> QED
    BY <1>4, <2>1, <2>2, <2>3 DEF PublisherNext, PublisherStep, ConnectPublisher,
       BeginOutboxPublishAttempt, IdlePoll, PublisherStoreFails, PublisherCrash, vars, rows
<1>5. ASSUME NEW w \in Workers, WorkerNext(w) PROVE Kept
  <2>1. CASE UNCHANGED <<rows, ready>>
    BY <2>1 DEF rows
  <2>2. ASSUME NEW j \in Jobs, Deliver(w, j) PROVE Kept
    BY <2>2 DEF Deliver, JobsExist, TypeOK, rows
  <2>3. CASE ConnectionLost(w) \/ WorkerCrash(w) \/ SettleDelivery(w)
    <3>1. outbox' = outbox /\ ready' \in {ready, Requeued(w)}
      BY <2>3 DEF ConnectionLost, WorkerCrash, SettleDelivery, rows
    <3>2. \A j \in Jobs : jobState[j] = "none" => Requeued(w)[j] = ready[j]
      BY DEF Requeued, WorkersHoldDeliveries, TypeOK
    <3> QED
      BY <3>1, <3>2
  <2> QED
    BY <1>5, <2>1, <2>2, <2>3 DEF WorkerNext, WorkerStep, StartSession, StreamClosed,
       GetProcessingJob, Process, CompletionOvertaken, RecordProcessingFailure,
       CompleteProcessingJob, WorkerStoreFails
<1>6. ASSUME NEW i \in Items, CreateWorkItem(i) PROVE Kept
  BY <1>6 DEF CreateWorkItem, rows
<1>7. CASE UNCHANGED vars
  BY <1>7 DEF vars, rows, items, jobs, JobsExist
<1> HIDE DEF Kept
<1>8. CASE \A i \in Items, j \in Jobs : ~AcceptProcessingJob(i, j)
  <2>1. Next => Kept
    BY <1>4, <1>5, <1>6, <1>8 DEF Next, Request
  <2> QED
    BY <1>2, <1>3, <1>7, <1>8, <2>1 DEF Kept
<1> QED
  BY <1>1, <1>8

-------------------------------------------------------------------------------
(* The success invariant, one active job per item, the retry budget *)

(* The item of an active job is pending and has no result yet, so the      *)
(* completion transaction of an active job always reaches its commit.      *)
LEMMA ActiveIsCompletable ==
  ASSUME TypeOK, JobsExist, SuccessInvariant, OneActiveJob,
         NEW j \in Jobs, jobState[j] = "accepted"
  PROVE  Completable(j)
<1>1. jobItem[j] \in Items /\ status[jobItem[j]] # "absent"
  BY DEF JobsExist
<1>2. ASSUME result[jobItem[j]] # NoJob PROVE FALSE
  <2>1. result[jobItem[j]] \in Jobs
    BY <1>1, <1>2 DEF TypeOK
  <2> QED
    BY <1>1, <1>2, <2>1 DEF SuccessInvariant, OneActiveJob
<1> QED
  BY <1>1, <1>2 DEF Completable, TypeOK, SuccessInvariant

LEMMA DatabaseInit == Init => DatabaseInv
  BY DEF Init, DatabaseInv, SuccessInvariant, OneActiveJob, RetryBudget

LEMMA DatabaseStep ==
  ASSUME TypeOK, HandsInv, DatabaseInv, [Next]_vars
  PROVE  DatabaseInv'
<1> USE DEF HandsInv, DatabaseInv
<1>1. CASE UNCHANGED <<items, jobs>>
  BY <1>1 DEF items, jobs, SuccessInvariant, OneActiveJob, RetryBudget
<1>2. ASSUME NEW i \in Items, CreateWorkItem(i) PROVE DatabaseInv'
  BY <1>2 DEF CreateWorkItem, jobs, SuccessInvariant, OneActiveJob, RetryBudget, TypeOK
<1>3. ASSUME NEW i \in Items, NEW j \in Jobs, AcceptProcessingJob(i, j) PROVE DatabaseInv'
  <2> USE <1>3 DEF AcceptProcessingJob, items, TypeOK
  <2>1. \A k \in Jobs : jobItem[k] = i => jobState[k] \notin {"accepted", "succeeded"}
    BY DEF ActiveJobs, SuccessInvariant, NoJob, Jobs
  <2>2. SuccessInvariant'
    BY NoJobIsNoJob DEF SuccessInvariant
  <2>3. OneActiveJob'
    BY <2>1 DEF OneActiveJob
  <2>4. RetryBudget'
    BY MaxAttemptsAssumption DEF RetryBudget
  <2> QED
    BY <2>2, <2>3, <2>4
<1>4. ASSUME NEW j \in Jobs, jobState[j] = "accepted", SpendAttempt(j) PROVE DatabaseInv'
  <2> USE <1>4 DEF SpendAttempt, items, TypeOK
  <2>1. SuccessInvariant'
    BY NoJobIsNoJob DEF SuccessInvariant
  <2>2. OneActiveJob'
    BY DEF OneActiveJob
  <2>3. RetryBudget'
    BY MaxAttemptsAssumption DEF RetryBudget
  <2> QED
    BY <2>1, <2>2, <2>3
<1>5. ASSUME NEW j \in Jobs, Completable(j), CommitSuccess(j) PROVE DatabaseInv'
  <2> USE <1>5 DEF CommitSuccess, Completable, TypeOK
  <2>1. jobItem[j] \in Items
    BY DEF JobsExist
  <2>2. SuccessInvariant'
    BY <2>1, NoJobIsNoJob DEF SuccessInvariant, OneActiveJob
  <2>3. OneActiveJob'
    BY DEF OneActiveJob
  <2>4. RetryBudget'
    BY MaxAttemptsAssumption DEF RetryBudget
  <2> QED
    BY <2>2, <2>3, <2>4
<1> QED
  BY <1>1, <1>2, <1>3, <1>4, <1>5, DatabaseSteps

-------------------------------------------------------------------------------
(* Accepted jobs keep a carrier *)

LEMMA SettlementsAreSafeStep ==
  ASSUME TypeOK, HandsInv, DatabaseInv, SettlementsAreSafe, [Next]_vars
  PROVE  SettlementsAreSafe'
<1> USE DEF HandsInv, DatabaseInv
<1>1. CASE UNCHANGED workers
  BY <1>1, RowsStay DEF SettlementsAreSafe, WorkersHoldDeliveries, workers
<1>2. ASSUME NEW w \in Workers, WorkerNext(w) PROVE SettlementsAreSafe'
  <2> DEFINE Others == \A v \in Workers \ {w} :
                 /\ wphase'[v] = wphase[v]
                 /\ settlement'[v] = settlement[v]
                 /\ delivery'[v] = delivery[v]
             Own == wphase'[w] = "settle" =>
                      \/ settlement'[w] = "nack_requeue"
                      \/ settlement'[w] = "ack" /\ jobState'[delivery'[w]] \in Terminal
  <2>1. ASSUME NEW j \in Jobs, Deliver(w, j) PROVE Others /\ Own
    BY <2>1 DEF Deliver, TypeOK
  <2>2. ASSUME StartSession(w) \/ StreamClosed(w) \/ Process(w) PROVE Others /\ Own
    BY <2>2 DEF StartSession, StreamClosed, Process, TypeOK
  <2>3. ASSUME WorkerCrash(w) \/ SettleDelivery(w) PROVE Others /\ Own
    BY <2>3 DEF WorkerCrash, SettleDelivery, TypeOK
  <2>4. ASSUME ConnectionLost(w) PROVE Others /\ Own
    BY <2>4 DEF ConnectionLost, SettlementsAreSafe, TypeOK, jobs
  <2>5. ASSUME GetProcessingJob(w) \/ CompletionOvertaken(w) PROVE Others /\ Own
    BY <2>5 DEF GetProcessingJob, CompletionOvertaken, Decide, WorkersHoldDeliveries, TypeOK, jobs
  <2>6. ASSUME RecordProcessingFailure(w) PROVE Others /\ Own
    BY <2>6 DEF RecordProcessingFailure, SpendAttempt, Decide, WorkersHoldDeliveries, TypeOK,
       jobs, Terminal
  <2>7. ASSUME CompleteProcessingJob(w) PROVE Others /\ Own
    <3>1. delivery[w] \in Jobs /\ jobState[delivery[w]] # "none"
      BY <2>7 DEF CompleteProcessingJob, WorkersHoldDeliveries
    <3>2. ~Completable(delivery[w]) => jobState[delivery[w]] \in Terminal
      BY <3>1, ActiveIsCompletable DEF TypeOK, Terminal
    <3>3. CASE Completable(delivery[w])
      <4>1. CommitSuccess(delivery[w]) /\ Decide(w, "ack") /\ UNCHANGED delivery
        BY <2>7, <3>3 DEF CompleteProcessingJob
      <4> QED
        BY <3>1, <4>1 DEF CommitSuccess, Decide, TypeOK, Terminal
    <3>4. CASE ~Completable(delivery[w])
      <4>1. Decide(w, "ack") /\ UNCHANGED <<items, jobs, delivery>>
        BY <2>7, <3>2, <3>4 DEF CompleteProcessingJob
      <4> QED
        BY <3>2, <3>4, <4>1 DEF Decide, TypeOK, jobs
    <3>5. Others
      BY <2>7 DEF CompleteProcessingJob, Decide, TypeOK
    <3> QED
      BY <3>3, <3>4, <3>5
  <2>8. ASSUME WorkerStoreFails(w) PROVE Others /\ Own
    BY <2>8 DEF WorkerStoreFails, Decide, TypeOK
  <2>9. Others /\ Own
    BY <1>2, <2>1, <2>2, <2>3, <2>4, <2>5, <2>6, <2>7, <2>8 DEF WorkerNext, WorkerStep
  <2> HIDE DEF Own
  <2>10. ASSUME NEW v \in Workers \ {w}, wphase'[v] = "settle"
         PROVE  \/ settlement'[v] = "nack_requeue"
                \/ settlement'[v] = "ack" /\ jobState'[delivery'[v]] \in Terminal
    BY <2>9, <2>10, RowsStay DEF SettlementsAreSafe, WorkersHoldDeliveries
  <2> QED
    BY <2>9, <2>10 DEF SettlementsAreSafe, Own
<1> QED
  BY <1>1, <1>2, WorkerSteps

(* An active job that has outlived a step was active before it, or new.    *)
LEMMA ActiveBefore ==
  ASSUME TypeOK, HandsInv, [Next]_vars,
         NEW j \in Jobs, jobState'[j] = "accepted", jobState[j] # "none"
  PROVE  jobState[j] = "accepted"
  BY RowsStay DEF TypeOK, Terminal, HandsInv

(* The broker keeps its copies of an active job's message. *)
LEMMA CopyStays ==
  ASSUME TypeOK, HandsInv, SettlementsAreSafe, [Next]_vars,
         NEW j \in Jobs, jobState[j] = "accepted", InBroker(j)
  PROVE  InBroker(j)'
<1> USE DEF InBroker, HandsInv
<1>1. CASE UNCHANGED <<ready, workers>>
  BY <1>1 DEF workers
<1>2. ASSUME NEW p \in Publishers, PublisherNext(p) PROVE InBroker(j)'
  <2>1. CASE Publish(p) \/ PublishFails(p)
    BY <2>1 DEF Publish, PublishFails, TypeOK, PublishersHoldRows, workers
  <2> QED
    BY <1>1, <1>2, <2>1 DEF PublisherNext, PublisherStep, ConnectPublisher,
       BeginOutboxPublishAttempt, MarkOutboxPublished, RecordOutboxPublishFailure, IdlePoll,
       PublisherStoreFails, PublisherCrash, vars
<1>3. ASSUME NEW w \in Workers, WorkerNext(w) PROVE InBroker(j)'
  <2>1. ASSUME NEW k \in Jobs, Deliver(w, k) PROVE InBroker(j)'
    BY <2>1, NoJobIsNoJob DEF Deliver, TypeOK, WorkersHoldDeliveries
  <2>2. CASE StartSession(w) \/ StreamClosed(w)
    BY <2>2, NoJobIsNoJob DEF StartSession, StreamClosed, TypeOK, WorkersHoldDeliveries
  <2>3. CASE ConnectionLost(w) \/ WorkerCrash(w)
    BY <2>3, NoJobIsNoJob DEF ConnectionLost, WorkerCrash, Requeued, TypeOK
  <2>4. CASE SettleDelivery(w)
    <3>1. CASE settlement[w] = "nack_requeue"
      BY <2>4, <3>1, NoJobIsNoJob DEF SettleDelivery, Requeued, TypeOK
    <3>2. CASE settlement[w] # "nack_requeue"
      <4>1. delivery[w] # j
        BY <2>4, <3>2 DEF SettleDelivery, SettlementsAreSafe, Terminal
      <4> QED
        BY <2>4, <3>2, <4>1 DEF SettleDelivery, TypeOK
    <3> QED
      BY <3>1, <3>2
  <2>5. ASSUME UNCHANGED <<ready, linked, delivery>> PROVE InBroker(j)'
    BY <2>5
  <2> QED
    BY <1>3, <2>1, <2>2, <2>3, <2>4, <2>5 DEF WorkerNext, WorkerStep, GetProcessingJob, Process,
       CompletionOvertaken, RecordProcessingFailure, CompleteProcessingJob, WorkerStoreFails
<1>4. Request => UNCHANGED <<ready, workers>>
  BY DEF Request, CreateWorkItem, AcceptProcessingJob
<1> QED
  BY <1>1, <1>2, <1>3, <1>4 DEF Next, vars

LEMMA ConfirmedIsInBrokerStep ==
  ASSUME TypeOK, HandsInv, SettlementsAreSafe, ConfirmedIsInBroker, [Next]_vars
  PROVE  ConfirmedIsInBroker'
<1> USE DEF HandsInv
<1> SUFFICES ASSUME NEW p \in Publishers, NEW j \in Jobs,
                    pphase'[p] = "mark", pjob'[p] = j, jobState'[j] = "accepted"
             PROVE  InBroker(j)'
  BY PublishersHoldRowsStep DEF ConfirmedIsInBroker, InBroker, PublishersHoldRows
<1>1. CASE pphase[p] = "mark" /\ pjob[p] = j
  <2>1. jobState[j] = "accepted"
    BY <1>1, ActiveBefore DEF PublishersHoldRows
  <2> QED
    BY <1>1, <2>1, CopyStays DEF ConfirmedIsInBroker
<1>2. CASE Publish(p)
  BY <1>2 DEF Publish, InBroker, TypeOK
<1>3. ASSUME NEW q \in Publishers, PublisherNext(q)
      PROVE  Publish(p) \/ (pphase[p] = "mark" /\ pjob[p] = j)
  BY <1>3 DEF PublisherNext, PublisherStep, ConnectPublisher, BeginOutboxPublishAttempt, Publish,
     MarkOutboxPublished, RecordOutboxPublishFailure, IdlePoll, PublishFails,
     PublisherStoreFails, PublisherCrash, LetGo, vars, publishers, TypeOK
<1> QED
  BY <1>1, <1>2, <1>3, PublisherSteps DEF publishers

LEMMA AcceptedHasCarrierStep ==
  ASSUME TypeOK, HandsInv, CarrierInv, [Next]_vars
  PROVE  AcceptedHasCarrier'
<1> USE DEF HandsInv, CarrierInv
<1> SUFFICES ASSUME NEW j \in Jobs, jobState'[j] = "accepted"
             PROVE  outbox'[j] = "unpublished" \/ InBroker(j)'
  BY DEF AcceptedHasCarrier
<1>1. CASE jobState[j] = "none"
  <2>1. \E i \in Items : AcceptProcessingJob(i, j)
    BY <1>1, DatabaseSteps DEF AcceptProcessingJob, CreateWorkItem, SpendAttempt, CommitSuccess,
       Completable, TypeOK, items, jobs
  <2> QED
    BY <2>1 DEF AcceptProcessingJob, TypeOK
<1>2. CASE jobState[j] # "none"
  <2>1. jobState[j] = "accepted"
    BY <1>2, ActiveBefore
  <2>2. CASE InBroker(j)
    BY <2>1, <2>2, CopyStays
  <2>3. CASE outbox[j] = "unpublished"
    <3>1. ASSUME NEW p \in Publishers, MarkOutboxPublished(p), outbox'[j] # "unpublished"
          PROVE  InBroker(j)
      BY <3>1, <2>1, <2>3 DEF MarkOutboxPublished, ConfirmedIsInBroker, TypeOK, rows
    <3>2. ASSUME NEW p \in Publishers, PublisherNext(p), ~MarkOutboxPublished(p)
          PROVE  outbox' = outbox
      BY <3>2 DEF PublisherNext, PublisherStep, ConnectPublisher, BeginOutboxPublishAttempt,
         Publish, RecordOutboxPublishFailure, IdlePoll, PublishFails,
         PublisherStoreFails, PublisherCrash, vars, rows
    <3>3. ASSUME NEW w \in Workers, WorkerNext(w) PROVE outbox' = outbox
      BY <3>3 DEF WorkerNext, WorkerStep, Deliver, StartSession, StreamClosed, ConnectionLost,
         WorkerCrash, GetProcessingJob, Process, CompletionOvertaken, SettleDelivery,
         RecordProcessingFailure, CompleteProcessingJob, WorkerStoreFails, rows
    <3>4. ASSUME Request PROVE outbox'[j] = "unpublished"
      BY <3>4, <2>3 DEF Request, CreateWorkItem, AcceptProcessingJob, TypeOK, rows
    <3>5. UNCHANGED vars => outbox' = outbox
      BY DEF vars, rows
    <3> QED
      BY <2>2, <2>3, <3>1, <3>2, <3>3, <3>4, <3>5 DEF Next
  <2> QED
    BY <2>1, <2>2, <2>3 DEF AcceptedHasCarrier
<1> QED
  BY <1>1, <1>2

-------------------------------------------------------------------------------
(* The theorems *)

LEMMA DeliveryInit == Init => DeliveryInv
  BY TypeInit, DatabaseInit
  DEF Init, DeliveryInv, HandsInv, JobsExist, PublishersHoldRows, WorkersHoldDeliveries,
      CarrierInv, SettlementsAreSafe, ConfirmedIsInBroker, AcceptedHasCarrier

LEMMA DeliveryStep == DeliveryInv /\ [Next]_vars => DeliveryInv'
<1> SUFFICES ASSUME DeliveryInv, [Next]_vars PROVE DeliveryInv'
  OBVIOUS
<1> USE DEF DeliveryInv
<1>1. TypeOK'
  BY TypeStep
<1>2. HandsInv'
  BY PublishersHoldRowsStep, WorkersHoldDeliveriesStep, JobsExistStep DEF HandsInv
<1>3. DatabaseInv'
  BY DatabaseStep
<1>4. CarrierInv'
  BY SettlementsAreSafeStep, ConfirmedIsInBrokerStep, AcceptedHasCarrierStep DEF CarrierInv
<1> QED
  BY <1>1, <1>2, <1>3, <1>4

(* The whole inductive invariant. *)
THEOREM DeliveryInvariant == Spec => []DeliveryInv
  BY DeliveryInit, DeliveryStep, PTL DEF Spec

(* A done item, its result and its one succeeded job go together, whatever *)
(* duplicates, crashes and uncertain commits the completion goes through.  *)
THEOREM SuccessInvariantHolds == Spec => [](SuccessInvariant /\ OneActiveJob)
<1>1. DeliveryInv => SuccessInvariant /\ OneActiveJob
  BY DEF DeliveryInv, DatabaseInv
<1> QED
  BY <1>1, DeliveryInvariant, PTL

(* No accepted job is lost between outbox, broker and workers. *)
THEOREM NoAcceptedJobIsLost == Spec => []AcceptedHasCarrier
<1>1. DeliveryInv => AcceptedHasCarrier
  BY DEF DeliveryInv, CarrierInv
<1> QED
  BY <1>1, DeliveryInvariant, PTL

(* The retry budget is exact for every number of concurrent workers. *)
THEOREM RetryBudgetHolds == Spec => []RetryBudget
<1>1. DeliveryInv => RetryBudget
  BY DEF DeliveryInv, DatabaseInv
<1> QED
  BY <1>1, DeliveryInvariant, PTL

(* The handler never rejects a message the system itself published. *)
THEOREM NoMessageIsRejected == Spec => []NeverRejected
<1>1. DeliveryInv => NeverRejected
  BY DEF DeliveryInv, CarrierInv, SettlementsAreSafe, HandsInv, WorkersHoldDeliveries, NeverRejected
<1> QED
  BY <1>1, DeliveryInvariant, PTL

(* An outbox row is written by its acceptance and by publishers only. *)
LEMMA OutboxSteps ==
  ASSUME [Next]_vars
  PROVE  \/ UNCHANGED rows
         \/ \E i \in Items, j \in Jobs : AcceptProcessingJob(i, j)
         \/ \E p \in Publishers : MarkOutboxPublished(p) \/ RecordOutboxPublishFailure(p)
<1>1. ASSUME NEW w \in Workers, WorkerNext(w) PROVE UNCHANGED rows
  BY <1>1 DEF WorkerNext, WorkerStep, Deliver, StartSession, StreamClosed, ConnectionLost,
     WorkerCrash, GetProcessingJob, Process, CompletionOvertaken, SettleDelivery,
     RecordProcessingFailure, CompleteProcessingJob, WorkerStoreFails
<1>2. ASSUME NEW p \in Publishers, PublisherNext(p)
      PROVE  UNCHANGED rows \/ MarkOutboxPublished(p) \/ RecordOutboxPublishFailure(p)
  BY <1>2 DEF PublisherNext, PublisherStep, ConnectPublisher, BeginOutboxPublishAttempt, Publish,
     IdlePoll, PublishFails, PublisherStoreFails, PublisherCrash, vars
<1>3. ASSUME NEW i \in Items, CreateWorkItem(i) PROVE UNCHANGED rows
  BY <1>3 DEF CreateWorkItem
<1> QED
  BY <1>1, <1>2, <1>3 DEF Next, Request, vars

(* A published row has no error, however marks and failures of publishers  *)
(* with the same row in hand interleave.                                   *)
THEOREM PublishedRowsHaveNoError == Spec => []PublishedRowHasNoError
<1>1. Init => PublishedRowHasNoError
  BY DEF Init, PublishedRowHasNoError
<1>2. DeliveryInv /\ PublishedRowHasNoError /\ [Next]_vars => PublishedRowHasNoError'
  <2> SUFFICES ASSUME DeliveryInv, PublishedRowHasNoError, [Next]_vars
               PROVE  PublishedRowHasNoError'
    OBVIOUS
  <2> USE DEF DeliveryInv, TypeOK, PublishedRowHasNoError
  <2>1. CASE UNCHANGED rows
    BY <2>1 DEF rows
  <2>2. ASSUME NEW i \in Items, NEW j \in Jobs, AcceptProcessingJob(i, j)
        PROVE  PublishedRowHasNoError'
    BY <2>2 DEF AcceptProcessingJob
  <2>3. ASSUME NEW p \in Publishers, MarkOutboxPublished(p)
        PROVE  PublishedRowHasNoError'
    BY <2>3 DEF MarkOutboxPublished, rows
  <2>4. ASSUME NEW p \in Publishers, RecordOutboxPublishFailure(p)
        PROVE  PublishedRowHasNoError'
    BY <2>4 DEF RecordOutboxPublishFailure
  <2> QED
    BY <2>1, <2>2, <2>3, <2>4, OutboxSteps
<1> QED
  BY <1>1, <1>2, DeliveryInvariant, PTL DEF Spec

(* Attempts are spent by successes and by the processor's own failures on  *)
(* the job in hand; outages, crashes and acceptances spend none.           *)
THEOREM AttemptsAreTheProcessors == Spec => OnlyProcessorSpendsAttempts
<1> DEFINE Spender(j) == \/ jobState'[j] = "succeeded"
                         \/ \E w \in Workers : delivery[w] = j /\ wphase[w] = "fail" /\ wphase'[w] = "settle"
           Step == \A j \in Jobs : attempts'[j] # attempts[j] => Spender(j)
<1>1. DeliveryInv /\ [Next]_vars => Step
  <2> SUFFICES ASSUME DeliveryInv, [Next]_vars, NEW j \in Jobs, attempts'[j] # attempts[j]
               PROVE  Spender(j)
    BY DEF vars
  <2> USE DEF DeliveryInv, TypeOK
  <2>1. attempts' # attempts
    OBVIOUS
  <2>2. ASSUME NEW w \in Workers, delivery[w] \in Jobs, wphase[w] = "fail",
               SpendAttempt(delivery[w]), wphase' = [wphase EXCEPT ![w] = "settle"]
        PROVE  Spender(j)
    <3>1. delivery[w] = j
      BY <2>2 DEF SpendAttempt
    <3> QED
      BY <2>2, <3>1
  <2>3. ASSUME NEW w \in Workers, delivery[w] \in Jobs, CommitSuccess(delivery[w])
        PROVE  Spender(j)
    BY <2>3 DEF CommitSuccess
  <2>4. ASSUME NEW w \in Workers,
               RecordProcessingFailure(w) \/ CompleteProcessingJob(w) \/ WorkerStoreFails(w)
        PROVE  Spender(j)
    <3>1. /\ wphase' = [wphase EXCEPT ![w] = "settle"]
          /\ \/ wphase[w] = "fail" /\ SpendAttempt(delivery[w])
             \/ wphase[w] = "complete" /\ CommitSuccess(delivery[w])
      BY <2>1, <2>4 DEF RecordProcessingFailure, CompleteProcessingJob, WorkerStoreFails, Decide, jobs
    <3>2. delivery[w] \in Jobs
      BY <3>1 DEF HandsInv, WorkersHoldDeliveries
    <3> QED
      BY <2>2, <2>3, <3>1, <3>2
  <2>5. ASSUME NEW w \in Workers, WorkerNext(w)
        PROVE  RecordProcessingFailure(w) \/ CompleteProcessingJob(w) \/ WorkerStoreFails(w)
    BY <2>1, <2>5 DEF WorkerNext, WorkerStep, Deliver, StartSession, StreamClosed, ConnectionLost,
       WorkerCrash, GetProcessingJob, Process, CompletionOvertaken, SettleDelivery, jobs
  <2>6. ASSUME NEW p \in Publishers
        PROVE  ~PublisherNext(p)
    BY <2>1 DEF PublisherNext, PublisherStep, ConnectPublisher, BeginOutboxPublishAttempt, Publish,
       MarkOutboxPublished, RecordOutboxPublishFailure, IdlePoll, PublishFails,
       PublisherStoreFails, PublisherCrash, vars, jobs
  <2>7. ~Request /\ ~UNCHANGED vars
    BY <2>1 DEF Request, CreateWorkItem, AcceptProcessingJob, jobs, vars
  <2> QED
    BY <2>4, <2>5, <2>6, <2>7 DEF Next
<1> QED
  BY <1>1, DeliveryInvariant, PTL DEF Spec, OnlyProcessorSpendsAttempts

(* The delivery machinery implements the processing contract step by step: *)
(* acceptance, failed attempts and completion are the contract's own, and  *)
(* everything else, duplicates and faults included, changes nothing in it. *)
THEOREM ImplementsContract == Spec => ContractSafety
<1>1. Init => Contract!Init
  BY DEF Init, Contract!Init, Contract!Jobs, Jobs
<1>2. DeliveryInv /\ [Next]_vars => [Contract!Next]_(Contract!contractVars)
  <2> SUFFICES ASSUME DeliveryInv, [Next]_vars PROVE Contract!Next \/ UNCHANGED Contract!contractVars
    OBVIOUS
  <2> USE DEF DeliveryInv, DatabaseInv, HandsInv, Contract!contractVars
  <2> Contract!Jobs = Jobs
    BY DEF Contract!Jobs, Jobs
  <2>1. CASE UNCHANGED <<items, jobs>>
    BY <2>1 DEF items, jobs
  <2>2. ASSUME NEW i \in Items, CreateWorkItem(i) PROVE Contract!Create(i)
    BY <2>2 DEF CreateWorkItem, Contract!Create, TypeOK, jobs
  <2>3. ASSUME NEW i \in Items, NEW j \in Jobs, AcceptProcessingJob(i, j) PROVE Contract!Accept(i, j)
    <3>1. \A k \in Jobs : jobItem[k] = i => jobState[k] = "failed"
      BY <2>3, NoJobIsNoJob, ItemsAssumption
      DEF AcceptProcessingJob, ActiveJobs, SuccessInvariant, JobsExist, TypeOK, Terminal
    <3> QED
      BY <2>3, <3>1 DEF AcceptProcessingJob, Contract!Accept, items
  <2>4. ASSUME NEW j \in Jobs, jobState[j] = "accepted", SpendAttempt(j) PROVE Contract!FailAttempt(j)
    BY <2>4 DEF SpendAttempt, Contract!FailAttempt, items
  <2>5. ASSUME NEW j \in Jobs, Completable(j), CommitSuccess(j) PROVE Contract!Succeed(j)
    BY <2>5 DEF Completable, CommitSuccess, Contract!Succeed, TypeOK
  <2> QED
    BY <2>1, <2>2, <2>3, <2>4, <2>5, DatabaseSteps DEF Contract!Next
<1> QED
  BY <1>1, <1>2, DeliveryInvariant, PTL DEF Spec, ContractSafety, Contract!Safety
===============================================================================
