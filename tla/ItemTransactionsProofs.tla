------------------------ MODULE ItemTransactionsProofs ------------------------
(***************************************************************************)
(* Proofs about ItemTransactions, for every number of items, jobs and      *)
(* sessions, every retry budget and every collision of lock keys.          *)
(***************************************************************************)
EXTENDS ItemTransactions, TLAPS

LEMMA NoJobIsNoJob == NoJob \notin Jobs
  BY BoundAssumption DEF NoJob, Jobs

(* A step of a session, and the four kinds of steps that change tables. *)
Step(s) == Begin(s) \/ Statement(s) \/ Rollback(s)

LEMMA TableSteps ==
  ASSUME NEW s \in Sessions, Step(s)
  PROVE  UNCHANGED tables \/ CommitAccept(s) \/ CommitComplete(s) \/ CommitRecord(s)
<1>1. CASE Begin(s)
  BY <1>1 DEF Begin, BeginAccept, BeginComplete, BeginRecord, BeginWorker
<1>2. CASE Rollback(s)
  BY <1>2 DEF Rollback
<1>3. CASE LockForAccept(s) \/ ReadStatus(s) \/ ReadActive(s) \/ InsertJob(s) \/ InsertOutbox(s)
  BY <1>3 DEF LockForAccept, LockItem, ReadStatus, ReadActive, InsertJob, InsertOutbox, Continue
<1>4. CASE \/ LockForComplete(s) \/ RereadJob(s) \/ ReadItem(s)
           \/ InsertResult(s) \/ UpdateItem(s) \/ UpdateJob(s)
  BY <1>4 DEF LockForComplete, LockItem, RereadJob, ReadItem, InsertResult, UpdateItem, UpdateJob, Continue
<1>5. CASE RecordFailure(s) \/ LookupJob(s)
  BY <1>5 DEF RecordFailure, LookupJob
<1> QED
  BY <1>1, <1>2, <1>3, <1>4, <1>5 DEF Step, Statement

(* A session moves only its own program counter and parameters, and it     *)
(* takes and releases no one else's lock.                                  *)
Own(s) ==
  /\ \A t \in Sessions \ {s} : pc'[t] = pc[t] /\ item'[t] = item[t] /\ job'[t] = job[t]
  /\ \A k \in Keys : itemLock[k] \notin {s, NoSession} => itemLock'[k] = itemLock[k]

LEMMA StepIsOwn ==
  ASSUME TypeOK, NEW s \in Sessions, Step(s)
  PROVE  Own(s)
<1> USE DEF TypeOK
<1>1. CASE Begin(s)
  BY <1>1 DEF Begin, BeginAccept, BeginComplete, BeginRecord, BeginWorker, Goto, Own
<1>2. CASE End(s)
  BY <1>2 DEF End, Goto, Own
<1>3. CASE LockForAccept(s) \/ LockForComplete(s)
  BY <1>3 DEF LockForAccept, LockForComplete, LockItem, Goto, Own
<1>4. ASSUME NEW from, NEW to, Continue(s, from, to) PROVE Own(s)
  BY <1>4 DEF Continue, Goto, Own
<1>5. CASE InsertJob(s) \/ RecordFailure(s)
  BY <1>5 DEF InsertJob, RecordFailure, Goto, Own
<1>6. CASE ReadItem(s)
  BY <1>2, <1>6 DEF ReadItem, Goto, Own
<1> QED
  BY <1>1, <1>2, <1>3, <1>4, <1>5, <1>6 DEF Step, Statement, Rollback, ReadStatus, ReadActive,
     InsertOutbox, CommitAccept, RereadJob, InsertResult, UpdateItem, UpdateJob, CommitComplete,
     CommitRecord, LookupJob

-------------------------------------------------------------------------------
(* Types *)

(* Counting one more at any index keeps a table of naturals. *)
LEMMA CountUp ==
  ASSUME NEW f \in [Jobs -> Nat], NEW x
  PROVE  [f EXCEPT ![x] = @ + 1] \in [Jobs -> Nat]
<1>1. CASE x \in Jobs
  BY <1>1
<1>2. CASE x \notin Jobs
  BY <1>2
<1> QED
  BY <1>1, <1>2

LEMMA TypeInit == Init => TypeOK
  BY DEF Init, TypeOK

LEMMA TypeStep == TypeOK /\ [Next]_vars => TypeOK'
<1> SUFFICES ASSUME TypeOK, [Next]_vars PROVE TypeOK'
  OBVIOUS
<1> USE DEF TypeOK, tables, AcceptPhases, CompletePhases, RecordPhases
<1>1. CASE UNCHANGED vars
  BY <1>1 DEF vars
<1>2. ASSUME NEW i \in Items, CreateWorkItem(i) PROVE TypeOK'
  BY <1>2 DEF CreateWorkItem
<1>3. ASSUME NEW s \in Sessions, Step(s) PROVE TypeOK'
  <2>1. ASSUME End(s), UNCHANGED tables PROVE TypeOK'
    BY <2>1 DEF End, Goto
  <2>2. ASSUME NEW from, NEW to \in AcceptPhases \cup CompletePhases, Continue(s, from, to) PROVE TypeOK'
    BY <2>2 DEF Continue, Goto
  <2>3. CASE LockForAccept(s) \/ LockForComplete(s)
    BY <2>3 DEF LockForAccept, LockForComplete, LockItem, Goto
  <2>4. ASSUME NEW i \in Items, BeginAccept(s, i) PROVE TypeOK'
    BY <2>4 DEF BeginAccept, Goto
  <2>5. ASSUME NEW j \in Jobs, BeginComplete(s, j) \/ BeginRecord(s, j) PROVE TypeOK'
    BY <2>5 DEF BeginComplete, BeginRecord, BeginWorker, Goto
  <2>6. CASE InsertJob(s)
    BY <2>6 DEF InsertJob, FreeJobs, Goto
  <2>7. CASE RecordFailure(s)
    BY <2>7 DEF RecordFailure, Goto
  <2>8. CASE ReadItem(s)
    BY <2>1, <2>8 DEF ReadItem, Goto
  <2>9. CASE CommitAccept(s)
    BY <2>9 DEF CommitAccept, End, Goto
  <2>10. CASE CommitComplete(s)
    <3>1. attempts' \in [Jobs -> Nat]
      BY <2>10, CountUp DEF CommitComplete
    <3> QED
      BY <2>10, <3>1 DEF CommitComplete, End, Goto
  <2>11. CASE CommitRecord(s)
    <3>1. attempts' \in [Jobs -> Nat]
      BY <2>11, CountUp DEF CommitRecord
    <3> QED
      BY <2>11, <3>1 DEF CommitRecord, End, Goto
  <2> HIDE DEF TypeOK, tables
  <2> QED
    BY <1>3, <2>1, <2>2, <2>3, <2>4, <2>5, <2>6, <2>7, <2>8, <2>9, <2>10, <2>11
    DEF Step, Begin, Statement, Rollback, ReadStatus, ReadActive, InsertOutbox, RereadJob,
        InsertResult, UpdateItem, UpdateJob, LookupJob
<1> HIDE DEF TypeOK
<1> QED
  BY <1>1, <1>2, <1>3 DEF Next, Step

-------------------------------------------------------------------------------
(* Locks and parameters of sessions *)

(* Critical sections begin with the lock and keep it. *)
LEMMA LockStep ==
  ASSUME TypeOK, SessionInv, LockInv, [Next]_vars
  PROVE  LockInv'
<1> USE DEF LockInv, Critical, AcceptPhases, CompletePhases
<1>1. ASSUME NEW s \in Sessions, Step(s) PROVE LockInv'
  <2>1. \A t \in Sessions \ {s} : Critical(t)' => itemLock'[LockKey[item'[t]]] = t
    BY <1>1, StepIsOwn, LockKeyAssumption, DistinctAssumption DEF Own, SessionInv
  <2>2. Critical(s)' => itemLock'[LockKey[item'[s]]] = s
    <3>1. CASE Begin(s) \/ Rollback(s) \/ LookupJob(s) \/ CommitAccept(s) \/ CommitComplete(s) \/ CommitRecord(s)
      BY <3>1 DEF Begin, BeginAccept, BeginComplete, BeginRecord, BeginWorker, Goto, TypeOK,
         Rollback, LookupJob, CommitAccept, CommitComplete, CommitRecord, End
    <3>2. CASE LockForAccept(s) \/ LockForComplete(s)
      BY <3>2, LockKeyAssumption DEF LockForAccept, LockForComplete, LockItem, Goto, TypeOK, SessionInv
    <3>3. CASE ReadStatus(s) \/ ReadActive(s) \/ InsertJob(s) \/ InsertOutbox(s)
      BY <3>3 DEF ReadStatus, ReadActive, InsertJob, InsertOutbox, Continue, End, Goto, TypeOK
    <3>4. CASE RereadJob(s) \/ ReadItem(s) \/ InsertResult(s) \/ UpdateItem(s) \/ UpdateJob(s)
      BY <3>4 DEF RereadJob, ReadItem, InsertResult, UpdateItem, UpdateJob, Continue, End, Goto, TypeOK
    <3>5. CASE RecordFailure(s)
      BY <3>5 DEF RecordFailure, Goto, TypeOK
    <3> QED
      BY <1>1, <3>1, <3>2, <3>3, <3>4, <3>5 DEF Step, Statement
  <2> QED
    BY <2>1, <2>2
<1>2. CASE UNCHANGED <<pc, item, itemLock>>
  BY <1>2
<1> QED
  BY <1>1, <1>2 DEF Next, Step, CreateWorkItem, vars

(* A lock is taken on the way into the critical section, and kept in it.   *)
LEMMA HoldersStep ==
  ASSUME TypeOK, SessionInv, LockHolders, [Next]_vars
  PROVE  LockHolders'
<1> USE DEF LockHolders, Critical, AcceptPhases, CompletePhases
<1>1. ASSUME NEW s \in Sessions, Step(s) PROVE LockHolders'
  <2>1. /\ \/ \A k \in Keys : itemLock'[k] = itemLock[k]
           \/ \A k \in Keys : itemLock'[k] = IF itemLock[k] = s THEN NoSession ELSE itemLock[k]
           \/ \A k \in Keys : itemLock'[k] = IF k = LockKey[item[s]] THEN s ELSE itemLock[k]
        /\ \A k \in Keys : itemLock'[k] = s => Critical(s)' /\ LockKey[item'[s]] = k
    <3>1. CASE End(s)
      BY <3>1, DistinctAssumption DEF End, Goto, TypeOK
    <3>2. CASE Begin(s)
      BY <3>2 DEF Begin, BeginAccept, BeginComplete, BeginRecord, BeginWorker, Goto, TypeOK
    <3>3. CASE LockForAccept(s) \/ LockForComplete(s)
      BY <3>3 DEF LockForAccept, LockForComplete, LockItem, Goto, TypeOK
    <3>4. CASE ReadStatus(s) \/ ReadActive(s) \/ InsertJob(s) \/ InsertOutbox(s)
      BY <3>1, <3>4 DEF ReadStatus, ReadActive, InsertJob, InsertOutbox, Continue, Goto, TypeOK
    <3>5. CASE RereadJob(s) \/ ReadItem(s) \/ InsertResult(s) \/ UpdateItem(s) \/ UpdateJob(s)
      BY <3>1, <3>5 DEF RereadJob, ReadItem, InsertResult, UpdateItem, UpdateJob, Continue, Goto, TypeOK
    <3>6. CASE RecordFailure(s)
      BY <3>6 DEF RecordFailure, Goto, TypeOK
    <3> QED
      BY <1>1, <3>1, <3>2, <3>3, <3>4, <3>5, <3>6
      DEF Step, Statement, Rollback, CommitAccept, CommitComplete, CommitRecord, LookupJob
  <2>2. ASSUME NEW t \in Sessions \ {s}, NEW k \in Keys, itemLock'[k] = t
        PROVE  Critical(t)' /\ LockKey[item'[t]] = k
    <3>1. itemLock[k] = t
      BY <2>1, <2>2, DistinctAssumption
    <3> QED
      BY <1>1, <3>1, StepIsOwn DEF Own
  <2> QED
    BY <2>1, <2>2
<1>2. CASE UNCHANGED <<pc, item, itemLock>>
  BY <1>2
<1> QED
  BY <1>1, <1>2 DEF Next, Step, CreateWorkItem, vars

(* Two sessions never share an item beyond its lock. *)
LEMMA LockExcludes == LockInv => ItemExclusion
  BY DEF LockInv, ItemExclusion

(* The rows a job or item has are there to stay, and only their own        *)
(* transactions change them.                                               *)
LEMMA RowsStay ==
  ASSUME TypeOK, SessionInv, NEW s \in Sessions, Step(s)
  PROVE  /\ \A j \in Jobs : jobState[j] # "none" => jobState'[j] # "none" /\ jobItem'[j] = jobItem[j]
         /\ \A j \in Jobs : job[s] # j => /\ jobState'[j] = jobState[j]
                                          /\ jobItem'[j] = jobItem[j]
                                          /\ attempts'[j] = attempts[j]
         /\ \A i \in Items : status[i] # "absent" => status'[i] # "absent"
         /\ pc[s] # "commitComplete" => UNCHANGED <<status, result>>
         /\ \A i \in Items : item[s] # i => status'[i] = status[i] /\ result'[i] = result[i]
<1> USE DEF TypeOK
<1>1. CASE UNCHANGED tables
  BY <1>1 DEF tables
<1>2. CASE CommitAccept(s)
  BY <1>2 DEF CommitAccept, SessionInv
<1>3. CASE CommitComplete(s)
  BY <1>3 DEF CommitComplete, SessionInv
<1>4. CASE CommitRecord(s)
  BY <1>4 DEF CommitRecord, SessionInv
<1> QED
  BY <1>1, <1>2, <1>3, <1>4, TableSteps

(* How a session's parameters and phase change. *)
LEMMA SessionStep ==
  ASSUME TypeOK, SessionInv, JobsInv, [Next]_vars
  PROVE  SessionInv'
<1>1. CASE UNCHANGED <<jobState, jobItem, pc, item, job>>
  BY <1>1 DEF SessionInv
<1>2. ASSUME NEW s \in Sessions, Step(s) PROVE SessionInv'
  <2> DEFINE P(t) ==
        /\ pc[t] = "idle" => job[t] = NoJob
        /\ pc[t] # "idle" => item[t] \in Items
        /\ pc[t] \in AcceptPhases \ {"insertOutbox", "commitAccept"} => job[t] = NoJob
        /\ pc[t] \in {"insertOutbox", "commitAccept"} =>
             /\ job[t] \in Jobs /\ jobState[job[t]] = "none"
             /\ \A u \in Sessions \ {t} : job[u] # job[t]
        /\ pc[t] \in CompletePhases \cup RecordPhases =>
             job[t] \in Jobs /\ jobState[job[t]] # "none" /\ jobItem[job[t]] = item[t]
  <2> USE DEF AcceptPhases, CompletePhases, RecordPhases
  <2>1. P(s)'
    <3> USE DEF TypeOK
    <3>1. CASE End(s)
      BY <3>1 DEF End, Goto
    <3>2. ASSUME NEW i \in Items, BeginAccept(s, i) PROVE P(s)'
      BY <3>2 DEF BeginAccept, Goto, SessionInv
    <3>3. ASSUME NEW j \in Jobs, BeginComplete(s, j) \/ BeginRecord(s, j) PROVE P(s)'
      BY <3>3 DEF BeginComplete, BeginRecord, BeginWorker, Goto, JobsInv, tables
    <3>4. CASE LockForAccept(s) \/ LockForComplete(s)
      BY <3>4 DEF LockForAccept, LockForComplete, LockItem, Goto, SessionInv, tables
    <3>5. CASE ReadStatus(s) \/ ReadActive(s)
      BY <3>1, <3>5 DEF ReadStatus, ReadActive, Continue, Goto, SessionInv, tables
    <3>6. CASE InsertJob(s)
      BY <3>6 DEF InsertJob, FreeJobs, Goto, SessionInv, tables
    <3>7. CASE InsertOutbox(s)
      BY <3>7 DEF InsertOutbox, Continue, Goto, SessionInv, tables
    <3>8. CASE RereadJob(s) \/ ReadItem(s)
      BY <3>1, <3>8 DEF RereadJob, ReadItem, Continue, Goto, SessionInv, tables
    <3>9. CASE InsertResult(s) \/ UpdateItem(s) \/ UpdateJob(s)
      BY <3>1, <3>9 DEF InsertResult, UpdateItem, UpdateJob, Continue, Goto, SessionInv, tables
    <3>10. CASE RecordFailure(s)
      BY <3>10 DEF RecordFailure, Goto, SessionInv, tables
    <3> QED
      BY <1>2, <3>1, <3>2, <3>3, <3>4, <3>5, <3>6, <3>7, <3>8, <3>9, <3>10
      DEF Step, Begin, Statement, Rollback, CommitAccept, CommitComplete, CommitRecord, LookupJob
  <2>2. job'[s] \in {job[s], NoJob} \/ (job'[s] \in FreeJobs) \/ (job'[s] \in Jobs /\ jobState[job'[s]] # "none")
    <3> USE DEF TypeOK
    <3>1. CASE Begin(s)
      BY <3>1 DEF Begin, BeginAccept, BeginComplete, BeginRecord, BeginWorker
    <3>2. CASE End(s)
      BY <3>2 DEF End
    <3>3. CASE InsertJob(s)
      BY <3>3 DEF InsertJob
    <3>4. CASE job' = job
      BY <3>4
    <3> QED
      BY <1>2, <3>1, <3>2, <3>3, <3>4
      DEF Step, Statement, Rollback, LockForAccept, LockForComplete, LockItem, ReadStatus, ReadActive,
          InsertOutbox, CommitAccept, RereadJob, ReadItem, InsertResult, UpdateItem, UpdateJob,
          CommitComplete, RecordFailure, CommitRecord, LookupJob, Continue
  <2>3. ASSUME NEW t \in Sessions \ {s} PROVE P(t)'
    <3>1. P(t)
      BY DEF SessionInv
    <3>2. pc'[t] = pc[t] /\ item'[t] = item[t] /\ job'[t] = job[t]
      BY <1>2, StepIsOwn DEF Own
    <3>3. ASSUME pc[t] \in {"insertOutbox", "commitAccept"}
          PROVE  /\ jobState'[job[t]] = "none"
                 /\ \A u \in Sessions \ {t} : job'[u] # job[t]
      <4>1. job[t] \in Jobs /\ jobState[job[t]] = "none" /\ \A u \in Sessions \ {t} : job[u] # job[t]
        BY <3>1, <3>3
      <4>2. jobState'[job[t]] = "none"
        BY <1>2, <4>1, RowsStay
      <4>3. job'[s] # job[t]
        BY <2>2, <4>1, NoJobIsNoJob DEF FreeJobs
      <4> QED
        BY <1>2, <4>1, <4>2, <4>3, StepIsOwn DEF Own
    <3>4. ASSUME pc[t] \in CompletePhases \cup RecordPhases
          PROVE  jobState'[job[t]] # "none" /\ jobItem'[job[t]] = item[t]
      BY <1>2, <3>1, <3>4, RowsStay
    <3> QED
      BY <3>1, <3>2, <3>3, <3>4
  <2> QED
    BY <2>1, <2>3 DEF SessionInv
<1> QED
  BY <1>1, <1>2 DEF Next, Step, CreateWorkItem, vars, tables

-------------------------------------------------------------------------------
(* What the tables say *)

LEMMA JobsStep ==
  ASSUME TypeOK, SessionInv, JobsInv, CheckedStateHolds, [Next]_vars
  PROVE  JobsInv'
<1> USE DEF TypeOK
<1>1. CASE UNCHANGED tables
  BY <1>1 DEF tables, JobsInv
<1>2. ASSUME NEW i \in Items, CreateWorkItem(i) PROVE JobsInv'
  BY <1>2 DEF CreateWorkItem, JobsInv
<1>3. ASSUME NEW s \in Sessions, CommitAccept(s) PROVE JobsInv'
  BY <1>3 DEF CommitAccept, SessionInv, JobsInv, CheckedStateHolds
<1>4. ASSUME NEW s \in Sessions, CommitComplete(s) PROVE JobsInv'
  BY <1>4 DEF CommitComplete, SessionInv, JobsInv, CompletePhases
<1>5. ASSUME NEW s \in Sessions, CommitRecord(s) PROVE JobsInv'
  BY <1>5 DEF CommitRecord, SessionInv, JobsInv, RecordPhases
<1> QED
  BY <1>1, <1>2, <1>3, <1>4, <1>5, TableSteps DEF Next, Step, vars

(* Acceptance finds the item without active or successful job, completion  *)
(* finds it without result and its job active, and a failure ends only an  *)
(* active job: so the tables keep the success invariant.                   *)
LEMMA OutcomesStep ==
  ASSUME TypeOK, SessionInv, JobsInv, CheckedStateHolds, OutcomesExclude,
         SuccessInvariant, OneActiveJob, [Next]_vars
  PROVE  SuccessInvariant' /\ OneActiveJob'
<1> USE DEF TypeOK, SuccessInvariant, OneActiveJob
<1>1. CASE UNCHANGED tables
  BY <1>1 DEF tables
<1>2. ASSUME NEW i \in Items, CreateWorkItem(i) PROVE SuccessInvariant' /\ OneActiveJob'
  BY <1>2 DEF CreateWorkItem
<1>3. ASSUME NEW s \in Sessions, CommitAccept(s) PROVE SuccessInvariant' /\ OneActiveJob'
  <2>1. /\ item[s] \in Items /\ job[s] \in Jobs /\ jobState[job[s]] = "none"
        /\ \A j \in Jobs : jobItem[j] = item[s] => jobState[j] = "failed"
    BY <1>3 DEF CommitAccept, SessionInv, CheckedStateHolds
  <2>2. UNCHANGED <<status, result>> /\ jobState' = [jobState EXCEPT ![job[s]] = "accepted"]
        /\ jobItem' = [jobItem EXCEPT ![job[s]] = item[s]]
    BY <1>3 DEF CommitAccept
  <2>3. SuccessInvariant'
    BY <2>1, <2>2, NoJobIsNoJob
  <2>4. OneActiveJob'
    BY <2>1, <2>2
  <2> QED
    BY <2>3, <2>4
<1>4. ASSUME NEW s \in Sessions, CommitComplete(s) PROVE SuccessInvariant' /\ OneActiveJob'
  <2>1. /\ item[s] \in Items /\ job[s] \in Jobs /\ jobState[job[s]] = "accepted"
        /\ jobItem[job[s]] = item[s] /\ result[item[s]] = NoJob
    BY <1>4 DEF CommitComplete, SessionInv, CheckedStateHolds, CompletePhases
  <2>2. /\ result' = [result EXCEPT ![item[s]] = job[s]]
        /\ status' = [status EXCEPT ![item[s]] = "done"]
        /\ jobState' = [jobState EXCEPT ![job[s]] = "succeeded"]
        /\ UNCHANGED jobItem
    BY <1>4 DEF CommitComplete
  <2>3. SuccessInvariant'
    BY <2>1, <2>2, NoJobIsNoJob DEF JobsInv
  <2>4. OneActiveJob'
    BY <2>1, <2>2
  <2> QED
    BY <2>3, <2>4
<1>5. ASSUME NEW s \in Sessions, CommitRecord(s) PROVE SuccessInvariant' /\ OneActiveJob'
  <2>1. job[s] \in Jobs /\ jobState[job[s]] = "accepted"
    BY <1>5 DEF CommitRecord, SessionInv, OutcomesExclude, RecordPhases
  <2>2. /\ UNCHANGED <<status, result, jobItem>>
        /\ jobState' = [jobState EXCEPT ![job[s]] = IF pc[s] = "commitFailed" THEN "failed" ELSE "accepted"]
    BY <1>5 DEF CommitRecord
  <2>3. SuccessInvariant'
    BY <2>1, <2>2, NoJobIsNoJob
  <2>4. OneActiveJob'
    BY <2>1, <2>2
  <2> QED
    BY <2>3, <2>4
<1> QED
  BY <1>1, <1>2, <1>3, <1>4, <1>5, TableSteps DEF Next, Step, vars

-------------------------------------------------------------------------------
(* What a transaction has read *)

(* While a session is in its critical section no other one completes or    *)
(* accepts for its item.                                                   *)
LEMMA NoOtherCommits ==
  ASSUME LockInv, NEW s \in Sessions, NEW t \in Sessions \ {s}, Critical(s), item[t] = item[s]
  PROVE  pc[t] \notin {"commitAccept", "commitComplete"}
  BY LockExcludes DEF ItemExclusion, Critical, AcceptPhases, CompletePhases

(* What one session has read, as far as it still matters. *)
ReadsHold(s) ==
  /\ pc[s] = "readActive" => status[item[s]] = "pending"
  /\ pc[s] \in {"insertJob", "insertOutbox", "commitAccept"} =>
       /\ status[item[s]] = "pending"
       /\ \A j \in Jobs : jobItem[j] = item[s] => jobState[j] = "failed"
  /\ pc[s] \in {"readItem", "insertResult", "updateItem", "updateJob", "commitComplete"} =>
       /\ status[item[s]] = "pending"
       /\ result[item[s]] = NoJob
  /\ pc[s] = "commitComplete" => jobState[job[s]] = "accepted"

LEMMA ReadsOfAll == PendingIsStillPending /\ CheckedStateHolds <=> \A s \in Sessions : ReadsHold(s)
  BY DEF PendingIsStillPending, CheckedStateHolds, ReadsHold

(* A session learns what it relies on from the tables. *)
LEMMA OwnReads ==
  ASSUME TypeOK, SessionInv, JobsInv, SuccessInvariant, OneActiveJob,
         NEW s \in Sessions, ReadsHold(s), Step(s)
  PROVE  ReadsHold(s)'
<1> USE DEF ReadsHold, TypeOK, tables
<1>1. CASE End(s)
  BY <1>1 DEF End, Goto
<1>2. CASE Begin(s)
  BY <1>2 DEF Begin, BeginAccept, BeginComplete, BeginRecord, BeginWorker, Goto
<1>3. CASE LockForAccept(s) \/ LockForComplete(s)
  BY <1>3 DEF LockForAccept, LockForComplete, LockItem, Goto
<1>4. CASE ReadStatus(s)
  BY <1>1, <1>4 DEF ReadStatus, Continue, Goto
<1>5. CASE ReadActive(s)
  <2>1. ASSUME pc[s] = "readActive", ActiveJobs(item[s]) = {}, NEW j \in Jobs, jobItem[j] = item[s]
        PROVE  jobState[j] = "failed"
    <3>1. item[s] \in Items /\ status[item[s]] = "pending"
      BY <2>1 DEF SessionInv
    <3>2. jobState[j] # "accepted"
      BY <2>1 DEF ActiveJobs
    <3>3. jobState[j] # "none"
      BY <2>1, <3>1, DistinctAssumption DEF JobsInv
    <3>4. jobState[j] # "succeeded"
      BY <2>1, <3>1, NoJobIsNoJob DEF SuccessInvariant
    <3> QED
      BY <3>2, <3>3, <3>4
  <2> QED
    BY <1>1, <1>5, <2>1 DEF ReadActive, Continue, Goto
<1>6. CASE InsertJob(s) \/ InsertOutbox(s)
  BY <1>6 DEF InsertJob, InsertOutbox, Continue, Goto
<1>7. CASE RereadJob(s)
  <2>1. ASSUME pc[s] = "rereadJob", jobState[job[s]] = "accepted"
        PROVE  status[item[s]] = "pending" /\ result[item[s]] = NoJob
    <3>1. job[s] \in Jobs /\ jobItem[job[s]] = item[s] /\ item[s] \in Items
      BY <2>1 DEF SessionInv, CompletePhases
    <3>2. status[item[s]] # "absent"
      BY <2>1, <3>1 DEF JobsInv
    <3>3. result[item[s]] = NoJob
      BY <2>1, <3>1 DEF SuccessInvariant, OneActiveJob
    <3> QED
      BY <3>1, <3>2, <3>3 DEF SuccessInvariant
  <2> QED
    BY <1>1, <1>7, <2>1 DEF RereadJob, Continue, Goto
<1>8. CASE ReadItem(s)
  BY <1>1, <1>8 DEF ReadItem, Goto
<1>9. CASE InsertResult(s) \/ UpdateItem(s)
  BY <1>9 DEF InsertResult, UpdateItem, Continue, Goto
<1>10. CASE UpdateJob(s)
  BY <1>1, <1>10 DEF UpdateJob, Continue, Goto
<1>11. CASE RecordFailure(s)
  BY <1>11 DEF RecordFailure, Goto
<1> QED
  BY <1>1, <1>2, <1>3, <1>4, <1>5, <1>6, <1>7, <1>8, <1>9, <1>10, <1>11
  DEF Step, Statement, Rollback, CommitAccept, CommitComplete, CommitRecord, LookupJob

(* No step of another session invalidates it: acceptance and completion    *)
(* are kept away by the item lock, failure recording by the job's rows.    *)
LEMMA OthersKeepReads ==
  ASSUME TypeOK, SessionInv, LockInv, OutcomesExclude,
         NEW s \in Sessions, ReadsHold(s), NEW t \in Sessions \ {s}, Step(t)
  PROVE  ReadsHold(s)'
<1> USE DEF ReadsHold
<1>1. pc'[s] = pc[s] /\ item'[s] = item[s] /\ job'[s] = job[s]
  BY StepIsOwn DEF Own
<1>2. CASE UNCHANGED tables
  BY <1>1, <1>2 DEF tables
<1>3. CASE CommitAccept(t)
  <2>1. /\ pc[t] = "commitAccept" /\ UNCHANGED <<status, result>>
        /\ job[t] \in Jobs /\ jobState[job[t]] = "none" /\ item[t] \in Items
        /\ jobState' = [jobState EXCEPT ![job[t]] = "accepted"]
        /\ jobItem' = [jobItem EXCEPT ![job[t]] = item[t]]
    BY <1>3 DEF CommitAccept, SessionInv
  <2>2. Critical(s) => item[t] # item[s]
    BY <2>1, NoOtherCommits
  <2> QED
    BY <1>1, <2>1, <2>2 DEF TypeOK, Critical, AcceptPhases, CompletePhases
<1>4. CASE CommitComplete(t)
  <2>1. /\ pc[t] = "commitComplete" /\ UNCHANGED jobItem
        /\ job[t] \in Jobs /\ jobItem[job[t]] = item[t] /\ item[t] \in Items
        /\ result' = [result EXCEPT ![item[t]] = job[t]]
        /\ status' = [status EXCEPT ![item[t]] = "done"]
        /\ jobState' = [jobState EXCEPT ![job[t]] = "succeeded"]
    BY <1>4 DEF CommitComplete, SessionInv, CompletePhases
  <2>2. Critical(s) => item[t] # item[s]
    BY <2>1, NoOtherCommits
  <2>3. pc[s] = "commitComplete" => job[s] \in Jobs /\ jobItem[job[s]] = item[s]
    BY DEF SessionInv, CompletePhases
  <2>4. pc[s] # "idle" => item[s] \in Items
    BY DEF SessionInv
  <2> QED
    BY <1>1, <2>1, <2>2, <2>3, <2>4 DEF TypeOK, Critical, AcceptPhases, CompletePhases
<1>5. CASE CommitRecord(t)
  <2>1. /\ job[t] \in Jobs /\ jobState[job[t]] = "accepted" /\ Unlocked(t, job[t])
        /\ UNCHANGED <<status, result, jobItem>>
        /\ \A j \in Jobs : j # job[t] => jobState'[j] = jobState[j]
    BY <1>5 DEF CommitRecord, SessionInv, RecordPhases, OutcomesExclude, TypeOK
  <2>2. pc[s] = "commitComplete" => job[s] \in Jobs /\ job[s] # job[t]
    BY <2>1 DEF Unlocked, Updates, SessionInv, CompletePhases
  <2> QED
    BY <1>1, <2>1, <2>2
<1> QED
  BY <1>2, <1>3, <1>4, <1>5, TableSteps

LEMMA ReadsStep ==
  ASSUME TypeOK, SessionInv, JobsInv, LockInv, SuccessInvariant, OneActiveJob,
         PendingIsStillPending, CheckedStateHolds, OutcomesExclude, [Next]_vars
  PROVE  PendingIsStillPending' /\ CheckedStateHolds'
<1> SUFFICES ASSUME NEW s \in Sessions PROVE ReadsHold(s)'
  BY ReadsOfAll DEF PendingIsStillPending, CheckedStateHolds, ReadsHold
<1>1. ReadsHold(s)
  BY ReadsOfAll
<1>2. CASE UNCHANGED vars
  BY <1>1, <1>2 DEF vars, tables, ReadsHold
<1>3. ASSUME NEW i \in Items, CreateWorkItem(i) PROVE ReadsHold(s)'
  <2>1. pc[s] \in AcceptPhases \cup CompletePhases => item[s] \in Items
    BY DEF SessionInv, AcceptPhases, CompletePhases
  <2> QED
    BY <1>1, <1>3, <2>1 DEF CreateWorkItem, ReadsHold, TypeOK, AcceptPhases, CompletePhases
<1>4. ASSUME NEW t \in Sessions, Step(t) PROVE ReadsHold(s)'
  BY <1>1, <1>4, OwnReads, OthersKeepReads
<1> QED
  BY <1>2, <1>3, <1>4 DEF Next, Step

-------------------------------------------------------------------------------
(* Failures and completions of one job *)

(* A session updates a job only once no other does, and refers to it in a  *)
(* result only while no other is about to end it.                          *)
LEMMA RowLockStep ==
  ASSUME TypeOK, SessionInv, NEW t \in Sessions, Step(t), NEW j \in Jobs
  PROVE  /\ Updates(t, j)' => Updates(t, j) \/ Unlocked(t, j)
         /\ References(t, j)' => \/ References(t, j)
                                \/ \A u \in Sessions \ {t} : Updates(u, j) => pc[u] = "commitRetry"
<1> USE DEF Updates, References, TypeOK
<1>1. CASE End(t)
  BY <1>1 DEF End, Goto
<1>2. CASE Begin(t)
  BY <1>2 DEF Begin, BeginAccept, BeginComplete, BeginRecord, BeginWorker, Goto
<1>3. CASE \/ LockForAccept(t) \/ LockForComplete(t) \/ ReadStatus(t) \/ ReadActive(t)
           \/ InsertJob(t) \/ InsertOutbox(t) \/ RereadJob(t) \/ ReadItem(t)
  BY <1>1, <1>3 DEF LockForAccept, LockForComplete, LockItem, ReadStatus, ReadActive, InsertJob,
     InsertOutbox, RereadJob, ReadItem, Continue, Goto
<1>4. CASE InsertResult(t) \/ UpdateItem(t)
  BY <1>4 DEF InsertResult, UpdateItem, Continue, Goto
<1>5. CASE UpdateJob(t)
  BY <1>1, <1>5 DEF UpdateJob, Continue, Goto
<1>6. CASE RecordFailure(t)
  BY <1>6 DEF RecordFailure, Goto
<1> QED
  BY <1>1, <1>2, <1>3, <1>4, <1>5, <1>6
  DEF Step, Statement, Rollback, CommitAccept, CommitComplete, CommitRecord, LookupJob

LEMMA OutcomesExcludeStep ==
  ASSUME TypeOK, SessionInv, OutcomesExclude, [Next]_vars
  PROVE  OutcomesExclude'
<1> SUFFICES ASSUME NEW s \in Sessions, pc'[s] \in {"commitRetry", "commitFailed"}
             PROVE  /\ jobState'[job'[s]] = "accepted"
                    /\ Unlocked(s, job[s])'
                    /\ LastAttempt(job[s])' <=> pc'[s] = "commitFailed"
                    /\ pc'[s] = "commitFailed" => Unreferenced(s, job[s])'
  BY DEF OutcomesExclude
<1>1. CASE UNCHANGED vars
  BY <1>1 DEF vars, tables, OutcomesExclude, Unlocked, Unreferenced, Updates, References, LastAttempt
<1>2. ASSUME NEW i \in Items, CreateWorkItem(i)
      PROVE  UNCHANGED <<pc, item, job, jobState, attempts>>
  BY <1>2 DEF CreateWorkItem
<1>3. CASE Step(s)
  <2>1. RecordFailure(s)
    <3>1. CASE End(s) \/ Begin(s)
      BY <3>1 DEF End, Begin, BeginAccept, BeginComplete, BeginRecord, BeginWorker, Goto, TypeOK
    <3>2. CASE \/ LockForAccept(s) \/ LockForComplete(s) \/ ReadStatus(s) \/ ReadActive(s)
               \/ InsertJob(s) \/ InsertOutbox(s) \/ RereadJob(s) \/ ReadItem(s)
               \/ InsertResult(s) \/ UpdateItem(s) \/ UpdateJob(s)
      BY <3>1, <3>2 DEF LockForAccept, LockForComplete, LockItem, ReadStatus, ReadActive, InsertJob,
         InsertOutbox, RereadJob, ReadItem, InsertResult, UpdateItem, UpdateJob, Continue, Goto, TypeOK
    <3> QED
      BY <1>3, <3>1, <3>2
      DEF Step, Statement, Rollback, CommitAccept, CommitComplete, CommitRecord, LookupJob
  <2>2. UNCHANGED <<tables, job>> /\ \A t \in Sessions \ {s} : pc'[t] = pc[t]
    BY <2>1 DEF RecordFailure, Goto, TypeOK
  <2> QED
    BY <2>1, <2>2 DEF RecordFailure, Goto, TypeOK, tables, LastAttempt,
       Unlocked, Unreferenced, Updates, References
<1>4. ASSUME NEW t \in Sessions \ {s}, Step(t)
      PROVE  /\ jobState'[job'[s]] = "accepted"
             /\ Unlocked(s, job[s])'
             /\ LastAttempt(job[s])' <=> pc'[s] = "commitFailed"
             /\ pc'[s] = "commitFailed" => Unreferenced(s, job[s])'
  <2>1. pc'[s] = pc[s] /\ job'[s] = job[s]
    BY <1>4, StepIsOwn DEF Own
  <2>2. PICK j \in Jobs : j = job[s]
    BY <2>1 DEF SessionInv, RecordPhases
  <2>3. /\ jobState[j] = "accepted" /\ Unlocked(s, j)
        /\ LastAttempt(j) <=> pc[s] = "commitFailed"
        /\ pc[s] = "commitFailed" => Unreferenced(s, j)
    BY <2>1, <2>2 DEF OutcomesExclude
  <2>4. Updates(s, j)
    BY <2>1, <2>2 DEF Updates
  <2>5. jobState'[j] = jobState[j] /\ attempts'[j] = attempts[j]
    <3>1. CASE job[t] # j
      BY <1>4, <3>1, RowsStay
    <3>2. CASE job[t] = j
      <4>1. pc[t] \notin {"commitComplete", "commitRetry", "commitFailed"}
        BY <2>3, <3>2 DEF Unlocked, Updates
      <4>2. pc[t] # "commitAccept"
        BY <2>3, <3>2 DEF SessionInv
      <4> QED
        BY <1>4, <4>1, <4>2, TableSteps DEF CommitAccept, CommitComplete, CommitRecord, tables
    <3> QED
      BY <3>1, <3>2
  <2>6. ~Updates(t, j)'
    BY <1>4, <2>3, <2>4, RowLockStep DEF Unlocked
  <2>7. pc[s] = "commitFailed" => ~References(t, j)'
    BY <1>4, <2>3, <2>4, RowLockStep DEF Unreferenced
  <2>8. ASSUME NEW u \in Sessions \ {s, t}
        PROVE  Updates(u, j)' = Updates(u, j) /\ References(u, j)' = References(u, j)
    BY <1>4, StepIsOwn DEF Own, Updates, References
  <2>9. Unlocked(s, j)' /\ (pc[s] = "commitFailed" => Unreferenced(s, j)')
    BY <2>3, <2>6, <2>7, <2>8 DEF Unlocked, Unreferenced
  <2> QED
    BY <2>1, <2>2, <2>3, <2>5, <2>9 DEF LastAttempt, Unlocked, Unreferenced, Updates, References
<1>5. ASSUME UNCHANGED <<pc, item, job, jobState, attempts>>
      PROVE  /\ jobState'[job'[s]] = "accepted"
             /\ Unlocked(s, job[s])'
             /\ LastAttempt(job[s])' <=> pc'[s] = "commitFailed"
             /\ pc'[s] = "commitFailed" => Unreferenced(s, job[s])'
  BY <1>5 DEF OutcomesExclude, Unlocked, Unreferenced, Updates, References, LastAttempt
<1> QED
  BY <1>1, <1>2, <1>3, <1>4, <1>5 DEF Next, Step

-------------------------------------------------------------------------------
(* The theorems *)

LEMMA TransactionInit == Init => TransactionInv
<1> SUFFICES ASSUME Init PROVE TransactionInv
  OBVIOUS
<1>1. TypeOK
  BY TypeInit
<1>2. \A s \in Sessions : pc[s] = "idle" /\ job[s] = NoJob
  BY DEF Init
<1>3. SessionInv /\ LockInv /\ LockHolders
  BY <1>2, DistinctAssumption DEF Init, SessionInv, LockInv, LockHolders, Critical, AcceptPhases, CompletePhases, RecordPhases
<1>4. JobsInv /\ SuccessInvariant /\ OneActiveJob
  BY DEF Init, JobsInv, SuccessInvariant, OneActiveJob
<1>5. PendingIsStillPending /\ CheckedStateHolds /\ OutcomesExclude
  BY <1>2 DEF PendingIsStillPending, CheckedStateHolds, OutcomesExclude
<1> QED
  BY <1>1, <1>3, <1>4, <1>5 DEF TransactionInv

LEMMA TransactionStep == TransactionInv /\ [Next]_vars => TransactionInv'
<1> SUFFICES ASSUME TransactionInv, [Next]_vars PROVE TransactionInv'
  OBVIOUS
<1> USE DEF TransactionInv
<1>1. TypeOK' /\ SessionInv' /\ LockInv' /\ LockHolders'
  BY TypeStep, SessionStep, LockStep, HoldersStep
<1>2. JobsInv' /\ SuccessInvariant' /\ OneActiveJob'
  BY JobsStep, OutcomesStep
<1>3. PendingIsStillPending' /\ CheckedStateHolds' /\ OutcomesExclude'
  BY ReadsStep, OutcomesExcludeStep
<1> QED
  BY <1>1, <1>2, <1>3

(* Every table, program counter and lock has its type. *)
THEOREM TransactionTypes == Spec => []TypeOK
  BY TypeInit, TypeStep, PTL DEF Spec

(* The whole inductive invariant. *)
THEOREM TransactionInvariant == Spec => []TransactionInv
  BY TransactionInit, TransactionStep, PTL DEF Spec

(* Whatever items share a lock key, no two transactions are beyond the     *)
(* lock of one item.                                                       *)
THEOREM ItemExclusionHolds == Spec => []ItemExclusion
<1>1. TransactionInv => ItemExclusion
  BY LockExcludes DEF TransactionInv
<1> QED
  BY <1>1, TransactionInvariant, PTL

(* What acceptance and completion read under the lock still holds when     *)
(* they write and commit, although failures are recorded without it.       *)
THEOREM CheckedStateAlwaysHolds == Spec => []CheckedStateHolds
<1>1. TransactionInv => CheckedStateHolds
  BY DEF TransactionInv
<1> QED
  BY <1>1, TransactionInvariant, PTL

(* Who is waited for is beyond a lock or about to commit a failure, and     *)
(* waits itself only for a COMMIT, which waits for nothing.                *)
LEMMA WhoIsWaitedFor ==
  ASSUME TransactionInv, NEW s \in Sessions, NEW t \in Sessions, WaitsFor(s, t)
  PROVE  /\ s # t
         /\ \A u \in Sessions : WaitsFor(t, u) => \A v : ~WaitsFor(u, v)
<1> USE DEF AcceptPhases, CompletePhases
<1>1. Critical(t) \/ pc[t] \in {"commitRetry", "commitFailed"}
  <2>1. CASE WaitsForItem(s, t)
    <3>1. item[s] \in Items
      BY <2>1 DEF TransactionInv, SessionInv, WaitsForItem
    <3>2. LockKey[item[s]] \in Keys
      BY <3>1, LockKeyAssumption
    <3> QED
      BY <2>1, <3>2 DEF TransactionInv, LockHolders, WaitsForItem
  <2>2. CASE WaitsForRow(s, t)
    BY <2>2 DEF WaitsForRow, Updates, References, Critical
  <2> QED
    BY <2>1, <2>2 DEF WaitsFor
<1>2. ASSUME NEW u \in Sessions, WaitsFor(t, u)
      PROVE  pc[u] \in {"commitComplete", "commitRetry", "commitFailed"}
  BY <1>1, <1>2 DEF WaitsFor, WaitsForItem, WaitsForRow, Updates, Critical
<1>3. ASSUME NEW u \in Sessions, NEW v, WaitsFor(u, v)
      PROVE  pc[u] \notin {"commitComplete", "commitRetry", "commitFailed"}
  BY <1>3 DEF WaitsFor, WaitsForItem, WaitsForRow
<1>4. s # t
  BY <1>1 DEF WaitsFor, WaitsForItem, WaitsForRow, Critical
<1> QED
  BY <1>2, <1>3, <1>4

(* Transactions never wait in a circle: one that waits for an item's lock  *)
(* or to record a failure holds nothing, and one that waits for a job's    *)
(* row beyond its lock waits for a COMMIT.                                 *)
THEOREM NobodyWaitsInCircles == Spec => []NoDeadlock
<1>1. TransactionInv => NoDeadlock
  BY WhoIsWaitedFor DEF NoDeadlock
<1> QED
  BY <1>1, TransactionInvariant, PTL

LEMMA WaitingBlocks ==
  ASSUME TransactionInv, NEW s \in Sessions, NEW t \in Sessions, WaitsFor(s, t), Step(s)
  PROVE  pc'[s] = "idle"
<1>1. TypeOK
  BY DEF TransactionInv
<1>2. pc[s] \in {"lockForAccept", "lockForComplete", "insertResult", "updateJob", "recordFailure"}
  BY DEF WaitsFor, WaitsForItem, WaitsForRow
<1>3. ~LockForAccept(s) /\ ~LockForComplete(s)
  BY DistinctAssumption DEF WaitsFor, WaitsForItem, WaitsForRow, LockForAccept, LockForComplete, LockItem
<1>4. ~InsertResult(s)
  BY DEF WaitsFor, WaitsForItem, WaitsForRow, InsertResult, Continue
<1>5. ~UpdateJob(s) /\ ~RecordFailure(s)
  BY DEF WaitsFor, WaitsForItem, WaitsForRow, UpdateJob, RecordFailure, Unlocked, Unreferenced
<1>6. Rollback(s)
  BY <1>2, <1>3, <1>4, <1>5 DEF Step, Begin, BeginAccept, BeginComplete, BeginRecord, BeginWorker,
     Statement, ReadStatus, ReadActive, InsertJob, InsertOutbox, CommitAccept, RereadJob, ReadItem,
     UpdateItem, CommitComplete, CommitRecord, LookupJob, Continue
<1> QED
  BY <1>1, <1>6 DEF Rollback, End, Goto, TypeOK

(* Nobody gives up an item's lock or a job's row before its end. *)
LEMMA LocksAreKept ==
  ASSUME TransactionInv, NEW t \in Sessions, NEW u \in Sessions, Step(u), pc'[t] # "idle"
  PROVE  /\ \A k \in Keys : itemLock[k] = t => itemLock'[k] = t
         /\ \A j : Updates(t, j) => Updates(t, j)' /\ pc'[t] = pc[t]
         /\ \A j : References(t, j) => References(t, j)'
<1>1. TypeOK
  BY DEF TransactionInv
<1>2. CASE u # t
  BY <1>2, StepIsOwn, <1>1, DistinctAssumption DEF Own, Updates, References
<1>3. CASE u = t
  <2>1. ~End(t)
    BY <1>1 DEF End, Goto, TypeOK
  <2>2. ~Begin(t) \/ (pc[t] = "idle" /\ itemLock' = itemLock)
    BY DEF Begin, BeginAccept, BeginComplete, BeginRecord, BeginWorker
  <2>3. \A k \in Keys : itemLock[k] = t => itemLock'[k] = t
    <3>1. CASE LockForAccept(t) \/ LockForComplete(t)
      BY <1>1, <3>1 DEF LockForAccept, LockForComplete, LockItem, TypeOK
    <3>2. CASE itemLock' = itemLock
      BY <3>2
    <3> QED
      BY <1>3, <2>1, <2>2, <3>1, <3>2 DEF Step, Statement, Rollback, ReadStatus, ReadActive, InsertJob, InsertOutbox,
         CommitAccept, RereadJob, ReadItem, InsertResult, UpdateItem, UpdateJob, CommitComplete,
         RecordFailure, CommitRecord, LookupJob, Continue
  <2>4. pc[t] \notin {"commitComplete", "commitRetry", "commitFailed"}
    BY <1>3, <2>1, <2>2 DEF Step, Statement, Rollback, LockForAccept, LockForComplete, LockItem, ReadStatus,
       ReadActive, InsertJob, InsertOutbox, CommitAccept, RereadJob, ReadItem, InsertResult, UpdateItem,
       UpdateJob, CommitComplete, RecordFailure, CommitRecord, LookupJob, Continue
  <2>5. ASSUME pc[t] \in {"updateItem", "updateJob"}
        PROVE  pc'[t] \in {"updateJob", "commitComplete"} /\ job' = job
    <3>1. UpdateItem(t) \/ UpdateJob(t)
      BY <1>3, <2>1, <2>2, <2>5 DEF Step, Statement, Rollback, LockForAccept, LockForComplete, LockItem, ReadStatus,
         ReadActive, InsertJob, InsertOutbox, CommitAccept, RereadJob, ReadItem, InsertResult,
         CommitComplete, RecordFailure, CommitRecord, LookupJob, Continue
    <3> QED
      BY <1>1, <2>1, <3>1 DEF UpdateItem, UpdateJob, Continue, Goto, TypeOK
  <2> QED
    BY <2>3, <2>4, <2>5 DEF Updates, References
<1> QED
  BY <1>2, <1>3

(* What makes a failure wait for the completion that refers to its job     *)
(* stays so: no other failure ends the job, and counts only grow.          *)
LEMMA LastAttemptStays ==
  ASSUME TransactionInv, NEW t \in Sessions, NEW u \in Sessions, Step(u), pc'[t] # "idle",
         NEW j \in Jobs, References(t, j), jobState[j] = "accepted", LastAttempt(j)
  PROVE  jobState'[j] = "accepted" /\ LastAttempt(j)'
<1> USE DEF TransactionInv
<1>1. CASE UNCHANGED tables
  BY <1>1 DEF tables, LastAttempt
<1>2. CASE job[u] # j
  <2>1. jobState'[j] = jobState[j] /\ attempts'[j] = attempts[j]
    BY <1>2, RowsStay
  <2> QED
    BY <2>1 DEF LastAttempt
<1>3. CASE job[u] = j /\ CommitAccept(u)
  BY <1>3 DEF CommitAccept, SessionInv
<1>4. CASE job[u] = j /\ CommitComplete(u)
  <2>1. item[u] = jobItem[j] /\ item[t] = jobItem[j]
    BY <1>4 DEF CommitComplete, References, SessionInv, CompletePhases
  <2>2. Critical(u) /\ Critical(t)
    BY <1>4 DEF CommitComplete, References, Critical, CompletePhases
  <2>3. u = t
    BY <2>1, <2>2, LockExcludes DEF ItemExclusion
  <2>4. pc'[u] = "idle"
    BY <1>4 DEF CommitComplete, End, Goto, TypeOK
  <2> QED
    BY <2>3, <2>4
<1>5. CASE job[u] = j /\ CommitRecord(u)
  <2>1. u # t
    BY <1>5 DEF CommitRecord, References
  <2>2. pc[u] = "commitRetry"
    BY <1>5, <2>1 DEF CommitRecord, OutcomesExclude, Unreferenced
  <2>3. jobState'[j] = "accepted" /\ attempts'[j] = attempts[j] + 1 /\ attempts[j] \in Nat
    BY <1>5, <2>2 DEF CommitRecord, TypeOK
  <2> QED
    BY <2>3, BudgetAssumption DEF LastAttempt
<1> QED
  BY <1>1, <1>2, <1>3, <1>4, <1>5, TableSteps

(* The row locks one waits for stay until the end of who has them: also    *)
(* the state and count that make a failure wait for a completion.          *)
THEOREM WaitingLasts == Spec => WaitersWait
<1>1. ASSUME TransactionInv, NEW s \in Sessions, NEW t \in Sessions, WaitsFor(s, t),
             NEW u \in Sessions \ {s}, Step(u), pc'[t] # "idle"
      PROVE  pc'[s] = pc[s] /\ WaitsFor(s, t)'
  <2>1. pc'[s] = pc[s] /\ item'[s] = item[s] /\ job'[s] = job[s]
    BY <1>1, StepIsOwn DEF Own, TransactionInv
  <2>2. CASE WaitsForItem(s, t)
    <3>1. LockKey[item[s]] \in Keys
      BY <1>1, <2>2, LockKeyAssumption DEF TransactionInv, SessionInv, WaitsForItem
    <3> QED
      BY <1>1, <2>1, <2>2, <3>1, LocksAreKept DEF WaitsFor, WaitsForItem
  <2>3. CASE WaitsForRow(s, t) /\ Updates(t, job[s])
    BY <1>1, <2>1, <2>3, LocksAreKept DEF WaitsFor, WaitsForRow
  <2>4. CASE WaitsForRow(s, t) /\ ~Updates(t, job[s])
    <3>1. /\ s # t /\ pc[s] = "recordFailure" /\ References(t, job[s])
          /\ jobState[job[s]] = "accepted" /\ LastAttempt(job[s])
      BY <2>4 DEF WaitsForRow
    <3>2. job[s] \in Jobs
      BY <1>1, <3>1 DEF TransactionInv, SessionInv, RecordPhases
    <3>3. References(t, job[s])' /\ jobState'[job[s]] = "accepted" /\ LastAttempt(job[s])'
      BY <1>1, <2>1, <3>1, <3>2, LocksAreKept, LastAttemptStays DEF References, LastAttempt
    <3> QED
      BY <2>1, <3>1, <3>3 DEF WaitsFor, WaitsForRow
  <2> QED
    BY <1>1, <2>2, <2>3, <2>4 DEF WaitsFor
<1>2. ASSUME TransactionInv, [Next]_vars, NEW s \in Sessions, NEW t \in Sessions, WaitsFor(s, t)
      PROVE  \/ pc'[s] = "idle"
             \/ pc'[s] = pc[s] /\ (WaitsFor(s, t)' \/ pc'[t] = "idle")
  <2>1. ASSUME NEW u \in Sessions, Step(u)
        PROVE  \/ pc'[s] = "idle"
               \/ pc'[s] = pc[s] /\ (WaitsFor(s, t)' \/ pc'[t] = "idle")
    <3>1. u # s => pc'[s] = pc[s]
      BY <1>2, <2>1, StepIsOwn DEF Own, TransactionInv
    <3> QED
      BY <1>1, <1>2, <2>1, <3>1, WaitingBlocks
  <2>2. ASSUME UNCHANGED <<jobState, attempts, pc, item, job, itemLock>>
        PROVE  pc'[s] = pc[s] /\ WaitsFor(s, t)'
    BY <1>2, <2>2 DEF WaitsFor, WaitsForItem, WaitsForRow, Updates, References, LastAttempt
  <2> QED
    BY <1>2, <2>1, <2>2 DEF Next, Step, CreateWorkItem, vars, tables
<1>3. TransactionInv /\ [Next]_vars =>
        [\A s, t \in Sessions : WaitsFor(s, t) =>
           \/ pc'[s] = "idle"
           \/ pc'[s] = pc[s] /\ (WaitsFor(s, t)' \/ pc'[t] = "idle")]_vars
  BY <1>2
<1> QED
  BY <1>3, TransactionInvariant, PTL DEF Spec, WaitersWait

(* Success and failure of one job never race to a commit. *)
THEOREM OutcomesAreExclusive == Spec => []OutcomesExclude
<1>1. TransactionInv => OutcomesExclude
  BY DEF TransactionInv
<1> QED
  BY <1>1, TransactionInvariant, PTL

(* The committed tables keep the success invariant. *)
THEOREM CommittedSuccessInvariant == Spec => []SuccessInvariant
<1>1. TransactionInv => SuccessInvariant
  BY DEF TransactionInv
<1> QED
  BY <1>1, TransactionInvariant, PTL

(* Interleaved statement by statement, the transactions implement the      *)
(* processing contract: each takes effect as one of its steps, at COMMIT.  *)
THEOREM ImplementsContract == Spec => ContractSafety
<1>1. Init => Contract!Init
  BY DEF Init, Contract!Init, Contract!Jobs, Jobs
<1>2. TransactionInv /\ [Next]_vars => [Contract!Next]_(Contract!contractVars)
  <2> SUFFICES ASSUME TransactionInv, [Next]_vars PROVE Contract!Next \/ UNCHANGED Contract!contractVars
    OBVIOUS
  <2> USE DEF TransactionInv, Contract!contractVars
  <2> Contract!Jobs = Jobs
    BY DEF Contract!Jobs, Jobs
  <2>1. CASE UNCHANGED tables
    BY <2>1 DEF tables
  <2>2. ASSUME NEW i \in Items, CreateWorkItem(i) PROVE Contract!Create(i)
    BY <2>2 DEF CreateWorkItem, Contract!Create, TypeOK
  <2>3. ASSUME NEW s \in Sessions, CommitAccept(s) PROVE Contract!Next
    <3>1. /\ item[s] \in Items /\ job[s] \in Jobs /\ jobState[job[s]] = "none"
          /\ status[item[s]] = "pending"
          /\ \A j \in Jobs : jobItem[j] = item[s] => jobState[j] = "failed"
      BY <2>3 DEF CommitAccept, SessionInv, CheckedStateHolds
    <3>2. Contract!Accept(item[s], job[s])
      BY <2>3, <3>1 DEF CommitAccept, Contract!Accept
    <3> QED
      BY <3>1, <3>2 DEF Contract!Next
  <2>4. ASSUME NEW s \in Sessions, CommitComplete(s) PROVE Contract!Next
    <3>1. job[s] \in Jobs /\ jobState[job[s]] = "accepted" /\ status[item[s]] = "pending"
      BY <2>4 DEF CommitComplete, SessionInv, CheckedStateHolds, CompletePhases
    <3>2. {i \in Items : status'[i] # "absent"} = {i \in Items : status[i] # "absent"}
      BY <2>4, <3>1 DEF CommitComplete, TypeOK
    <3>3. Contract!Succeed(job[s])
      BY <2>4, <3>1, <3>2 DEF CommitComplete, Contract!Succeed
    <3> QED
      BY <3>1, <3>3 DEF Contract!Next
  <2>5. ASSUME NEW s \in Sessions, CommitRecord(s) PROVE Contract!Next
    <3>1. /\ job[s] \in Jobs /\ jobState[job[s]] = "accepted"
          /\ pc[s] = "commitFailed" <=> attempts[job[s]] + 1 >= MaxAttempts
      BY <2>5 DEF CommitRecord, SessionInv, OutcomesExclude, RecordPhases, LastAttempt
    <3>2. Contract!FailAttempt(job[s])
      BY <2>5, <3>1 DEF CommitRecord, Contract!FailAttempt
    <3> QED
      BY <3>1, <3>2 DEF Contract!Next
  <2> QED
    BY <2>1, <2>2, <2>3, <2>4, <2>5, TableSteps DEF Next, Step, Contract!Next, vars
<1> QED
  BY <1>1, <1>2, TransactionInvariant, PTL DEF Spec, ContractSafety, Contract!Safety
===============================================================================
