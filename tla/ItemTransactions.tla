--------------------------- MODULE ItemTransactions ---------------------------
(***************************************************************************)
(* The three transactions that share a Work Item, statement by statement,  *)
(* as PostgreSQL runs them under READ COMMITTED: acceptance of a           *)
(* processing request, completion of a job and the recording of a failed   *)
(* attempt.  Acceptance and completion hold the item's advisory lock;      *)
(* failure recording does not and meets completion on the job row only.    *)
(*                                                                         *)
(* The tables below are what is committed.  A transaction's own writes are *)
(* kept in its program counter and appear when it commits; the rows it     *)
(* wrote are locked until then.  Any statement may fail, and a client may  *)
(* disappear: the transaction is then rolled back, or, when its COMMIT is  *)
(* already on the way, committed without the client learning of it.        *)
(***************************************************************************)
EXTENDS Naturals, FiniteSets

CONSTANTS Items,           \* work item identities
          NoItem,          \* no item
          MaxJobs,         \* bound: identities of jobs
          Requests,        \* database sessions of the API
          WorkerSessions,  \* database sessions of workers
          NoSession,       \* holder of a free lock
          Keys,            \* advisory lock keys
          LockKey,         \* hashint8 of each item: items may share a key
          MaxAttempts      \* workerProcessingMaxAttempts

Jobs == 1..MaxJobs
NoJob == 0
Sessions == Requests \cup WorkerSessions

ASSUME DistinctAssumption == /\ NoItem \notin Items
                             /\ NoSession \notin Sessions
                             /\ Requests \cap WorkerSessions = {}
ASSUME LockKeyAssumption == LockKey \in [Items -> Keys]
ASSUME BoundAssumption == MaxJobs \in Nat
ASSUME BudgetAssumption == MaxAttempts \in Nat \ {0}

VARIABLES status, result,               \* work_items, work_item_results
          jobState, jobItem, attempts,  \* processing_jobs
          pc,                           \* the next statement of each session
          item, job,                    \* its parameters
          itemLock                      \* holder of each advisory lock

tables == <<status, result, jobState, jobItem, attempts>>
vars == <<tables, pc, item, job, itemLock>>

AcceptPhases == {"lockForAccept", "readStatus", "readActive", "insertJob", "insertOutbox", "commitAccept"}
CompletePhases == {"lockForComplete", "rereadJob", "readItem", "insertResult", "updateItem",
                   "updateJob", "commitComplete"}
RecordPhases == {"recordFailure", "commitRetry", "commitFailed", "lookupJob"}

TypeOK ==
  /\ status \in [Items -> {"absent", "pending", "done"}]
  /\ result \in [Items -> Jobs \cup {NoJob}]
  /\ jobState \in [Jobs -> {"none", "accepted", "succeeded", "failed"}]
  /\ jobItem \in [Jobs -> Items \cup {NoItem}]
  /\ attempts \in [Jobs -> Nat]
  /\ pc \in [Sessions -> {"idle"} \cup AcceptPhases \cup CompletePhases \cup RecordPhases]
  /\ item \in [Sessions -> Items \cup {NoItem}]
  /\ job \in [Sessions -> Jobs \cup {NoJob}]
  /\ itemLock \in [Keys -> Sessions \cup {NoSession}]

Init ==
  /\ status = [i \in Items |-> "absent"]
  /\ result = [i \in Items |-> NoJob]
  /\ jobState = [j \in Jobs |-> "none"]
  /\ jobItem = [j \in Jobs |-> NoItem]
  /\ attempts = [j \in Jobs |-> 0]
  /\ pc = [s \in Sessions |-> "idle"]
  /\ item = [s \in Sessions |-> NoItem]
  /\ job = [s \in Sessions |-> NoJob]
  /\ itemLock = [k \in Keys |-> NoSession]

Goto(s, phase) == pc' = [pc EXCEPT ![s] = phase]

(* The next statement of a transaction that neither commits nor ends. *)
Continue(s, from, to) ==
  /\ pc[s] = from
  /\ Goto(s, to)
  /\ UNCHANGED <<tables, item, job, itemLock>>

(* A variant of End for session-scoped locks, which the pool keeps. *)
EndKeepingLocks(s) ==
  /\ Goto(s, "idle")
  /\ item' = [item EXCEPT ![s] = NoItem]
  /\ job' = [job EXCEPT ![s] = NoJob]
  /\ UNCHANGED itemLock

(* COMMIT or ROLLBACK: transaction-scoped locks are released. *)
End(s) ==
  /\ Goto(s, "idle")
  /\ item' = [item EXCEPT ![s] = NoItem]
  /\ job' = [job EXCEPT ![s] = NoJob]
  /\ itemLock' = [k \in Keys |-> IF itemLock[k] = s THEN NoSession ELSE itemLock[k]]

(* A variant of LockItem that takes no lock. *)
LockNothing(s, from, to) == Continue(s, from, to)

(* pg_advisory_xact_lock waits for the holder's transaction to end. *)
LockItem(s, from, to) ==
  /\ pc[s] = from
  /\ itemLock[LockKey[item[s]]] = NoSession
  /\ itemLock' = [itemLock EXCEPT ![LockKey[item[s]]] = s]
  /\ Goto(s, to)
  /\ UNCHANGED <<tables, item, job>>

(* Row locks on a job.  A completion's result row references the job (FOR  *)
(* KEY SHARE), which only a change of the job's state has to wait for; an  *)
(* uncommitted update of the job makes every other update wait.            *)
References(s, j) == job[s] = j /\ pc[s] \in {"updateItem", "updateJob", "commitComplete"}
Updates(s, j) == job[s] = j /\ pc[s] \in {"commitComplete", "commitRetry", "commitFailed"}

Unlocked(s, j) == \A t \in Sessions \ {s} : ~Updates(t, j)
Unreferenced(s, j) == \A t \in Sessions \ {s} : ~References(t, j)

-------------------------------------------------------------------------------
(* API: create, accept *)

CreateWorkItem(i) ==
  /\ status[i] = "absent"
  /\ status' = [status EXCEPT ![i] = "pending"]
  /\ UNCHANGED <<result, jobState, jobItem, attempts, pc, item, job, itemLock>>

FreeJobs == {j \in Jobs : jobState[j] = "none" /\ \A s \in Sessions : job[s] # j}

(* Bound: a request begins while there are identities left for all.  An    *)
(* identity whose transaction was rolled back was seen by nobody.          *)
BeginAccept(s, i) ==
  /\ s \in Requests
  /\ pc[s] = "idle"
  /\ Cardinality({t \in Requests : pc[t] # "idle" /\ job[t] = NoJob}) < Cardinality(FreeJobs)
  /\ Goto(s, "lockForAccept")
  /\ item' = [item EXCEPT ![s] = i]
  /\ UNCHANGED <<tables, job, itemLock>>

LockForAccept(s) == LockItem(s, "lockForAccept", "readStatus")

(* errWorkItemNotFound and errWorkItemDone end the transaction. *)
ReadStatus(s) ==
  \/ Continue(s, "readStatus", "readActive") /\ status[item[s]] = "pending"
  \/ /\ pc[s] = "readStatus"
     /\ status[item[s]] # "pending"
     /\ End(s)
     /\ UNCHANGED tables

ActiveJobs(i) == {j \in Jobs : jobItem[j] = i /\ jobState[j] = "accepted"}

(* errProcessingAlreadyActive ends the transaction. *)
ReadActive(s) ==
  \/ Continue(s, "readActive", "insertJob") /\ ActiveJobs(item[s]) = {}
  \/ /\ pc[s] = "readActive"
     /\ ActiveJobs(item[s]) # {}
     /\ End(s)
     /\ UNCHANGED tables

InsertJob(s) ==
  /\ pc[s] = "insertJob"
  /\ \E j \in FreeJobs : job' = [job EXCEPT ![s] = j]
  /\ Goto(s, "insertOutbox")
  /\ UNCHANGED <<tables, item, itemLock>>

InsertOutbox(s) == Continue(s, "insertOutbox", "commitAccept")

(* The job becomes visible, its outbox row with it. *)
CommitAccept(s) ==
  /\ pc[s] = "commitAccept"
  /\ jobState' = [jobState EXCEPT ![job[s]] = "accepted"]
  /\ jobItem' = [jobItem EXCEPT ![job[s]] = item[s]]
  /\ End(s)
  /\ UNCHANGED <<status, result, attempts>>

-------------------------------------------------------------------------------
(* Worker: complete *)

(* Any delivery, first or duplicate, of any job ever accepted. *)
BeginWorker(s, j, phase) ==
  /\ s \in WorkerSessions
  /\ pc[s] = "idle"
  /\ jobState[j] # "none"
  /\ Goto(s, phase)
  /\ item' = [item EXCEPT ![s] = jobItem[j]]
  /\ job' = [job EXCEPT ![s] = j]
  /\ UNCHANGED <<tables, itemLock>>

BeginComplete(s, j) == BeginWorker(s, j, "lockForComplete")

LockForComplete(s) == LockItem(s, "lockForComplete", "rereadJob")

(* A variant of RereadJob that relies on the inspection before the lock. *)
RereadNothing(s) == Continue(s, "rereadJob", "readItem")

(* completionAlreadyTerminal ends the transaction. *)
RereadJob(s) ==
  \/ Continue(s, "rereadJob", "readItem") /\ jobState[job[s]] = "accepted"
  \/ /\ pc[s] = "rereadJob"
     /\ jobState[job[s]] # "accepted"
     /\ End(s)
     /\ UNCHANGED tables

(* errWorkItemNotPending would end the transaction: see CheckedStateHolds. *)
ReadItem(s) ==
  /\ pc[s] = "readItem"
  /\ IF status[item[s]] = "pending"
     THEN Goto(s, "insertResult") /\ UNCHANGED <<item, job, itemLock>>
     ELSE End(s)
  /\ UNCHANGED tables

(* A variant of InsertResult that does not wait for the job's row. *)
InsertResultUnreferenced(s) == Continue(s, "insertResult", "updateItem")

(* The foreign key to the job is checked by the statement and has to wait  *)
(* for a failure about to be committed.                                    *)
InsertResult(s) ==
  /\ Continue(s, "insertResult", "updateItem")
  /\ \A t \in Sessions \ {s} : Updates(t, job[s]) => pc[t] = "commitRetry"

UpdateItem(s) == Continue(s, "updateItem", "updateJob")

(* A variant of UpdateJob without the guard on the state. *)
UpdateJobUnguarded(s) == Unlocked(s, job[s]) /\ Continue(s, "updateJob", "commitComplete")

(* Guarded by state = 'accepted'.  Without a row the completion is undone. *)
UpdateJob(s) ==
  /\ pc[s] = "updateJob"
  /\ Unlocked(s, job[s])
  /\ \/ jobState[job[s]] = "accepted" /\ Continue(s, "updateJob", "commitComplete")
     \/ jobState[job[s]] # "accepted" /\ End(s) /\ UNCHANGED tables

(* Result, item and job change together. *)
CommitComplete(s) ==
  /\ pc[s] = "commitComplete"
  /\ result' = [result EXCEPT ![item[s]] = job[s]]
  /\ status' = [status EXCEPT ![item[s]] = "done"]
  /\ jobState' = [jobState EXCEPT ![job[s]] = "succeeded"]
  /\ attempts' = [attempts EXCEPT ![job[s]] = @ + 1]
  /\ End(s)
  /\ UNCHANGED jobItem

-------------------------------------------------------------------------------
(* Worker: record a failed attempt *)

BeginRecord(s, j) == BeginWorker(s, j, "recordFailure")

LastAttempt(j) == attempts[j] + 1 >= MaxAttempts

(* A variant of RecordFailure that decides on what it read before it       *)
(* waited for the row.                                                     *)
RecordFailureStale(s) ==
  /\ pc[s] = "recordFailure"
  /\ jobState[job[s]] = "accepted"
  /\ Goto(s, IF LastAttempt(job[s]) THEN "commitFailed" ELSE "commitRetry")
  /\ UNCHANGED <<tables, item, job, itemLock>>

(* One UPDATE in a transaction of its own, without the item lock.  It      *)
(* waits for the row, and when it ends the job also for those referencing  *)
(* it; then it looks at the row again.                                     *)
RecordFailure(s) ==
  /\ pc[s] = "recordFailure"
  /\ Unlocked(s, job[s])
  /\ \/ /\ jobState[job[s]] = "accepted"
        /\ LastAttempt(job[s])
        /\ Unreferenced(s, job[s])
        /\ Goto(s, "commitFailed")
     \/ /\ jobState[job[s]] = "accepted"
        /\ ~LastAttempt(job[s])
        /\ Goto(s, "commitRetry")
     \/ /\ jobState[job[s]] # "accepted"
        /\ Goto(s, "lookupJob")
  /\ UNCHANGED <<tables, item, job, itemLock>>

CommitRecord(s) ==
  /\ pc[s] \in {"commitRetry", "commitFailed"}
  /\ attempts' = [attempts EXCEPT ![job[s]] = @ + 1]
  /\ jobState' = [jobState EXCEPT ![job[s]] = IF pc[s] = "commitFailed" THEN "failed" ELSE "accepted"]
  /\ End(s)
  /\ UNCHANGED <<status, result, jobItem>>

(* Without a row: a second statement finds out why. *)
LookupJob(s) ==
  /\ pc[s] = "lookupJob"
  /\ End(s)
  /\ UNCHANGED tables

(* A statement fails or its client disappears. *)
Rollback(s) ==
  /\ pc[s] # "idle"
  /\ End(s)
  /\ UNCHANGED tables

-------------------------------------------------------------------------------
Statement(s) ==
  \/ LockForAccept(s) \/ ReadStatus(s) \/ ReadActive(s)
  \/ InsertJob(s) \/ InsertOutbox(s) \/ CommitAccept(s)
  \/ LockForComplete(s) \/ RereadJob(s) \/ ReadItem(s)
  \/ InsertResult(s) \/ UpdateItem(s) \/ UpdateJob(s) \/ CommitComplete(s)
  \/ RecordFailure(s) \/ CommitRecord(s) \/ LookupJob(s)

Begin(s) == \/ \E i \in Items : BeginAccept(s, i)
            \/ \E j \in Jobs : BeginComplete(s, j) \/ BeginRecord(s, j)

Next == \/ \E i \in Items : CreateWorkItem(i)
        \/ \E s \in Sessions : Begin(s) \/ Statement(s) \/ Rollback(s)

Spec == Init /\ [][Next]_vars

(* The server executes every statement whose locks are granted; waiting    *)
(* for the item lock is first come, first served, so no one is passed over *)
(* for ever.                                                               *)
FairSpec ==
  /\ Spec
  /\ \A s \in Sessions : SF_vars(Statement(s))

-------------------------------------------------------------------------------
(* Properties *)

(* At most one transaction per item is between its lock and its end. *)
Critical(s) == pc[s] \in (AcceptPhases \cup CompletePhases) \ {"lockForAccept", "lockForComplete"}
ItemExclusion ==
  \A s, t \in Sessions : Critical(s) /\ Critical(t) /\ item[s] = item[t] => s = t

(* What a locked transaction has read still holds when it writes, and what *)
(* it writes violates no constraint: the accepting insert meets no active  *)
(* or successful job (partial unique index), a completion finds its item   *)
(* pending and without a result (errWorkItemNotPending, the primary key    *)
(* and the deferred foreign keys), although failures are recorded without  *)
(* the lock.                                                               *)
CheckedStateHolds ==
  \A s \in Sessions :
    /\ pc[s] \in {"insertJob", "insertOutbox", "commitAccept"} =>
         /\ status[item[s]] = "pending"
         /\ \A j \in Jobs : jobItem[j] = item[s] => jobState[j] = "failed"
    /\ pc[s] \in {"readItem", "insertResult", "updateItem", "updateJob", "commitComplete"} =>
         /\ status[item[s]] = "pending"
         /\ result[item[s]] = NoJob
    /\ pc[s] = "commitComplete" => jobState[job[s]] = "accepted"

(* The committed tables keep the success invariant. *)
SuccessInvariant ==
  /\ \A i \in Items : (status[i] = "done") <=> (result[i] # NoJob)
  /\ \A i \in Items : result[i] # NoJob =>
       jobState[result[i]] = "succeeded" /\ jobItem[result[i]] = i
  /\ \A j \in Jobs : jobState[j] = "succeeded" => result[jobItem[j]] = j

(* A failure about to commit is the only update of its job, was decided on *)
(* the current count, and ends no job that a completion already refers to. *)
OutcomesExclude ==
  \A s \in Sessions : pc[s] \in {"commitRetry", "commitFailed"} =>
    /\ jobState[job[s]] = "accepted"
    /\ Unlocked(s, job[s])
    /\ LastAttempt(job[s]) <=> pc[s] = "commitFailed"
    /\ pc[s] = "commitFailed" => Unreferenced(s, job[s])

(* Who has to end its transaction before s can go on: the holder of the    *)
(* item's lock, or whoever updated the job's row or refers to it.          *)
WaitsForItem(s, t) ==
  /\ pc[s] \in {"lockForAccept", "lockForComplete"}
  /\ itemLock[LockKey[item[s]]] = t

WaitsForRow(s, t) ==
  /\ s # t
  /\ \/ pc[s] = "insertResult" /\ Updates(t, job[s]) /\ pc[t] # "commitRetry"
     \/ pc[s] \in {"updateJob", "recordFailure"} /\ Updates(t, job[s])
     \/ /\ pc[s] = "recordFailure" /\ References(t, job[s])
        /\ jobState[job[s]] = "accepted" /\ LastAttempt(job[s])

WaitsFor(s, t) == WaitsForItem(s, t) \/ WaitsForRow(s, t)

(* No transactions wait for each other in a circle, whatever locks their   *)
(* items share: whoever is waited for waits at most for one that does not  *)
(* wait itself, and nobody waits for its own lock.                         *)
NoDeadlock ==
  \A s, t, u, v \in Sessions :
    /\ ~WaitsFor(s, s)
    /\ WaitsFor(s, t) /\ WaitsFor(t, u) => ~WaitsFor(u, v)

(* Whoever waits is passed by nothing: it takes no statement, and waits    *)
(* until the transaction it waits for has ended, or is rolled back itself. *)
WaitersWait ==
  [][\A s, t \in Sessions : WaitsFor(s, t) =>
       \/ pc'[s] = "idle"
       \/ pc'[s] = pc[s] /\ (WaitsFor(s, t)' \/ pc'[t] = "idle")]_vars

(* Every interleaving of statements has the effect of whole transactions   *)
(* of the processing contract, one after the other.                        *)
Contract == INSTANCE ProcessingContract WITH created <- {i \in Items : status[i] # "absent"}
ContractSafety == Contract!Safety

(* Nobody waits for ever: every transaction ends, whoever waits for whom.  *)
TransactionsEnd == \A s \in Sessions : pc[s] # "idle" ~> pc[s] = "idle"

-------------------------------------------------------------------------------
(* The inductive invariant *)

(* What a session works on, phase by phase. *)
SessionInv ==
  \A s \in Sessions :
    /\ pc[s] = "idle" => job[s] = NoJob
    /\ pc[s] # "idle" => item[s] \in Items
    /\ pc[s] \in AcceptPhases \ {"insertOutbox", "commitAccept"} => job[s] = NoJob
    /\ pc[s] \in {"insertOutbox", "commitAccept"} =>
         /\ job[s] \in Jobs /\ jobState[job[s]] = "none"
         /\ \A t \in Sessions \ {s} : job[t] # job[s]
    /\ pc[s] \in CompletePhases \cup RecordPhases =>
         job[s] \in Jobs /\ jobState[job[s]] # "none" /\ jobItem[job[s]] = item[s]

JobsInv ==
  \A j \in Jobs : IF jobState[j] = "none"
                  THEN jobItem[j] = NoItem
                  ELSE jobItem[j] \in Items /\ status[jobItem[j]] # "absent"

OneActiveJob ==
  \A j, k \in Jobs :
    /\ jobItem[j] = jobItem[k]
    /\ jobState[j] \in {"accepted", "succeeded"}
    /\ jobState[k] \in {"accepted", "succeeded"}
    => j = k

LockInv == \A s \in Sessions : Critical(s) => itemLock[LockKey[item[s]]] = s

(* Locks are held by transactions beyond them, and by nobody else. *)
LockHolders ==
  \A k \in Keys, s \in Sessions : itemLock[k] = s => Critical(s) /\ LockKey[item[s]] = k

PendingIsStillPending == \A s \in Sessions : pc[s] = "readActive" => status[item[s]] = "pending"

TransactionInv ==
  /\ TypeOK /\ SessionInv /\ JobsInv /\ LockInv /\ LockHolders
  /\ SuccessInvariant /\ OneActiveJob
  /\ PendingIsStillPending /\ CheckedStateHolds /\ OutcomesExclude
===============================================================================
