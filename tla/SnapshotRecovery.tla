---------------------------- MODULE SnapshotRecovery ----------------------------
(***************************************************************************)
(* Logical backups of the database (tools/postgres-backup-local) and what  *)
(* a restore means for the work that goes on: RabbitMQ keeps the messages  *)
(* of the history that was lost, and the identity sequence of the jobs is  *)
(* set back to what the backup recorded.                                   *)
(*                                                                         *)
(* The delivery machinery is OutboxDelivery's, in steps that leave out     *)
(* what does not depend on a restore: the claim of an outbox row, failing  *)
(* processors, the time between a worker's transactions, a process that is *)
(* down without the operator's doing.  A message is its payload, job and   *)
(* item; "born", the history its job was accepted in, is an auxiliary      *)
(* field no action looks at.                                               *)
(***************************************************************************)
EXTENDS Naturals, FiniteSets, Bags

CONSTANTS Items,        \* work item identities
          NoItem,       \* jobItem of a job without a row
          MaxJobs,      \* bound: identities processing_jobs_id_seq hands out
          Workers,      \* worker publishing, held
          Creators,     \* postgres-backup-local create commands
          MaxBackups,   \* bound: paths backups are created at, in this order
          MaxRestores,  \* bound: times the database is lost
          MaxFaults     \* bound: crashes and failed calls of API and workers

Jobs == 1..MaxJobs
NoJob == 0
Paths == 1..MaxBackups
NoPath == 0
Histories == 0..MaxRestores
Messages == [job : Jobs, item : Items, born : Histories]
NoMessage == [job |-> NoJob]

ASSUME ItemAssumption == NoItem \notin Items
ASSUME BoundAssumption ==
  MaxJobs \in Nat /\ MaxBackups \in Nat /\ MaxRestores \in Nat /\ MaxFaults \in Nat
ASSUME WorkersAssumption == IsFiniteSet(Workers)

(* What pg_dump saves of the four tables, one field for each column; born  *)
(* and reused are auxiliary: the history a job row was accepted in, and    *)
(* the jobs whose identity was handed out over the heads of messages with  *)
(* greater ones.                                                           *)
TableStates ==
  [status : [Items -> {"absent", "pending", "done"}],
   result : [Items -> Jobs \cup {NoJob}],
   jobState : [Jobs -> {"none", "accepted", "succeeded"}],
   jobItem : [Jobs -> Items \cup {NoItem}],
   outbox : [Jobs -> {"none", "unpublished", "published"}],
   born : [Jobs -> Histories],
   reused : SUBSET Jobs]

EmptyTables ==
  [status |-> [i \in Items |-> "absent"],
   result |-> [i \in Items |-> NoJob],
   jobState |-> [j \in Jobs |-> "none"],
   jobItem |-> [j \in Jobs |-> NoItem],
   outbox |-> [j \in Jobs |-> "none"],
   born |-> [j \in Jobs |-> 0],
   reused |-> {}]

NoBackup == [tables |-> EmptyTables, jobSeq |-> 0, present |-> FALSE]
NoDump == [path |-> NoPath, tables |-> EmptyTables]

VARIABLES
  tables,     \* the application tables
  jobSeq,     \* processing_jobs_id_seq, read and advanced outside transactions
  accepting,  \* the identity an item's open acceptance transaction has taken
  queue,      \* the messages RabbitMQ can deliver
  publishing, \* the row whose message is published and not yet marked
  held,       \* the delivery a worker has handled and not settled
  dumps,      \* the create commands and their temporary files
  backups,    \* the files at the backup paths
  stopped,    \* the operator keeps API, workers and requests stopped
  history,    \* times the database was lost
  reported,   \* what the runbook's query reports: published accepted jobs
  faults

system == <<tables, jobSeq, accepting, queue, publishing, held>>
operator == <<stopped, history, reported>>
vars == <<system, dumps, backups, operator, faults>>

TypeOK ==
  /\ tables \in TableStates
  /\ jobSeq \in 0..MaxJobs
  /\ accepting \in [Items -> Jobs \cup {NoJob}]
  /\ BagToSet(queue) \subseteq Messages
  /\ publishing \in Jobs \cup {NoJob}
  /\ held \in [Workers -> Messages \cup {NoMessage}]
  /\ dumps \in [Creators -> [path : Paths \cup {NoPath}, tables : TableStates]]
  /\ backups \in [Paths -> [tables : TableStates, jobSeq : 0..MaxJobs, present : BOOLEAN]]
  /\ stopped \in BOOLEAN
  /\ history \in Histories
  /\ reported \subseteq Jobs
  /\ faults \in 0..MaxFaults

Init ==
  /\ tables = EmptyTables
  /\ jobSeq = 0
  /\ accepting = [i \in Items |-> NoJob]
  /\ queue = EmptyBag
  /\ publishing = NoJob
  /\ held = [w \in Workers |-> NoMessage]
  /\ dumps = [c \in Creators |-> NoDump]
  /\ backups = [p \in Paths |-> NoBackup]
  /\ stopped = FALSE
  /\ history = 0
  /\ reported = {}
  /\ faults = 0

Fault == faults < MaxFaults /\ faults' = faults + 1
One(m) == SetToBag({m})

(* What the workers have in hand, with the number of its copies. *)
InHand == [m \in {held[w] : w \in Workers} \ {NoMessage} |-> Cardinality({w \in Workers : held[w] = m})]

InBroker == BagToSet(queue) \cup BagToSet(InHand)

-------------------------------------------------------------------------------
(* The API *)

(* The process starts anew: open transactions are rolled back, identities  *)
(* they took stay taken, and a published row may stay unmarked.            *)
CrashAPI ==
  /\ publishing # NoJob \/ \E i \in Items : accepting[i] # NoJob
  /\ accepting' = [i \in Items |-> NoJob]
  /\ publishing' = NoJob
  /\ Fault
  /\ UNCHANGED <<tables, jobSeq, queue, held, dumps, backups, operator>>

CreateWorkItem(i) ==
  /\ ~stopped
  /\ tables.status[i] = "absent"
  /\ tables' = [tables EXCEPT !.status[i] = "pending"]
  /\ UNCHANGED <<jobSeq, accepting, queue, publishing, held, dumps, backups, operator, faults>>

Active(i) == {j \in Jobs : tables.jobItem[j] = i /\ tables.jobState[j] = "accepted"}

(* Under the item's lock: a pending item without an active job.  INSERT    *)
(* takes the next identity, which a rollback does not give back.           *)
BeginAccept(i) ==
  /\ ~stopped
  /\ accepting[i] = NoJob
  /\ tables.status[i] = "pending"
  /\ Active(i) = {}
  /\ jobSeq < MaxJobs
  /\ jobSeq' = jobSeq + 1
  /\ accepting' = [accepting EXCEPT ![i] = jobSeq + 1]
  /\ tables' = [tables EXCEPT !.reused =
                  IF \E m \in InBroker : m.job > jobSeq THEN @ \cup {jobSeq + 1} ELSE @]
  /\ UNCHANGED <<queue, publishing, held, dumps, backups, operator, faults>>

(* A variant of CommitAccept that inserts the job without its item. *)
CommitAcceptBare(i) ==
  LET j == accepting[i] IN
  /\ j # NoJob
  /\ accepting' = [accepting EXCEPT ![i] = NoJob]
  /\ tables' = [tables EXCEPT !.jobState[j] = "accepted", !.outbox[j] = "unpublished", !.born[j] = history]
  /\ UNCHANGED <<jobSeq, queue, publishing, held, dumps, backups, operator, faults>>

(* Job and outbox row become visible together, unless the identity is one  *)
(* the primary key already holds.                                          *)
CommitAccept(i) ==
  LET j == accepting[i] IN
  /\ j # NoJob
  /\ accepting' = [accepting EXCEPT ![i] = NoJob]
  /\ IF tables.jobState[j] = "none"
     THEN tables' = [tables EXCEPT !.jobState[j] = "accepted", !.jobItem[j] = i,
                                   !.outbox[j] = "unpublished", !.born[j] = history]
     ELSE UNCHANGED tables
  /\ UNCHANGED <<jobSeq, queue, publishing, held, dumps, backups, operator, faults>>

Unpublished == {j \in Jobs : tables.outbox[j] = "unpublished"}

(* Variants of Publish: one does not wait for the confirmation, one looks  *)
(* only at rows inserted since the database was set up.                    *)
PublishUnconfirmed ==
  /\ ~stopped
  /\ publishing = NoJob
  /\ \E j \in Unpublished :
       /\ \A k \in Unpublished : j <= k
       /\ \/ queue' = queue (+) One([job |-> j, item |-> tables.jobItem[j], born |-> tables.born[j]])
          \/ UNCHANGED queue
       /\ publishing' = j
  /\ UNCHANGED <<tables, jobSeq, accepting, held, dumps, backups, operator, faults>>

PublishRecent ==
  /\ ~stopped
  /\ publishing = NoJob
  /\ \E j \in Unpublished :
       /\ tables.born[j] = history
       /\ queue' = queue (+) One([job |-> j, item |-> tables.jobItem[j], born |-> tables.born[j]])
       /\ publishing' = j
  /\ UNCHANGED <<tables, jobSeq, accepting, held, dumps, backups, operator, faults>>

(* The lowest unpublished row is claimed, its message sent and confirmed.  *)
Publish ==
  /\ ~stopped
  /\ publishing = NoJob
  /\ \E j \in Unpublished :
       /\ \A k \in Unpublished : j <= k
       /\ queue' = queue (+) One([job |-> j, item |-> tables.jobItem[j], born |-> tables.born[j]])
       /\ publishing' = j
  /\ UNCHANGED <<tables, jobSeq, accepting, held, dumps, backups, operator, faults>>

MarkOutboxPublished ==
  /\ publishing # NoJob
  /\ tables' = [tables EXCEPT !.outbox[publishing] = "published"]
  /\ publishing' = NoJob
  /\ UNCHANGED <<jobSeq, accepting, queue, held, dumps, backups, operator, faults>>

-------------------------------------------------------------------------------
(* The workers *)

(* The row a message is about has the message's job and item. *)
Names(m, j) == j = m.job /\ tables.jobState[j] # "none" /\ tables.jobItem[j] = m.item

(* The transaction finds the job accepted, its item pending, no result yet. *)
Completable(j) ==
  /\ tables.jobState[j] = "accepted"
  /\ tables.status[tables.jobItem[j]] = "pending"
  /\ tables.result[tables.jobItem[j]] = NoJob

(* A variant of Completing: the item's active job whatever its identity. *)
CompletingItem(m) == {j \in Jobs : tables.jobItem[j] = m.item /\ Completable(j)}

Completing(m) == {j \in Jobs : Names(m, j) /\ Completable(j)}

CompleteProcessingJob(j) ==
  tables' = [tables EXCEPT !.jobState[j] = "succeeded",
                           !.status[tables.jobItem[j]] = "done",
                           !.result[tables.jobItem[j]] = j]

(* Without a job to complete the message is settled for good all the same: *)
(* acknowledged when the job is terminal, rejected when there is no such   *)
(* job, when it is another item's and when the item is not pending.        *)
HandleMessage(w) ==
  /\ ~stopped
  /\ held[w] = NoMessage
  /\ \E m \in BagToSet(queue) :
       /\ queue' = queue (-) One(m)
       /\ held' = [held EXCEPT ![w] = m]
       /\ IF Completing(m) = {}
          THEN UNCHANGED tables
          ELSE \E j \in Completing(m) : CompleteProcessingJob(j)
  /\ UNCHANGED <<jobSeq, accepting, publishing, dumps, backups, operator, faults>>

SettleDelivery(w) ==
  /\ held[w] # NoMessage
  /\ held' = [held EXCEPT ![w] = NoMessage]
  /\ UNCHANGED <<tables, jobSeq, accepting, queue, publishing, dumps, backups, operator, faults>>

(* Crash, lost connection or failed database call: the delivery returns to *)
(* the queue, whether a completion was committed or not.                   *)
SessionEnds(w) ==
  /\ held[w] # NoMessage
  /\ held' = [held EXCEPT ![w] = NoMessage]
  /\ queue' = queue (+) One(held[w])
  /\ Fault
  /\ UNCHANGED <<tables, jobSeq, accepting, publishing, dumps, backups, operator>>

-------------------------------------------------------------------------------
(* postgres-backup-local create *)

(* "-e" on the path and pg_dump's one snapshot of all tables, long before  *)
(* the file is there.  The operator moves on to a new path when the        *)
(* earlier ones are taken.                                                 *)
BeginBackup(c, p) ==
  /\ dumps[c].path = NoPath
  /\ ~backups[p].present
  /\ \A q \in 1..(p - 1) : backups[q].present
  /\ dumps' = [dumps EXCEPT ![c] = [path |-> p, tables |-> tables]]
  /\ UNCHANGED <<system, backups, operator, faults>>

(* A variant of FinishBackup whose dump reads item rows again at the end. *)
FinishTornBackup(c) ==
  /\ dumps[c].path # NoPath
  /\ backups' = [backups EXCEPT ![dumps[c].path] =
                   [tables |-> [dumps[c].tables EXCEPT !.status = tables.status],
                    jobSeq |-> jobSeq, present |-> TRUE]]
  /\ dumps' = [dumps EXCEPT ![c] = NoDump]
  /\ UNCHANGED <<system, operator, faults>>

(* pg_dump saves the sequence, which no snapshot covers, as it is by then. *)
(* mv replaces whatever has appeared at the path since the check.          *)
FinishBackup(c) ==
  /\ dumps[c].path # NoPath
  /\ backups' = [backups EXCEPT ![dumps[c].path] =
                   [tables |-> dumps[c].tables, jobSeq |-> jobSeq, present |-> TRUE]]
  /\ dumps' = [dumps EXCEPT ![c] = NoDump]
  /\ UNCHANGED <<system, operator, faults>>

(* pg_dump fails or the command is killed; what it leaves is a temporary   *)
(* file that no path names.                                                *)
CreateFails(c) ==
  /\ dumps[c].path # NoPath
  /\ dumps' = [dumps EXCEPT ![c] = NoDump]
  /\ UNCHANGED <<system, backups, operator, faults>>

-------------------------------------------------------------------------------
(* The operator, following the recovery runbook *)

(* API and workers are stopped; volume and database are gone, and with     *)
(* them a pg_dump that was running; an empty migrated target is there.     *)
ProvisionTarget ==
  /\ history < MaxRestores
  /\ \A c \in Creators : dumps[c].path = NoPath
  /\ history' = history + 1
  /\ stopped' = TRUE
  /\ accepting' = [i \in Items |-> NoJob]
  /\ publishing' = NoJob
  /\ held' = [w \in Workers |-> NoMessage]
  /\ queue' = queue (+) InHand
  /\ tables' = EmptyTables
  /\ jobSeq' = 0
  /\ reported' = {}
  /\ UNCHANGED <<dumps, backups, faults>>

Latest(p) == backups[p].present /\ \A q \in Paths : backups[q].present => q <= p

TargetIsEmpty == \A i \in Items : tables.status[i] = "absent"

(* Validation lets only complete archives through; pg_restore loads tables *)
(* and sequence in one transaction.  The operator then records which jobs  *)
(* are accepted and published.                                             *)
RestoreBackup(p) ==
  /\ stopped
  /\ TargetIsEmpty
  /\ Latest(p)
  /\ tables' = backups[p].tables
  /\ jobSeq' = backups[p].jobSeq
  /\ reported' = {j \in Jobs : /\ backups[p].tables.jobState[j] = "accepted"
                              /\ backups[p].tables.outbox[j] = "published"}
  /\ UNCHANGED <<accepting, queue, publishing, held, dumps, backups, stopped, history, faults>>

Resume ==
  /\ stopped
  /\ stopped' = FALSE
  /\ UNCHANGED <<system, dumps, backups, history, reported, faults>>

-------------------------------------------------------------------------------
WorkerStep(w) == HandleMessage(w) \/ SettleDelivery(w)
PublisherStep == Publish \/ MarkOutboxPublished

Next ==
  \/ PublisherStep
  \/ CrashAPI
  \/ \E i \in Items : CreateWorkItem(i) \/ BeginAccept(i) \/ CommitAccept(i)
  \/ \E w \in Workers : WorkerStep(w) \/ SessionEnds(w)
  \/ \E c \in Creators : FinishBackup(c) \/ CreateFails(c)
  \/ \E c \in Creators, p \in Paths : BeginBackup(c, p)
  \/ ProvisionTarget \/ Resume
  \/ \E p \in Paths : RestoreBackup(p)

Spec == Init /\ [][Next]_vars

(* Running processes go on and are started again; messages are delivered.  *)
(* The operator ends a stop.  Requests, backups and losses are owed by     *)
(* nobody.                                                                 *)
Fairness ==
  /\ WF_vars(PublisherStep)
  /\ \A w \in Workers : WF_vars(WorkerStep(w))
  /\ WF_vars(Resume)

FairSpec == Spec /\ Fairness

-------------------------------------------------------------------------------
(* Properties *)

Success(t) ==
  /\ \A i \in Items : (t.status[i] = "done") <=> (t.result[i] # NoJob)
  /\ \A i \in Items : t.result[i] # NoJob =>
       t.jobState[t.result[i]] = "succeeded" /\ t.jobItem[t.result[i]] = i
  /\ \A j \in Jobs : t.jobState[j] = "succeeded" => t.result[t.jobItem[j]] = j

SequenceCovers(t, seq) == \A j \in Jobs : t.jobState[j] # "none" => j <= seq

(* Whatever completes, is accepted or is backed up at the same time: what  *)
(* create leaves at a path satisfies the success invariant, and so does    *)
(* the database before and after restores with old messages around; and    *)
(* the sequence never hands out the identity of a row again.               *)
RecoveryPointsAreConsistent ==
  /\ Success(tables) /\ SequenceCovers(tables, jobSeq)
  /\ \A p \in Paths : Success(backups[p].tables) /\ SequenceCovers(backups[p].tables, backups[p].jobSeq)

Stranded(j) ==
  /\ tables.jobState[j] = "accepted"
  /\ tables.outbox[j] = "published"
  /\ \A m \in InBroker : ~Names(m, j)

(* The runbook's "published accepted jobs depend on a message that may no  *)
(* longer exist": its query finds every job a restore strands, and nothing *)
(* that happens after the restore strands another one.                     *)
StrandedJobsAreReported == \A j \in Jobs : Stranded(j) => j \in reported

(* Issue #131's aliasing needs what the runbook's guidance forbids: after a *)
(* loss a job is completed from the message of another acceptance only if  *)
(* its identity was handed out while the broker had a message with an      *)
(* identity beyond the sequence.  (Not so after a second loss: a backup of *)
(* the first history may be restored over messages of the second.)         *)
ServesOwnJob ==
  [][\A j \in Jobs :
       /\ history <= 1
       /\ tables.jobState[j] = "accepted"
       /\ tables'.jobState[j] = "succeeded"
       => \/ j \in tables.reused
          \/ \E w \in Workers : /\ held[w] = NoMessage
                                /\ held'[w].job = j /\ held'[w].born = tables.born[j]]_vars

(* When losses, faults and requests are over, every accepted job the query *)
(* does not report has ended: restored unpublished rows are published and  *)
(* their messages handled, past whatever else is in the queue.             *)
UnreportedJobsEnd ==
  <>[](\A j \in Jobs : tables.jobState[j] = "accepted" => j \in reported)

(* "refuses to overwrite": a backup that is there stays as it is. *)
BackupsStay == [][\A p \in Paths : backups[p].present => backups'[p] = backups[p]]_vars

(* A restore begins another history, but each history keeps to the         *)
(* contract of processing: whatever messages of lost histories arrive in   *)
(* it, one job of an item at a time, and none after a successful one.      *)
Contract == INSTANCE ProcessingContract
  WITH created <- {i \in Items : tables.status[i] # "absent"},
       jobItem <- tables.jobItem,
       jobState <- tables.jobState,
       attempts <- [j \in Jobs |-> IF tables.jobState[j] = "succeeded" THEN 1 ELSE 0],
       MaxAttempts <- 1

HistoriesKeepContract ==
  [][Contract!Next \/ ProvisionTarget \/ \E p \in Paths : RestoreBackup(p)]_(Contract!contractVars)
===============================================================================
