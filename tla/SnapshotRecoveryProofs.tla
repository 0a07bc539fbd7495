------------------------- MODULE SnapshotRecoveryProofs -------------------------
(***************************************************************************)
(* Backups and restores for any number of items, jobs, workers, concurrent *)
(* create commands, losses and faults: the database stays consistent       *)
(* whatever messages RabbitMQ still has, the jobs a restore strands are    *)
(* known, and old messages complete no job of another acceptance unseen.   *)
(***************************************************************************)
EXTENDS SnapshotRecovery, FiniteSetTheorems, TLAPS

JobsExist(t) ==
  \A j \in Jobs : t.jobState[j] # "none" =>
    t.jobItem[j] \in Items /\ t.status[t.jobItem[j]] # "absent"

(* What makes tables and a sequence fit together. *)
Well(t, seq) == Success(t) /\ SequenceCovers(t, seq) /\ JobsExist(t)

(* The types of what a backup or a restore can reach. *)
Types ==
  /\ tables \in TableStates
  /\ jobSeq \in 0..MaxJobs
  /\ history \in Histories
  /\ accepting \in [Items -> Jobs \cup {NoJob}]
  /\ publishing \in Jobs \cup {NoJob}
  /\ dumps \in [Creators -> [path : Paths \cup {NoPath}, tables : TableStates]]
  /\ backups \in [Paths -> [tables : TableStates, jobSeq : 0..MaxJobs, present : BOOLEAN]]

(* An open acceptance has an identity the sequence is past.                *)
AcceptancesFit ==
  \A i \in Items : accepting[i] # NoJob => accepting[i] <= jobSeq /\ tables.status[i] # "absent"

(* A running dump fits the sequence, which it saves last: the sequence     *)
(* only goes back together with the tables, and then the dump has no rows. *)
DumpsFit ==
  \A c \in Creators : dumps[c].path # NoPath =>
    /\ Well(dumps[c].tables, jobSeq)
    /\ \A i \in Items : dumps[c].tables.status[i] # "absent" => tables.status[i] # "absent"

BackupsFit == \A p \in Paths : Well(backups[p].tables, backups[p].jobSeq)

RecoveryInv == Types /\ Well(tables, jobSeq) /\ AcceptancesFit /\ DumpsFit /\ BackupsFit

-------------------------------------------------------------------------------
LEMMA EmptyTablesAreWell ==
  /\ EmptyTables \in TableStates
  /\ \A seq \in Nat : Well(EmptyTables, seq)
BY BoundAssumption DEF EmptyTables, TableStates, Well, Success, SequenceCovers, JobsExist, Histories

LEMMA LaterSequence ==
  ASSUME NEW t \in TableStates, NEW s \in Nat, NEW u \in Nat, s <= u, Well(t, s)
  PROVE  Well(t, u)
BY BoundAssumption DEF Well, SequenceCovers, Jobs

(* Tables without items have no jobs, so they fit any sequence. *)
LEMMA NoItemsFit ==
  ASSUME NEW t \in TableStates, NEW s, NEW u, Well(t, s), \A i \in Items : t.status[i] = "absent"
  PROVE  Well(t, u)
BY DEF Well, SequenceCovers, JobsExist

(* What a step of API or workers has to show, the files left alone. *)
LEMMA FilesStayFit ==
  ASSUME RecoveryInv, Types', Well(tables, jobSeq)', AcceptancesFit',
         UNCHANGED <<dumps, backups>>, jobSeq <= jobSeq',
         \A i \in Items : tables.status[i] # "absent" => tables'.status[i] # "absent"
  PROVE  RecoveryInv'
<1>1. jobSeq \in Nat /\ jobSeq' \in Nat
  BY BoundAssumption DEF RecoveryInv, Types
<1>2. ASSUME NEW c \in Creators, dumps[c].path # NoPath
      PROVE  /\ Well(dumps[c].tables, jobSeq')
             /\ \A i \in Items : dumps[c].tables.status[i] # "absent" => tables'.status[i] # "absent"
  <2>1. dumps[c].tables \in TableStates
    BY DEF RecoveryInv, Types
  <2> QED
    BY <1>1, <1>2, <2>1, LaterSequence DEF RecoveryInv, DumpsFit
<1>3. DumpsFit'
  BY <1>2 DEF DumpsFit
<1>4. BackupsFit'
  BY DEF RecoveryInv, BackupsFit
<1> QED
  BY <1>3, <1>4 DEF RecoveryInv

-------------------------------------------------------------------------------
(* Requests *)

LEMMA CreateStep ==
  ASSUME RecoveryInv, NEW i \in Items, CreateWorkItem(i)
  PROVE  RecoveryInv'
<1>1. /\ tables' = [tables EXCEPT !.status = [tables.status EXCEPT ![i] = "pending"]]
      /\ tables \in TableStates /\ tables.status[i] = "absent"
      /\ UNCHANGED <<jobSeq, history, accepting, publishing, dumps, backups>>
  BY DEF CreateWorkItem, RecoveryInv, Types, operator
<1>2. Types'
  <2>1. [tables.status EXCEPT ![i] = "pending"] \in [Items -> {"absent", "pending", "done"}]
    BY <1>1 DEF TableStates
  <2>2. tables' \in TableStates
    BY <1>1, <2>1 DEF TableStates
  <2> QED
    BY <1>1, <2>2 DEF RecoveryInv, Types
<1>3. Well(tables, jobSeq)'
  BY <1>1 DEF RecoveryInv, Well, Success, SequenceCovers, JobsExist, TableStates
<1>4. AcceptancesFit'
  BY <1>1 DEF RecoveryInv, AcceptancesFit, TableStates
<1>5. /\ jobSeq <= jobSeq'
      /\ \A k \in Items : tables.status[k] # "absent" => tables'.status[k] # "absent"
  BY <1>1, BoundAssumption DEF RecoveryInv, Types, TableStates
<1> QED
  BY <1>1, <1>2, <1>3, <1>4, <1>5, FilesStayFit

LEMMA BeginAcceptStep ==
  ASSUME RecoveryInv, NEW i \in Items, BeginAccept(i)
  PROVE  RecoveryInv'
<1>1. PICK r \in SUBSET Jobs : tables' = [tables EXCEPT !.reused = r]
  <2>1. tables.reused \subseteq Jobs /\ jobSeq + 1 \in Jobs
    BY BoundAssumption DEF BeginAccept, RecoveryInv, Types, TableStates, Jobs
  <2>2. CASE \E m \in InBroker : m.job > jobSeq
    <3>1. tables' = [tables EXCEPT !.reused = @ \cup {jobSeq + 1}]
      BY <2>2 DEF BeginAccept
    <3> QED
      BY <2>1, <3>1 DEF RecoveryInv, Types, TableStates
  <2>3. CASE ~ \E m \in InBroker : m.job > jobSeq
    <3>1. tables' = [tables EXCEPT !.reused = @]
      BY <2>3 DEF BeginAccept
    <3> QED
      BY <2>1, <3>1 DEF RecoveryInv, Types, TableStates
  <2> QED
    BY <2>2, <2>3
<1>2. /\ jobSeq' = jobSeq + 1 /\ jobSeq < MaxJobs /\ tables.status[i] = "pending"
      /\ accepting' = [accepting EXCEPT ![i] = jobSeq + 1]
      /\ UNCHANGED <<history, publishing, dumps, backups>>
  BY DEF BeginAccept, operator
<1>3. Types'
  <2>1. tables' \in TableStates
    BY <1>1 DEF RecoveryInv, Types, TableStates
  <2>2. jobSeq + 1 \in 0..MaxJobs /\ jobSeq + 1 \in Jobs
    BY <1>2, BoundAssumption DEF RecoveryInv, Types, Jobs
  <2>3. accepting' \in [Items -> Jobs \cup {NoJob}]
    BY <1>2, <2>2 DEF RecoveryInv, Types
  <2> QED
    BY <1>2, <2>1, <2>2, <2>3 DEF RecoveryInv, Types
<1>4. /\ tables'.status = tables.status /\ tables'.result = tables.result
      /\ tables'.jobState = tables.jobState /\ tables'.jobItem = tables.jobItem
  BY <1>1 DEF RecoveryInv, Types, TableStates
<1>5. Well(tables, jobSeq)'
  BY <1>2, <1>4, BoundAssumption DEF RecoveryInv, Types, Well, Success, SequenceCovers, JobsExist, Jobs
<1>6. AcceptancesFit'
  BY <1>2, <1>4, BoundAssumption DEF RecoveryInv, Types, AcceptancesFit, Jobs, NoJob
<1>7. jobSeq <= jobSeq'
  BY <1>2, BoundAssumption DEF RecoveryInv, Types
<1> QED
  BY <1>2, <1>3, <1>4, <1>5, <1>6, <1>7, FilesStayFit

LEMMA CommitAcceptStep ==
  ASSUME RecoveryInv, NEW i \in Items, CommitAccept(i)
  PROVE  RecoveryInv'
<1> DEFINE j == accepting[i]
<1>1. /\ j \in Jobs /\ j <= jobSeq /\ tables.status[i] # "absent"
      /\ accepting' = [accepting EXCEPT ![i] = NoJob]
      /\ UNCHANGED <<jobSeq, history, publishing, dumps, backups>>
  BY DEF CommitAccept, RecoveryInv, Types, AcceptancesFit, operator
<1>2. CASE tables.jobState[j] = "none"
  <2>1. tables' = [tables EXCEPT !.jobState = [tables.jobState EXCEPT ![j] = "accepted"],
                                 !.jobItem = [tables.jobItem EXCEPT ![j] = i],
                                 !.outbox = [tables.outbox EXCEPT ![j] = "unpublished"],
                                 !.born = [tables.born EXCEPT ![j] = history]]
    BY <1>2 DEF CommitAccept, RecoveryInv, Types, TableStates
  <2>2. Types'
    BY <1>1, <2>1 DEF RecoveryInv, Types, TableStates
  <2>3. /\ tables'.status = tables.status /\ tables'.result = tables.result
        /\ tables'.jobState = [tables.jobState EXCEPT ![j] = "accepted"]
        /\ tables'.jobItem = [tables.jobItem EXCEPT ![j] = i]
    BY <2>1 DEF RecoveryInv, Types, TableStates
  <2>4. Success(tables)'
    BY <1>2, <2>3 DEF RecoveryInv, Types, TableStates, Well, Success
  <2>5. SequenceCovers(tables, jobSeq)' /\ JobsExist(tables)'
    BY <1>1, <2>3 DEF RecoveryInv, Types, TableStates, Well, SequenceCovers, JobsExist
  <2>6. AcceptancesFit'
    BY <1>1, <2>3 DEF RecoveryInv, Types, AcceptancesFit
  <2>7. jobSeq <= jobSeq'
    BY <1>1, BoundAssumption DEF RecoveryInv, Types
  <2> QED
    BY <1>1, <2>2, <2>3, <2>4, <2>5, <2>6, <2>7, FilesStayFit DEF Well
<1>3. CASE tables.jobState[j] # "none"
  <2>1. UNCHANGED tables
    BY <1>3 DEF CommitAccept
  <2>2. Types' /\ Well(tables, jobSeq)' /\ AcceptancesFit'
    BY <1>1, <2>1 DEF RecoveryInv, Types, Well, SequenceCovers, AcceptancesFit
  <2>3. jobSeq <= jobSeq'
    BY <1>1, BoundAssumption DEF RecoveryInv, Types
  <2> QED
    BY <1>1, <2>1, <2>2, <2>3, FilesStayFit
<1> QED
  BY <1>2, <1>3

(* What a step has to show that leaves tables, sequence and files alone. *)
LEMMA TablesStay ==
  ASSUME RecoveryInv, UNCHANGED <<tables, jobSeq, history, dumps, backups>>,
         accepting' = accepting \/ accepting' = [i \in Items |-> NoJob],
         publishing' \in Jobs \cup {NoJob}
  PROVE  RecoveryInv'
<1>1. Types'
  BY DEF RecoveryInv, Types
<1>2. AcceptancesFit'
  BY DEF RecoveryInv, AcceptancesFit
<1>3. Well(tables, jobSeq)' /\ DumpsFit' /\ BackupsFit'
  BY DEF RecoveryInv, DumpsFit, BackupsFit, Well, SequenceCovers
<1> QED
  BY <1>1, <1>2, <1>3 DEF RecoveryInv

-------------------------------------------------------------------------------
(* Publication and processing *)

LEMMA MarkStep ==
  ASSUME RecoveryInv, MarkOutboxPublished
  PROVE  RecoveryInv'
<1>1. /\ publishing \in Jobs /\ tables \in TableStates /\ publishing' = NoJob
      /\ tables' = [tables EXCEPT !.outbox = [tables.outbox EXCEPT ![publishing] = "published"]]
      /\ UNCHANGED <<jobSeq, history, accepting, dumps, backups>>
  BY DEF MarkOutboxPublished, RecoveryInv, Types, operator
<1>2. Types'
  <2>1. [tables.outbox EXCEPT ![publishing] = "published"] \in
          [Jobs -> {"none", "unpublished", "published"}]
    BY <1>1 DEF TableStates
  <2>2. tables' \in TableStates
    BY <1>1, <2>1 DEF TableStates
  <2> QED
    BY <1>1, <2>2 DEF RecoveryInv, Types
<1>3. /\ tables'.status = tables.status /\ tables'.result = tables.result
      /\ tables'.jobState = tables.jobState /\ tables'.jobItem = tables.jobItem
  BY <1>1 DEF TableStates
<1>4. Well(tables, jobSeq)' /\ AcceptancesFit' /\ jobSeq <= jobSeq'
  BY <1>1, <1>3, BoundAssumption
     DEF RecoveryInv, Types, Well, Success, SequenceCovers, JobsExist, AcceptancesFit
<1> QED
  BY <1>1, <1>2, <1>3, <1>4, FilesStayFit

LEMMA CompleteStep ==
  ASSUME RecoveryInv, NEW j \in Jobs, Completable(j), CompleteProcessingJob(j),
         UNCHANGED <<jobSeq, history, accepting, publishing, dumps, backups>>
  PROVE  RecoveryInv'
<1> DEFINE i == tables.jobItem[j]
<1>1. /\ tables \in TableStates /\ i \in Items
      /\ tables.jobState[j] = "accepted" /\ tables.status[i] = "pending" /\ tables.result[i] = NoJob
  BY DEF RecoveryInv, Types, Well, JobsExist, Completable
<1>2. tables' = [tables EXCEPT !.jobState = [tables.jobState EXCEPT ![j] = "succeeded"],
                               !.status = [tables.status EXCEPT ![i] = "done"],
                               !.result = [tables.result EXCEPT ![i] = j]]
  BY <1>1 DEF CompleteProcessingJob, TableStates
<1>3. /\ tables'.status = [tables.status EXCEPT ![i] = "done"]
      /\ tables'.result = [tables.result EXCEPT ![i] = j]
      /\ tables'.jobState = [tables.jobState EXCEPT ![j] = "succeeded"]
      /\ tables'.jobItem = tables.jobItem
  BY <1>1, <1>2 DEF TableStates
<1>4. Types'
  <2>1. /\ [tables.jobState EXCEPT ![j] = "succeeded"] \in [Jobs -> {"none", "accepted", "succeeded"}]
        /\ [tables.status EXCEPT ![i] = "done"] \in [Items -> {"absent", "pending", "done"}]
        /\ [tables.result EXCEPT ![i] = j] \in [Items -> Jobs \cup {NoJob}]
    BY <1>1 DEF TableStates
  <2>2. tables' \in TableStates
    BY <1>1, <1>2, <2>1 DEF TableStates
  <2> QED
    BY <2>2 DEF RecoveryInv, Types
<1>5. Success(tables)'
  <2>1. j # NoJob
    BY BoundAssumption DEF Jobs, NoJob
  <2>2. /\ tables.status \in [Items -> {"absent", "pending", "done"}]
        /\ tables.result \in [Items -> Jobs \cup {NoJob}]
        /\ tables.jobState \in [Jobs -> {"none", "accepted", "succeeded"}]
    BY <1>1 DEF TableStates
  <2>3. Success(tables)
    BY DEF RecoveryInv, Well
  <2> HIDE DEF i
  <2>4. \A k \in Items : (tables'.status[k] = "done") <=> (tables'.result[k] # NoJob)
    BY <1>1, <1>3, <2>1, <2>2, <2>3 DEF Success
  <2>5. ASSUME NEW k \in Items, tables'.result[k] # NoJob
        PROVE  tables'.jobState[tables'.result[k]] = "succeeded" /\ tables'.jobItem[tables'.result[k]] = k
    <3>1. CASE k = i
      BY <1>1, <1>3, <2>2, <3>1 DEF i
    <3>2. CASE k # i
      BY <1>1, <1>3, <2>2, <2>3, <2>5, <3>2 DEF Success
    <3> QED
      BY <3>1, <3>2
  <2>6. ASSUME NEW k \in Jobs, tables'.jobState[k] = "succeeded"
        PROVE  tables'.result[tables'.jobItem[k]] = k
    <3>1. CASE k = j
      BY <1>1, <1>3, <2>2, <3>1 DEF i
    <3>2. CASE k # j
      <4>1. tables.jobState[k] = "succeeded" /\ tables.jobItem[k] \in Items
        BY <1>3, <2>2, <2>6, <3>2 DEF RecoveryInv, Well, JobsExist
      <4>2. tables.result[tables.jobItem[k]] = k /\ k # NoJob
        BY <2>3, <4>1, BoundAssumption DEF Success, Jobs, NoJob
      <4> QED
        BY <1>1, <1>3, <2>2, <4>1, <4>2
    <3> QED
      BY <3>1, <3>2
  <2> QED
    BY <2>4, <2>5, <2>6 DEF Success
<1>6. SequenceCovers(tables, jobSeq)' /\ JobsExist(tables)'
  BY <1>1, <1>3 DEF RecoveryInv, Well, SequenceCovers, JobsExist, TableStates
<1>7. AcceptancesFit'
  BY <1>1, <1>3 DEF RecoveryInv, AcceptancesFit, TableStates
<1>8. /\ jobSeq <= jobSeq'
      /\ \A k \in Items : tables.status[k] # "absent" => tables'.status[k] # "absent"
  BY <1>1, <1>3, BoundAssumption DEF RecoveryInv, Types, TableStates
<1> QED
  BY <1>4, <1>5, <1>6, <1>7, <1>8, FilesStayFit DEF Well

LEMMA HandleStep ==
  ASSUME RecoveryInv, NEW w \in Workers, HandleMessage(w)
  PROVE  RecoveryInv'
<1>1. /\ UNCHANGED <<jobSeq, history, accepting, publishing, dumps, backups>>
      /\ \/ UNCHANGED tables
         \/ \E m \in BagToSet(queue) : \E j \in Completing(m) : CompleteProcessingJob(j)
  BY DEF HandleMessage, operator
<1>2. CASE UNCHANGED tables
  BY <1>1, <1>2, TablesStay DEF RecoveryInv, Types
<1>3. CASE \E m \in BagToSet(queue) : \E j \in Completing(m) : CompleteProcessingJob(j)
  <2>1. PICK j \in Jobs : Completable(j) /\ CompleteProcessingJob(j)
    BY <1>3 DEF Completing
  <2> QED
    BY <1>1, <2>1, CompleteStep
<1> QED
  BY <1>1, <1>2, <1>3

-------------------------------------------------------------------------------
(* Backups and restores *)

(* The dumps that go on are the ones of before. *)
LEMMA BackupStep ==
  ASSUME RecoveryInv, NEW c \in Creators,
         FinishBackup(c) \/ CreateFails(c) \/ \E p \in Paths : BeginBackup(c, p)
  PROVE  RecoveryInv'
<1> USE DEF RecoveryInv
<1>1. /\ UNCHANGED <<tables, jobSeq, history, accepting, publishing>>
      /\ tables \in TableStates /\ jobSeq \in 0..MaxJobs /\ Well(tables, jobSeq)
  BY DEF FinishBackup, CreateFails, BeginBackup, system, operator, Types
<1>2. Well(tables, jobSeq)' /\ AcceptancesFit'
  BY <1>1 DEF Well, SequenceCovers, AcceptancesFit
<1>3. CASE \E p \in Paths : BeginBackup(c, p)
  <2>1. PICK p \in Paths : /\ dumps' = [dumps EXCEPT ![c] = [path |-> p, tables |-> tables]]
                           /\ UNCHANGED backups
    BY <1>3 DEF BeginBackup
  <2>2. Types'
    BY <1>1, <2>1 DEF Types
  <2>3. DumpsFit' /\ BackupsFit'
    BY <1>1, <2>1 DEF DumpsFit, BackupsFit, Types
  <2> QED
    BY <1>2, <2>2, <2>3
<1>4. CASE CreateFails(c) \/ FinishBackup(c)
  <2>1. dumps' = [dumps EXCEPT ![c] = NoDump]
    BY <1>4 DEF CreateFails, FinishBackup
  <2>2. DumpsFit'
    BY <1>1, <2>1 DEF DumpsFit, NoDump, Types
  <2>3. dumps' \in [Creators -> [path : Paths \cup {NoPath}, tables : TableStates]]
    BY <2>1, EmptyTablesAreWell DEF NoDump, Types
  <2>4. CASE CreateFails(c)
    BY <1>1, <1>2, <2>2, <2>3, <2>4 DEF CreateFails, Types, BackupsFit
  <2>5. CASE FinishBackup(c)
    <3> DEFINE p == dumps[c].path
               b == [tables |-> dumps[c].tables, jobSeq |-> jobSeq, present |-> TRUE]
    <3>1. /\ p \in Paths /\ Well(b.tables, b.jobSeq)
          /\ b \in [tables : TableStates, jobSeq : 0..MaxJobs, present : BOOLEAN]
          /\ backups' = [backups EXCEPT ![p] = b]
      BY <1>1, <2>5 DEF FinishBackup, Types, DumpsFit
    <3> HIDE DEF p, b
    <3>2. BackupsFit'
      BY <3>1 DEF BackupsFit, Types
    <3>3. Types'
      BY <1>1, <2>3, <3>1 DEF Types
    <3> QED
      BY <1>2, <2>2, <3>2, <3>3
  <2> QED
    BY <1>4, <2>4, <2>5
<1> QED
  BY <1>3, <1>4

LEMMA ProvisionStep ==
  ASSUME RecoveryInv, ProvisionTarget
  PROVE  RecoveryInv'
<1>1. /\ tables' = EmptyTables /\ jobSeq' = 0 /\ history < MaxRestores /\ history' = history + 1
      /\ accepting' = [i \in Items |-> NoJob] /\ publishing' = NoJob
      /\ \A c \in Creators : dumps[c].path = NoPath
      /\ UNCHANGED <<dumps, backups>>
  BY DEF ProvisionTarget
<1>2. Types'
  BY <1>1, EmptyTablesAreWell, BoundAssumption DEF RecoveryInv, Types, Histories
<1>3. Well(tables, jobSeq)'
  BY <1>1, EmptyTablesAreWell
<1>4. AcceptancesFit' /\ DumpsFit' /\ BackupsFit'
  BY <1>1 DEF RecoveryInv, AcceptancesFit, DumpsFit, BackupsFit
<1> QED
  BY <1>2, <1>3, <1>4 DEF RecoveryInv

(* A dump that runs during a restore is one of the empty target, where no  *)
(* acceptance is open either.                                              *)
LEMMA RestoreStep ==
  ASSUME RecoveryInv, NEW p \in Paths, RestoreBackup(p)
  PROVE  RecoveryInv'
<1>1. /\ TargetIsEmpty
      /\ tables' = backups[p].tables /\ jobSeq' = backups[p].jobSeq
      /\ UNCHANGED <<history, accepting, publishing, dumps, backups>>
  BY DEF RestoreBackup
<1>2. /\ backups[p].tables \in TableStates /\ backups[p].jobSeq \in 0..MaxJobs
      /\ Well(backups[p].tables, backups[p].jobSeq)
  BY DEF RecoveryInv, Types, BackupsFit
<1>3. Types' /\ Well(tables, jobSeq)' /\ BackupsFit'
  BY <1>1, <1>2 DEF RecoveryInv, Types, BackupsFit
<1>4. AcceptancesFit'
  BY <1>1 DEF RecoveryInv, AcceptancesFit, TargetIsEmpty
<1>5. ASSUME NEW c \in Creators, dumps[c].path # NoPath
      PROVE  /\ Well(dumps[c].tables, jobSeq')
             /\ \A i \in Items : dumps[c].tables.status[i] = "absent"
  <2>1. /\ dumps[c].tables \in TableStates /\ Well(dumps[c].tables, jobSeq)
        /\ \A i \in Items : dumps[c].tables.status[i] = "absent"
    BY <1>1, <1>5 DEF RecoveryInv, Types, DumpsFit, TargetIsEmpty
  <2> QED
    BY <2>1, NoItemsFit
<1>6. DumpsFit'
  BY <1>1, <1>5 DEF DumpsFit
<1> QED
  BY <1>3, <1>4, <1>6 DEF RecoveryInv

-------------------------------------------------------------------------------
LEMMA RecoveryInit == Init => RecoveryInv
<1> SUFFICES ASSUME Init
             PROVE  RecoveryInv
  OBVIOUS
<1>1. Types
  BY EmptyTablesAreWell, BoundAssumption DEF Init, Types, NoDump, NoBackup, Histories
<1>2. Well(tables, jobSeq) /\ AcceptancesFit /\ DumpsFit /\ BackupsFit
  BY EmptyTablesAreWell DEF Init, AcceptancesFit, DumpsFit, BackupsFit, NoDump, NoBackup
<1> QED
  BY <1>1, <1>2 DEF RecoveryInv

LEMMA RecoveryNext == RecoveryInv /\ [Next]_vars => RecoveryInv'
<1> SUFFICES ASSUME RecoveryInv, [Next]_vars
             PROVE  RecoveryInv'
  OBVIOUS
<1> USE TablesStay DEF operator
<1>1. CASE PublisherStep
  <2>1. CASE Publish
    BY <2>1 DEF Publish, Unpublished
  <2> QED
    BY <1>1, <2>1, MarkStep DEF PublisherStep
<1>2. CASE CrashAPI
  BY <1>2 DEF CrashAPI
<1>3. CASE \E i \in Items : CreateWorkItem(i) \/ BeginAccept(i) \/ CommitAccept(i)
  BY <1>3, CreateStep, BeginAcceptStep, CommitAcceptStep
<1>4. CASE \E w \in Workers : WorkerStep(w) \/ SessionEnds(w)
  <2>1. ASSUME NEW w \in Workers, SettleDelivery(w) \/ SessionEnds(w)
        PROVE  RecoveryInv'
    BY <2>1 DEF SettleDelivery, SessionEnds, RecoveryInv, Types
  <2> QED
    BY <1>4, <2>1, HandleStep DEF WorkerStep
<1>5. CASE \/ \E c \in Creators : FinishBackup(c) \/ CreateFails(c)
           \/ \E c \in Creators, p \in Paths : BeginBackup(c, p)
  BY <1>5, BackupStep
<1>6. CASE Resume
  BY <1>6 DEF Resume, system, RecoveryInv, Types
<1>7. CASE UNCHANGED vars
  BY <1>7 DEF vars, system, RecoveryInv, Types
<1> QED
  BY <1>1, <1>2, <1>3, <1>4, <1>5, <1>6, <1>7, ProvisionStep, RestoreStep DEF Next

(* Every file at a backup path satisfies the success invariant and records *)
(* a sequence that is past its jobs, however long pg_dump ran beside       *)
(* requests and workers; so does the database, whichever backup was        *)
(* restored and whatever messages of lost histories were delivered since.  *)
THEOREM RecoveryPointsHold == Spec => []RecoveryPointsAreConsistent
<1>1. RecoveryInv => RecoveryPointsAreConsistent
  BY DEF RecoveryInv, BackupsFit, Well, RecoveryPointsAreConsistent
<1> QED
  BY <1>1, RecoveryInit, RecoveryNext, PTL DEF Spec

-------------------------------------------------------------------------------
(* Messages of the jobs that wait for one *)

Accepted(t) == {j \in Jobs : t.jobState[j] = "accepted"}

(* An item has one active job at most, and is pending while it has one; a  *)
(* job and its outbox row are inserted together.                           *)
Orderly(t) ==
  /\ \A j \in Accepted(t), k \in Accepted(t) : t.jobItem[j] = t.jobItem[k] => j = k
  /\ \A j \in Accepted(t) : t.status[t.jobItem[j]] = "pending"
  /\ \A j \in Jobs : t.outbox[j] # "none" => t.jobState[j] # "none"

TablesOrderly ==
  /\ Orderly(tables)
  /\ \A c \in Creators : Orderly(dumps[c].tables)
  /\ \A p \in Paths : Orderly(backups[p].tables)

(* What an open acceptance has checked still holds. *)
AcceptancesHold ==
  \A i \in Items : accepting[i] # NoJob => tables.status[i] = "pending" /\ Active(i) = {}

(* A job that is accepted, and published or about to be marked so, has its *)
(* message in the queue: a worker that takes it completes the job at once. *)
MessagesWait ==
  /\ IsABag(queue)
  /\ publishing # NoJob => tables.jobState[publishing] # "none"
  /\ \A j \in Accepted(tables) :
       (tables.outbox[j] = "published" /\ j \notin reported) \/ publishing = j
         => \E m \in BagToSet(queue) : Names(m, j)

StrandingInv == RecoveryInv /\ TablesOrderly /\ AcceptancesHold /\ MessagesWait

(* What adding bags and taking one element does to the elements. *)
LEMMA BagSum ==
  ASSUME NEW b, NEW d, IsABag(b), IsABag(d)
  PROVE  IsABag(b (+) d) /\ BagToSet(b (+) d) = BagToSet(b) \cup BagToSet(d)
BY DEF IsABag, BagToSet, (+)

LEMMA BagOne ==
  ASSUME NEW m
  PROVE  IsABag(One(m)) /\ BagToSet(One(m)) = {m}
BY DEF IsABag, BagToSet, One, SetToBag

LEMMA BagTake ==
  ASSUME NEW b, NEW m, IsABag(b)
  PROVE  IsABag(b (-) One(m)) /\ BagToSet(b) \ {m} \subseteq BagToSet(b (-) One(m))
BY DEF IsABag, BagToSet, One, SetToBag, (-)

LEMMA InHandIsABag == IsABag(InHand)
<1>1. ASSUME NEW m \in {held[w] : w \in Workers} \ {NoMessage}
      PROVE  Cardinality({w \in Workers : held[w] = m}) \in {n \in Nat : n > 0}
  <2> DEFINE S == {w \in Workers : held[w] = m}
  <2>1. IsFiniteSet(S)
    BY WorkersAssumption, FS_Subset
  <2>2. S # {}
    OBVIOUS
  <2>3. Cardinality(S) \in Nat /\ Cardinality(S) # 0
    BY <2>1, <2>2, FS_CardinalityType, FS_EmptySet
  <2> QED
    BY <2>3
<1> QED
  BY <1>1 DEF InHand, IsABag

(* What a step has to show of its files when it leaves them alone. *)
LEMMA FilesStayOrderly ==
  ASSUME TablesOrderly, UNCHANGED <<dumps, backups>>, Orderly(tables)'
  PROVE  TablesOrderly'
BY DEF TablesOrderly

(* The tables of a step that changes what none of this looks at. *)
SameRows ==
  /\ tables'.status = tables.status
  /\ tables'.jobState = tables.jobState
  /\ tables'.jobItem = tables.jobItem
  /\ tables'.outbox = tables.outbox

LEMMA CreateWaits ==
  ASSUME StrandingInv, NEW i \in Items, CreateWorkItem(i)
  PROVE  (TablesOrderly /\ AcceptancesHold /\ MessagesWait)'
<1> USE DEF StrandingInv
<1>1. /\ tables \in TableStates /\ tables.status[i] = "absent"
      /\ tables' = [tables EXCEPT !.status = [tables.status EXCEPT ![i] = "pending"]]
      /\ UNCHANGED <<accepting, queue, publishing, dumps, backups, reported>>
  BY DEF CreateWorkItem, RecoveryInv, Types, operator
<1>2. /\ tables'.status = [tables.status EXCEPT ![i] = "pending"]
      /\ tables'.jobState = tables.jobState /\ tables'.jobItem = tables.jobItem
      /\ tables'.outbox = tables.outbox
  BY <1>1 DEF TableStates
<1>3. Orderly(tables)'
  BY <1>1, <1>2 DEF TablesOrderly, Orderly, Accepted, TableStates
<1>4. AcceptancesHold'
  BY <1>1, <1>2 DEF AcceptancesHold, Active, TableStates
<1>5. MessagesWait'
  BY <1>1, <1>2 DEF MessagesWait, Accepted, Names
<1> QED
  BY <1>1, <1>3, <1>4, <1>5, FilesStayOrderly

LEMMA BeginAcceptWaits ==
  ASSUME StrandingInv, NEW i \in Items, BeginAccept(i)
  PROVE  (TablesOrderly /\ AcceptancesHold /\ MessagesWait)'
<1> USE DEF StrandingInv
<1>1. /\ tables.status[i] = "pending" /\ Active(i) = {}
      /\ accepting' = [accepting EXCEPT ![i] = jobSeq + 1]
      /\ UNCHANGED <<queue, publishing, dumps, backups, reported>>
  BY DEF BeginAccept, operator
<1>2. SameRows
  BY DEF BeginAccept, RecoveryInv, Types, TableStates, SameRows
<1>3. Orderly(tables)'
  BY <1>2 DEF TablesOrderly, Orderly, Accepted, SameRows
<1>4. AcceptancesHold'
  BY <1>1, <1>2 DEF AcceptancesHold, Active, RecoveryInv, Types, SameRows
<1>5. MessagesWait'
  BY <1>1, <1>2 DEF MessagesWait, Accepted, Names, SameRows
<1> QED
  BY <1>1, <1>3, <1>4, <1>5, FilesStayOrderly

LEMMA CommitAcceptWaits ==
  ASSUME StrandingInv, NEW i \in Items, CommitAccept(i)
  PROVE  (TablesOrderly /\ AcceptancesHold /\ MessagesWait)'
<1> USE DEF StrandingInv
<1> DEFINE j == accepting[i]
<1>1. /\ j \in Jobs /\ tables \in TableStates /\ tables.status[i] = "pending" /\ Active(i) = {}
      /\ accepting \in [Items -> Jobs \cup {NoJob}]
      /\ accepting' = [accepting EXCEPT ![i] = NoJob]
      /\ UNCHANGED <<queue, publishing, dumps, backups, reported>>
  BY DEF CommitAccept, RecoveryInv, Types, AcceptancesHold, operator
<1>2. CASE tables.jobState[j] = "none"
  <2>1. tables' = [tables EXCEPT !.jobState = [tables.jobState EXCEPT ![j] = "accepted"],
                                 !.jobItem = [tables.jobItem EXCEPT ![j] = i],
                                 !.outbox = [tables.outbox EXCEPT ![j] = "unpublished"],
                                 !.born = [tables.born EXCEPT ![j] = history]]
    BY <1>1, <1>2 DEF CommitAccept, TableStates
  <2>2. /\ tables'.status = tables.status
        /\ tables'.jobState = [tables.jobState EXCEPT ![j] = "accepted"]
        /\ tables'.jobItem = [tables.jobItem EXCEPT ![j] = i]
        /\ tables'.outbox = [tables.outbox EXCEPT ![j] = "unpublished"]
    BY <1>1, <2>1 DEF TableStates
  <2>3. Accepted(tables)' = Accepted(tables) \cup {j}
    BY <1>1, <2>2 DEF Accepted, TableStates
  <2>4. \A k \in Accepted(tables) : tables.jobItem[k] # i /\ k # j
    BY <1>1, <1>2 DEF Accepted, Active
  <2> HIDE DEF j
  <2>5. Orderly(tables)'
    BY <1>1, <1>2, <2>2, <2>3, <2>4 DEF TablesOrderly, Orderly, Accepted, TableStates
  <2>6. AcceptancesHold'
    BY <1>1, <1>2, <2>2 DEF AcceptancesHold, Active, TableStates
  <2>7. MessagesWait'
    <3>1. publishing' # j
      BY <1>1, <1>2 DEF MessagesWait, Jobs, NoJob
    <3>2. publishing' # NoJob => tables'.jobState[publishing'] # "none"
      BY <1>1, <2>2, <3>1 DEF MessagesWait, TableStates, RecoveryInv, Types
    <3>3. ASSUME NEW k \in Accepted(tables)',
                 (tables'.outbox[k] = "published" /\ k \notin reported') \/ publishing' = k
          PROVE  \E m \in BagToSet(queue') : Names(m, k)'
      <4>1. k # j
        BY <1>1, <2>2, <3>1, <3>3 DEF Accepted, TableStates
      <4>2. k \in Accepted(tables) /\ tables'.outbox[k] = tables.outbox[k]
        BY <1>1, <2>2, <2>3, <3>3, <4>1 DEF Accepted, TableStates
      <4>3. PICK m \in BagToSet(queue) : Names(m, k)
        BY <1>1, <3>3, <4>2 DEF MessagesWait
      <4>4. Names(m, k)'
        BY <1>1, <2>2, <4>1, <4>2, <4>3 DEF Names, TableStates, Accepted
      <4> QED
        BY <1>1, <4>4
    <3> QED
      BY <1>1, <3>2, <3>3 DEF MessagesWait
  <2> QED
    BY <1>1, <2>5, <2>6, <2>7, FilesStayOrderly
<1>3. CASE tables.jobState[j] # "none"
  <2>1. UNCHANGED tables
    BY <1>3 DEF CommitAccept
  <2>2. AcceptancesHold' /\ MessagesWait' /\ Orderly(tables)'
    BY <1>1, <2>1 DEF AcceptancesHold, Active, MessagesWait, Names, TablesOrderly
  <2> QED
    BY <1>1, <2>2, FilesStayOrderly
<1> QED
  BY <1>2, <1>3

LEMMA PublishWaits ==
  ASSUME StrandingInv, Publish
  PROVE  (TablesOrderly /\ AcceptancesHold /\ MessagesWait)'
<1> USE DEF StrandingInv
<1>1. PICK j \in Unpublished :
        /\ queue' = queue (+) One([job |-> j, item |-> tables.jobItem[j], born |-> tables.born[j]])
        /\ publishing' = j
  BY DEF Publish
<1> DEFINE n == [job |-> j, item |-> tables.jobItem[j], born |-> tables.born[j]]
<1>2. /\ UNCHANGED <<tables, accepting, dumps, backups, reported>>
      /\ publishing = NoJob /\ j \in Jobs /\ tables.outbox[j] = "unpublished"
  BY DEF Publish, operator, Unpublished
<1>3. IsABag(queue') /\ BagToSet(queue') = BagToSet(queue) \cup {n}
  BY <1>1, BagSum, BagOne DEF MessagesWait
<1>4. tables.jobState[j] # "none"
  BY <1>2 DEF TablesOrderly, Orderly
<1>5. Names(n, j)
  BY <1>2, <1>4 DEF Names
<1>6. MessagesWait'
  <2>1. ASSUME NEW k \in Accepted(tables)',
               (tables'.outbox[k] = "published" /\ k \notin reported') \/ publishing' = k
        PROVE  \E m \in BagToSet(queue') : Names(m, k)'
    <3>1. CASE k = j
      <4>1. PICK m \in BagToSet(queue') : Names(m, j)
        BY <1>3, <1>5
      <4> QED
        BY <1>2, <3>1, <4>1 DEF Names
    <3>2. CASE k # j
      <4>1. k \in Accepted(tables) /\ tables.outbox[k] = "published" /\ k \notin reported
        BY <1>1, <1>2, <2>1, <3>2 DEF Accepted
      <4>2. PICK m \in BagToSet(queue) : Names(m, k)
        BY <4>1 DEF MessagesWait
      <4> QED
        BY <1>2, <1>3, <4>2 DEF Names
    <3> QED
      BY <3>1, <3>2
  <2> QED
    BY <1>1, <1>2, <1>3, <1>4, <2>1 DEF MessagesWait
<1>7. AcceptancesHold' /\ Orderly(tables)'
  BY <1>2 DEF AcceptancesHold, Active, TablesOrderly
<1> QED
  BY <1>2, <1>6, <1>7, FilesStayOrderly

LEMMA MarkWaits ==
  ASSUME StrandingInv, MarkOutboxPublished
  PROVE  (TablesOrderly /\ AcceptancesHold /\ MessagesWait)'
<1> USE DEF StrandingInv
<1>1. /\ publishing \in Jobs /\ tables \in TableStates /\ publishing' = NoJob
      /\ tables' = [tables EXCEPT !.outbox = [tables.outbox EXCEPT ![publishing] = "published"]]
      /\ UNCHANGED <<accepting, queue, dumps, backups, reported>>
  BY DEF MarkOutboxPublished, RecoveryInv, Types, operator
<1>2. /\ tables'.status = tables.status
      /\ tables'.jobState = tables.jobState /\ tables'.jobItem = tables.jobItem
      /\ tables'.outbox = [tables.outbox EXCEPT ![publishing] = "published"]
  BY <1>1 DEF TableStates
<1>3. Orderly(tables)'
  BY <1>1, <1>2 DEF TablesOrderly, Orderly, Accepted, TableStates, MessagesWait, Jobs, NoJob
<1>4. AcceptancesHold'
  BY <1>1, <1>2 DEF AcceptancesHold, Active
<1>5. MessagesWait'
  <2>1. \A k \in Jobs : k # NoJob
    BY BoundAssumption DEF Jobs, NoJob
  <2>2. Accepted(tables)' = Accepted(tables) /\ \A m, k : Names(m, k)' <=> Names(m, k)
    BY <1>2 DEF Accepted, Names
  <2>3. ASSUME NEW k \in Accepted(tables), tables'.outbox[k] = "published", k \notin reported
        PROVE  \E m \in BagToSet(queue) : Names(m, k)
    BY <1>1, <1>2, <2>3 DEF MessagesWait, Accepted, TableStates
  <2> QED
    BY <1>1, <2>1, <2>2, <2>3 DEF MessagesWait, Accepted
<1> QED
  BY <1>1, <1>3, <1>4, <1>5, FilesStayOrderly

(* Taken messages that completed nothing named no job that waits. *)
LEMMA HandleWaits ==
  ASSUME StrandingInv, NEW w \in Workers, HandleMessage(w)
  PROVE  (TablesOrderly /\ AcceptancesHold /\ MessagesWait)'
<1> USE DEF StrandingInv
<1>1. PICK m \in BagToSet(queue) :
        /\ queue' = queue (-) One(m)
        /\ \/ Completing(m) = {} /\ UNCHANGED tables
           \/ \E j \in Completing(m) : CompleteProcessingJob(j)
  BY DEF HandleMessage
<1>2. UNCHANGED <<accepting, publishing, dumps, backups, reported>> /\ tables \in TableStates
  BY DEF HandleMessage, operator, RecoveryInv, Types
<1>3. IsABag(queue') /\ BagToSet(queue) \ {m} \subseteq BagToSet(queue')
  BY <1>1, BagTake DEF MessagesWait
<1>4. \A j \in Accepted(tables) : Names(m, j) => j \in Completing(m)
  BY <1>2 DEF Accepted, Completing, Completable, TablesOrderly, Orderly, RecoveryInv, Well, Success, JobsExist,
              TableStates
<1>5. CASE Completing(m) = {} /\ UNCHANGED tables
  <2>1. ASSUME NEW k \in Accepted(tables), \E n \in BagToSet(queue) : Names(n, k)
        PROVE  \E n \in BagToSet(queue') : Names(n, k)
    BY <1>3, <1>4, <1>5, <2>1
  <2>2. \A n, k : Names(n, k)' <=> Names(n, k)
    BY <1>5 DEF Names
  <2>3. MessagesWait'
    BY <1>2, <1>3, <1>5, <2>1, <2>2 DEF MessagesWait, Accepted
  <2>4. AcceptancesHold' /\ Orderly(tables)'
    BY <1>2, <1>5 DEF AcceptancesHold, Active, TablesOrderly
  <2> QED
    BY <1>2, <2>3, <2>4, FilesStayOrderly
<1>6. CASE \E j \in Completing(m) : CompleteProcessingJob(j)
  <2>1. PICK j \in Completing(m) : CompleteProcessingJob(j)
    BY <1>6
  <2> DEFINE i == tables.jobItem[j]
  <2>2. j \in Jobs /\ j = m.job /\ j \in Accepted(tables) /\ i \in Items
    BY <2>1 DEF Completing, Names, Completable, Accepted, RecoveryInv, Well, JobsExist
  <2>3. tables' = [tables EXCEPT !.jobState = [tables.jobState EXCEPT ![j] = "succeeded"],
                                 !.status = [tables.status EXCEPT ![i] = "done"],
                                 !.result = [tables.result EXCEPT ![i] = j]]
    BY <1>2, <2>1, <2>2 DEF CompleteProcessingJob, TableStates
  <2>4. /\ tables'.status = [tables.status EXCEPT ![i] = "done"]
        /\ tables'.jobState = [tables.jobState EXCEPT ![j] = "succeeded"]
        /\ tables'.jobItem = tables.jobItem
        /\ tables'.outbox = tables.outbox
    BY <1>2, <2>3 DEF TableStates
  <2>5. Accepted(tables)' = Accepted(tables) \ {j}
    BY <1>2, <2>2, <2>4 DEF Accepted, TableStates
  <2>6. \A k \in Accepted(tables)' : tables.jobItem[k] # i
    BY <2>2, <2>5 DEF TablesOrderly, Orderly
  <2> HIDE DEF i
  <2>7. Orderly(tables)'
    BY <1>2, <2>2, <2>4, <2>5, <2>6 DEF TablesOrderly, Orderly, TableStates, Accepted
  <2>8. AcceptancesHold'
    <3>1. accepting[i] = NoJob
      BY <2>2 DEF AcceptancesHold, Active, Accepted, i
    <3> QED
      BY <1>2, <2>2, <2>4, <3>1 DEF AcceptancesHold, Active, TableStates
  <2>9. MessagesWait'
    <3>1. ASSUME NEW k \in Accepted(tables)', \E n \in BagToSet(queue) : Names(n, k)
          PROVE  \E n \in BagToSet(queue') : Names(n, k)'
      <4>1. PICK n \in BagToSet(queue) : Names(n, k)
        BY <3>1
      <4>2. k # j /\ n # m
        BY <2>2, <2>5, <4>1 DEF Names
      <4>3. Names(n, k)'
        BY <1>2, <2>4, <2>5, <4>1, <4>2 DEF Names, Accepted, TableStates
      <4> QED
        BY <1>3, <4>2, <4>3
    <3>2. publishing' # NoJob => tables'.jobState[publishing'] # "none"
      BY <1>2, <2>2, <2>4 DEF MessagesWait, RecoveryInv, Types, TableStates
    <3>3. ASSUME NEW k \in Accepted(tables)',
                 (tables'.outbox[k] = "published" /\ k \notin reported') \/ publishing' = k
          PROVE  \E n \in BagToSet(queue) : Names(n, k)
      BY <1>2, <2>4, <2>5, <3>3 DEF MessagesWait
    <3> QED
      BY <1>3, <3>1, <3>2, <3>3 DEF MessagesWait
  <2> QED
    BY <1>2, <2>7, <2>8, <2>9, FilesStayOrderly
<1> QED
  BY <1>1, <1>5, <1>6

(* A step that leaves the tables alone and takes no message. *)
LEMMA TablesWait ==
  ASSUME StrandingInv, UNCHANGED <<tables, dumps, backups, reported>>,
         accepting' = accepting \/ accepting' = [i \in Items |-> NoJob],
         publishing' = publishing \/ publishing' = NoJob,
         IsABag(queue'), BagToSet(queue) \subseteq BagToSet(queue')
  PROVE  (TablesOrderly /\ AcceptancesHold /\ MessagesWait)'
<1> USE DEF StrandingInv
<1>1. AcceptancesHold' /\ Orderly(tables)'
  BY DEF AcceptancesHold, Active, TablesOrderly
<1>2. \A n, k : Names(n, k)' <=> Names(n, k)
  BY DEF Names
<1>3. \A k \in Jobs : k # NoJob
  BY BoundAssumption DEF Jobs, NoJob
<1>4. MessagesWait'
  BY <1>2, <1>3 DEF MessagesWait, Accepted
<1> QED
  BY <1>1, <1>4, FilesStayOrderly

LEMMA SessionEndsWaits ==
  ASSUME StrandingInv, NEW w \in Workers, SessionEnds(w)
  PROVE  (TablesOrderly /\ AcceptancesHold /\ MessagesWait)'
<1>1. /\ UNCHANGED <<tables, dumps, backups, reported, accepting, publishing>>
      /\ queue' = queue (+) One(held[w])
  BY DEF SessionEnds, operator
<1>2. IsABag(queue') /\ BagToSet(queue) \subseteq BagToSet(queue')
  BY <1>1, BagSum, BagOne DEF StrandingInv, MessagesWait
<1> QED
  BY <1>1, <1>2, TablesWait

LEMMA BackupWaits ==
  ASSUME StrandingInv, NEW c \in Creators,
         FinishBackup(c) \/ CreateFails(c) \/ \E p \in Paths : BeginBackup(c, p)
  PROVE  (TablesOrderly /\ AcceptancesHold /\ MessagesWait)'
<1> USE DEF StrandingInv
<1>1. UNCHANGED <<tables, accepting, queue, publishing, reported>>
  BY DEF FinishBackup, CreateFails, BeginBackup, system, operator
<1>2. AcceptancesHold' /\ MessagesWait' /\ Orderly(tables)'
  BY <1>1 DEF AcceptancesHold, Active, MessagesWait, Names, TablesOrderly
<1>3. Orderly(EmptyTables)
  BY DEF Orderly, Accepted, EmptyTables
<1>4. \A d \in Creators : Orderly(dumps'[d].tables)
  BY <1>3 DEF FinishBackup, CreateFails, BeginBackup, TablesOrderly, NoDump, RecoveryInv, Types
<1>5. \A p \in Paths : Orderly(backups'[p].tables)
  BY DEF FinishBackup, CreateFails, BeginBackup, TablesOrderly, RecoveryInv, Types
<1> QED
  BY <1>2, <1>4, <1>5 DEF TablesOrderly

LEMMA ProvisionWaits ==
  ASSUME StrandingInv, ProvisionTarget
  PROVE  (TablesOrderly /\ AcceptancesHold /\ MessagesWait)'
<1> USE DEF StrandingInv
<1>1. /\ tables' = EmptyTables /\ accepting' = [i \in Items |-> NoJob] /\ publishing' = NoJob
      /\ queue' = queue (+) InHand
      /\ UNCHANGED <<dumps, backups>>
  BY DEF ProvisionTarget
<1>2. Orderly(EmptyTables) /\ Accepted(EmptyTables) = {}
  BY DEF Orderly, Accepted, EmptyTables
<1>3. IsABag(queue')
  BY <1>1, InHandIsABag, BagSum DEF MessagesWait
<1>4. MessagesWait'
  BY <1>1, <1>2, <1>3 DEF MessagesWait
<1> QED
  BY <1>1, <1>2, <1>4, FilesStayOrderly DEF AcceptancesHold

(* What the query reports is what the new tables say. *)
LEMMA RestoreWaits ==
  ASSUME StrandingInv, NEW p \in Paths, RestoreBackup(p)
  PROVE  (TablesOrderly /\ AcceptancesHold /\ MessagesWait)'
<1> USE DEF StrandingInv
<1>1. /\ tables' = backups[p].tables
      /\ reported' = {j \in Accepted(backups[p].tables) : backups[p].tables.outbox[j] = "published"}
      /\ \A i \in Items : tables.status[i] = "absent"
      /\ UNCHANGED <<accepting, queue, publishing, dumps, backups>>
  BY DEF RestoreBackup, TargetIsEmpty, Accepted
<1>2. \A i \in Items : accepting[i] = NoJob
  BY <1>1 DEF AcceptancesHold
<1>3. publishing = NoJob
  BY <1>1 DEF MessagesWait, RecoveryInv, Types, Well, JobsExist
<1>4. \A k \in Jobs : k # NoJob
  BY BoundAssumption DEF Jobs, NoJob
<1>5. MessagesWait'
  BY <1>1, <1>3, <1>4 DEF MessagesWait, Accepted
<1> QED
  BY <1>1, <1>2, <1>5, FilesStayOrderly DEF AcceptancesHold, TablesOrderly

LEMMA StrandingInit == Init => StrandingInv
<1> SUFFICES ASSUME Init
             PROVE  StrandingInv
  OBVIOUS
<1>1. Orderly(EmptyTables) /\ Accepted(EmptyTables) = {}
  BY DEF Orderly, Accepted, EmptyTables
<1>2. IsABag(EmptyBag)
  BY DEF IsABag, EmptyBag, SetToBag
<1> QED
  BY <1>1, <1>2, RecoveryInit
     DEF StrandingInv, Init, TablesOrderly, AcceptancesHold, MessagesWait, NoDump, NoBackup

LEMMA StrandingNext == StrandingInv /\ [Next]_vars => StrandingInv'
<1> SUFFICES ASSUME StrandingInv, [Next]_vars
             PROVE  (TablesOrderly /\ AcceptancesHold /\ MessagesWait)'
  BY RecoveryNext DEF StrandingInv
<1> USE DEF operator
<1>1. IsABag(queue)
  BY DEF StrandingInv, MessagesWait
<1>2. CASE PublisherStep
  BY <1>2, PublishWaits, MarkWaits DEF PublisherStep
<1>3. CASE CrashAPI
  BY <1>1, <1>3, TablesWait DEF CrashAPI
<1>4. CASE \E i \in Items : CreateWorkItem(i) \/ BeginAccept(i) \/ CommitAccept(i)
  BY <1>4, CreateWaits, BeginAcceptWaits, CommitAcceptWaits
<1>5. CASE \E w \in Workers : WorkerStep(w) \/ SessionEnds(w)
  <2>1. ASSUME NEW w \in Workers, SettleDelivery(w)
        PROVE  (TablesOrderly /\ AcceptancesHold /\ MessagesWait)'
    BY <1>1, <2>1, TablesWait DEF SettleDelivery
  <2> QED
    BY <1>5, <2>1, HandleWaits, SessionEndsWaits DEF WorkerStep
<1>6. CASE \/ \E c \in Creators : FinishBackup(c) \/ CreateFails(c)
           \/ \E c \in Creators, p \in Paths : BeginBackup(c, p)
  BY <1>6, BackupWaits
<1>7. CASE Resume
  BY <1>1, <1>7, TablesWait DEF Resume, system
<1>8. CASE UNCHANGED vars
  BY <1>1, <1>8, TablesWait DEF vars, system
<1> QED
  BY <1>2, <1>3, <1>4, <1>5, <1>6, <1>7, <1>8, ProvisionWaits, RestoreWaits DEF Next

(* After any losses and restores, an accepted job whose row is published   *)
(* and whose message RabbitMQ no longer has is one that the runbook's      *)
(* query reported at the restore: no order of publications, deliveries,    *)
(* crashes and backups strands another.                                    *)
THEOREM StrandedJobsAreFound == Spec => []StrandedJobsAreReported
<1>1. StrandingInv => StrandedJobsAreReported
  BY DEF StrandingInv, MessagesWait, StrandedJobsAreReported, Stranded, Accepted, InBroker
<1> QED
  BY <1>1, StrandingInit, StrandingNext, PTL DEF Spec

-------------------------------------------------------------------------------
(* Messages and the acceptances they come from *)

MessageTypes ==
  /\ BagToSet(queue) \subseteq Messages
  /\ held \in [Workers -> Messages \cup {NoMessage}]

Early(t) == \A j \in Jobs : t.born[j] = 0

(* Until requests begin anew after the first loss, everything comes from   *)
(* the first history.                                                      *)
AllEarly ==
  /\ \A m \in InBroker : m.born = 0
  /\ Early(tables)
  /\ \A c \in Creators : Early(dumps[c].tables)
  /\ \A p \in Paths : Early(backups[p].tables)

(* Open acceptances have identities no row and no other acceptance has.    *)
AcceptancesAreNew ==
  /\ stopped => \A i \in Items : accepting[i] = NoJob
  /\ \A i \in Items : accepting[i] # NoJob =>
       /\ tables.jobState[accepting[i]] = "none"
       /\ \A k \in Items : accepting[k] = accepting[i] => k = i

(* A message of another acceptance than its row's, or of one whose         *)
(* identity is being given out again, was there when that began.           *)
AliasesAreMarked ==
  \A m \in InBroker :
    \/ tables.jobState[m.job] # "none" /\ m.born # tables.born[m.job]
    \/ \E i \in Items : accepting[i] = m.job
    => m.job \in tables.reused

Origins ==
  /\ MessageTypes
  /\ history = 0 \/ (history = 1 /\ stopped) => AllEarly
  /\ AcceptancesAreNew
  /\ history <= 1 => AliasesAreMarked

OriginInv == StrandingInv /\ Origins

LEMMA JobsAreNumbers == NoJob \notin Jobs /\ Jobs \subseteq Nat
BY BoundAssumption DEF Jobs, NoJob

LEMMA InHandSet == BagToSet(InHand) = {held[w] : w \in Workers} \ {NoMessage}
BY DEF InHand, BagToSet

LEMMA InBrokerTypes == MessageTypes => InBroker \subseteq Messages
BY InHandSet DEF MessageTypes, InBroker

(* What a step has to show that adds no message and no acceptance, and     *)
(* leaves files and the operator's state alone.                            *)
LEMMA NothingNew ==
  ASSUME OriginInv, MessageTypes', UNCHANGED <<history, stopped, dumps, backups>>,
         InBroker' \subseteq InBroker,
         \A i \in Items : accepting'[i] = accepting[i] \/ accepting'[i] = NoJob,
         tables'.born = tables.born, tables'.reused = tables.reused,
         \A j \in Jobs : tables'.jobState[j] = "none" <=> tables.jobState[j] = "none"
  PROVE  Origins'
<1> USE DEF OriginInv, Origins
<1>1. AllEarly => AllEarly'
  BY DEF AllEarly, Early
<1>2. AcceptancesAreNew'
  BY JobsAreNumbers DEF AcceptancesAreNew, StrandingInv, RecoveryInv, Types
<1>3. AliasesAreMarked => AliasesAreMarked'
  <2>1. InBroker \subseteq Messages
    BY InBrokerTypes
  <2>2. \A m \in Messages : m.job \in Jobs
    BY DEF Messages
  <2> QED
    BY <2>1, <2>2, JobsAreNumbers DEF AliasesAreMarked
<1> QED
  BY <1>1, <1>2, <1>3 DEF Origins

LEMMA CreateOrigins ==
  ASSUME OriginInv, NEW i \in Items, CreateWorkItem(i)
  PROVE  Origins'
<1>1. /\ tables'.born = tables.born /\ tables'.reused = tables.reused
      /\ tables'.jobState = tables.jobState
  BY DEF CreateWorkItem, OriginInv, StrandingInv, RecoveryInv, Types, TableStates
<1>2. UNCHANGED <<history, stopped, dumps, backups, accepting, queue, held>>
  BY DEF CreateWorkItem, operator
<1>3. MessageTypes' /\ InBroker' = InBroker
  BY <1>2, InHandSet DEF OriginInv, Origins, MessageTypes, InBroker, InHand
<1> QED
  BY <1>1, <1>2, <1>3, NothingNew

LEMMA MarkOrigins ==
  ASSUME OriginInv, MarkOutboxPublished
  PROVE  Origins'
<1>1. /\ tables'.born = tables.born /\ tables'.reused = tables.reused
      /\ tables'.jobState = tables.jobState
  BY DEF MarkOutboxPublished, OriginInv, StrandingInv, RecoveryInv, Types, TableStates
<1>2. UNCHANGED <<history, stopped, dumps, backups, accepting, queue, held>>
  BY DEF MarkOutboxPublished, operator
<1>3. MessageTypes' /\ InBroker' = InBroker
  BY <1>2, InHandSet DEF OriginInv, Origins, MessageTypes, InBroker, InHand
<1> QED
  BY <1>1, <1>2, <1>3, NothingNew

(* The identity is the next one: a message that has it already is beyond   *)
(* the sequence, which marks the identity.                                 *)
LEMMA BeginAcceptOrigins ==
  ASSUME OriginInv, NEW i \in Items, BeginAccept(i)
  PROVE  Origins'
<1> USE DEF OriginInv, Origins
<1> DEFINE n == jobSeq + 1
<1>1. /\ n \in Jobs /\ jobSeq \in Nat /\ ~stopped /\ accepting[i] = NoJob
      /\ accepting \in [Items -> Jobs \cup {NoJob}]
      /\ accepting' = [accepting EXCEPT ![i] = n]
      /\ UNCHANGED <<history, stopped, dumps, backups, queue, held>>
  BY BoundAssumption DEF BeginAccept, operator, StrandingInv, RecoveryInv, Types, Jobs
<1>2. /\ tables.reused \subseteq tables'.reused
      /\ (\E m \in InBroker : m.job > jobSeq) => n \in tables'.reused
  BY DEF BeginAccept, StrandingInv, RecoveryInv, Types, TableStates
<1>3. tables'.born = tables.born /\ tables'.jobState = tables.jobState
  BY DEF BeginAccept, StrandingInv, RecoveryInv, Types, TableStates
<1>4. MessageTypes' /\ InBroker' = InBroker
  BY <1>1, InHandSet DEF MessageTypes, InBroker, InHand
<1>5. AllEarly => AllEarly'
  BY <1>1, <1>3, <1>4 DEF AllEarly, Early
<1>6. AcceptancesAreNew'
  <2>1. \A k \in Items : accepting[k] # n
    BY <1>1, JobsAreNumbers DEF StrandingInv, RecoveryInv, AcceptancesFit
  <2>2. tables.jobState[n] = "none"
    BY <1>1 DEF StrandingInv, RecoveryInv, Well, SequenceCovers
  <2> HIDE DEF n
  <2> QED
    BY <1>1, <1>3, <2>1, <2>2 DEF AcceptancesAreNew
<1>7. AliasesAreMarked => AliasesAreMarked'
  <2> SUFFICES ASSUME AliasesAreMarked, NEW m \in InBroker,
                      \/ tables.jobState[m.job] # "none" /\ m.born # tables.born[m.job]
                      \/ \E k \in Items : accepting'[k] = m.job
               PROVE  m.job \in tables'.reused
    BY <1>3, <1>4 DEF AliasesAreMarked
  <2>1. CASE m.job = n
    BY <1>1, <1>2, <2>1
  <2>2. CASE m.job # n
    <3>1. \A k \in Items : accepting'[k] = m.job => accepting[k] = m.job
      BY <1>1, <2>2
    <3> QED
      BY <1>2, <3>1 DEF AliasesAreMarked
  <2> QED
    BY <2>1, <2>2
<1> QED
  BY <1>1, <1>4, <1>5, <1>6, <1>7

LEMMA CommitAcceptOrigins ==
  ASSUME OriginInv, NEW i \in Items, CommitAccept(i)
  PROVE  Origins'
<1> USE DEF OriginInv, Origins
<1> DEFINE j == accepting[i]
<1>1. /\ j \in Jobs /\ tables \in TableStates /\ tables.jobState[j] = "none" /\ ~stopped
      /\ accepting \in [Items -> Jobs \cup {NoJob}]
      /\ accepting' = [accepting EXCEPT ![i] = NoJob]
      /\ UNCHANGED <<history, stopped, dumps, backups, queue, held>>
  BY DEF CommitAccept, StrandingInv, RecoveryInv, Types, AcceptancesAreNew, operator
<1>2. tables' = [tables EXCEPT !.jobState = [tables.jobState EXCEPT ![j] = "accepted"],
                               !.jobItem = [tables.jobItem EXCEPT ![j] = i],
                               !.outbox = [tables.outbox EXCEPT ![j] = "unpublished"],
                               !.born = [tables.born EXCEPT ![j] = history]]
  BY <1>1 DEF CommitAccept, TableStates
<1>3. /\ tables'.jobState = [tables.jobState EXCEPT ![j] = "accepted"]
      /\ tables'.born = [tables.born EXCEPT ![j] = history]
      /\ tables'.reused = tables.reused
  BY <1>1, <1>2 DEF TableStates
<1>4. MessageTypes' /\ InBroker' = InBroker
  BY <1>1, InHandSet DEF MessageTypes, InBroker, InHand
<1>5. /\ tables.born \in [Jobs -> Histories] /\ tables.jobState \in [Jobs -> {"none", "accepted", "succeeded"}]
      /\ \A k \in Items : accepting[k] = j => k = i
  BY <1>1, JobsAreNumbers DEF TableStates, AcceptancesAreNew
<1> HIDE DEF j
<1>6. history = 0 /\ AllEarly => AllEarly'
  BY <1>1, <1>3, <1>4, <1>5 DEF AllEarly, Early
<1>7. AcceptancesAreNew'
  BY <1>1, <1>3, <1>5 DEF AcceptancesAreNew, j
<1>8. AliasesAreMarked => AliasesAreMarked'
  <2> SUFFICES ASSUME AliasesAreMarked, NEW m \in InBroker,
                      \/ tables'.jobState[m.job] # "none" /\ m.born # tables'.born[m.job]
                      \/ \E k \in Items : accepting'[k] = m.job
               PROVE  m.job \in tables.reused
    BY <1>3, <1>4 DEF AliasesAreMarked
  <2>0. m.job \in Jobs
    BY InBrokerTypes DEF Messages
  <2>1. CASE m.job = j
    BY <2>1 DEF AliasesAreMarked, j
  <2>2. CASE m.job # j
    <3>1. /\ tables'.jobState[m.job] = tables.jobState[m.job]
          /\ tables'.born[m.job] = tables.born[m.job]
      BY <1>3, <1>5, <2>0, <2>2
    <3>2. \A k \in Items : accepting'[k] = m.job => accepting[k] = m.job
      BY <1>1, <2>0, JobsAreNumbers
    <3> QED
      BY <3>1, <3>2 DEF AliasesAreMarked
  <2> QED
    BY <2>1, <2>2
<1> QED
  BY <1>1, <1>4, <1>6, <1>7, <1>8

(* The new message is of the acceptance its row is of. *)
LEMMA PublishOrigins ==
  ASSUME OriginInv, Publish
  PROVE  Origins'
<1> USE DEF OriginInv, Origins
<1>1. PICK j \in Unpublished :
        queue' = queue (+) One([job |-> j, item |-> tables.jobItem[j], born |-> tables.born[j]])
  BY DEF Publish
<1> DEFINE n == [job |-> j, item |-> tables.jobItem[j], born |-> tables.born[j]]
<1>2. /\ UNCHANGED <<tables, accepting, held, dumps, backups, history, stopped>>
      /\ ~stopped /\ j \in Jobs /\ tables.outbox[j] = "unpublished"
  BY DEF Publish, operator, Unpublished
<1>3. tables.jobItem[j] \in Items /\ tables.born[j] \in Histories
  <2>1. tables.jobState[j] # "none"
    BY <1>2 DEF StrandingInv, TablesOrderly, Orderly
  <2> QED
    BY <1>2, <2>1 DEF StrandingInv, RecoveryInv, Types, TableStates, Well, JobsExist
<1>4. n \in Messages /\ n.job = j /\ n.born = tables.born[j]
  BY <1>2, <1>3 DEF Messages
<1>5. BagToSet(queue') = BagToSet(queue) \cup {n}
  BY <1>1, BagSum, BagOne DEF StrandingInv, MessagesWait
<1> HIDE DEF n
<1>6. MessageTypes' /\ InBroker' = InBroker \cup {n}
  BY <1>2, <1>4, <1>5, InHandSet DEF MessageTypes, InBroker, InHand
<1>7. ASSUME AllEarly
      PROVE  AllEarly'
  <2>1. n.born = 0
    BY <1>2, <1>4, <1>7 DEF AllEarly, Early
  <2> QED
    BY <1>2, <1>6, <1>7, <2>1 DEF AllEarly
<1>8. AcceptancesAreNew'
  BY <1>2 DEF AcceptancesAreNew
<1>9. AliasesAreMarked => AliasesAreMarked'
  <2>1. \A i \in Items : accepting[i] # j
    BY <1>2, JobsAreNumbers DEF AcceptancesAreNew, StrandingInv, TablesOrderly, Orderly
  <2> QED
    BY <1>2, <1>4, <1>6, <2>1 DEF AliasesAreMarked
<1> QED
  BY <1>2, <1>6, <1>7, <1>8, <1>9

LEMMA HandleOrigins ==
  ASSUME OriginInv, NEW w \in Workers, HandleMessage(w)
  PROVE  Origins'
<1> USE DEF OriginInv, Origins
<1>1. PICK m \in BagToSet(queue) :
        /\ queue' = queue (-) One(m)
        /\ held' = [held EXCEPT ![w] = m]
        /\ UNCHANGED tables \/ \E j \in Completing(m) : CompleteProcessingJob(j)
  BY DEF HandleMessage
<1>2. UNCHANGED <<accepting, dumps, backups, history, stopped>> /\ tables \in TableStates
  BY DEF HandleMessage, operator, StrandingInv, RecoveryInv, Types
<1>3. BagToSet(queue') \subseteq BagToSet(queue)
  BY <1>1 DEF BagToSet, (-)
<1>4. MessageTypes' /\ InBroker' \subseteq InBroker
  BY <1>1, <1>3, InHandSet DEF MessageTypes, InBroker, InHand, BagToSet
<1>5. /\ tables'.born = tables.born /\ tables'.reused = tables.reused
      /\ \A j \in Jobs : tables'.jobState[j] = "none" <=> tables.jobState[j] = "none"
  <2>1. CASE UNCHANGED tables
    BY <2>1
  <2>2. CASE \E j \in Completing(m) : CompleteProcessingJob(j)
    <3>1. PICK j \in Jobs : tables.jobState[j] = "accepted" /\ CompleteProcessingJob(j)
      BY <2>2 DEF Completing, Completable
    <3>2. /\ tables'.born = tables.born /\ tables'.reused = tables.reused
          /\ tables'.jobState = [tables.jobState EXCEPT ![j] = "succeeded"]
      BY <1>2, <3>1 DEF CompleteProcessingJob, TableStates
    <3> QED
      BY <1>2, <3>1, <3>2 DEF TableStates
  <2> QED
    BY <1>1, <2>1, <2>2
<1> QED
  BY <1>2, <1>4, <1>5, NothingNew

(* Messages change hands or are settled, open acceptances are rolled back. *)
LEMMA BrokerOrigins ==
  ASSUME OriginInv,
         CrashAPI \/ (\E w \in Workers : SettleDelivery(w) \/ SessionEnds(w)) \/ UNCHANGED vars
  PROVE  Origins'
<1> USE DEF OriginInv, Origins
<1>1. UNCHANGED <<tables, dumps, backups, history, stopped>>
  BY DEF CrashAPI, SettleDelivery, SessionEnds, vars, system, operator
<1>2. \A i \in Items : accepting'[i] = accepting[i] \/ accepting'[i] = NoJob
  BY DEF CrashAPI, SettleDelivery, SessionEnds, vars, system
<1>3. MessageTypes' /\ InBroker' \subseteq InBroker
  <2>1. CASE CrashAPI \/ UNCHANGED vars
    BY <2>1 DEF CrashAPI, vars, system, MessageTypes, InBroker, InHand
  <2>2. ASSUME NEW w \in Workers, SettleDelivery(w)
        PROVE  MessageTypes' /\ InBroker' \subseteq InBroker
    <3>1. UNCHANGED queue /\ held' = [held EXCEPT ![w] = NoMessage]
      BY <2>2 DEF SettleDelivery
    <3> QED
      BY <3>1, InHandSet DEF MessageTypes, InBroker, InHand, BagToSet
  <2>3. ASSUME NEW w \in Workers, SessionEnds(w)
        PROVE  MessageTypes' /\ InBroker' \subseteq InBroker
    <3>1. /\ queue' = queue (+) One(held[w]) /\ held' = [held EXCEPT ![w] = NoMessage]
          /\ held[w] # NoMessage
      BY <2>3 DEF SessionEnds
    <3>2. BagToSet(queue') = BagToSet(queue) \cup {held[w]}
      BY <3>1, BagSum, BagOne DEF StrandingInv, MessagesWait
    <3> QED
      BY <3>1, <3>2, InHandSet DEF MessageTypes, InBroker, InHand, BagToSet
  <2> QED
    BY <2>1, <2>2, <2>3
<1> QED
  BY <1>1, <1>2, <1>3, NothingNew

LEMMA BackupOrigins ==
  ASSUME OriginInv, NEW c \in Creators,
         FinishBackup(c) \/ CreateFails(c) \/ \E p \in Paths : BeginBackup(c, p)
  PROVE  Origins'
<1> USE DEF OriginInv, Origins
<1>1. UNCHANGED <<tables, accepting, queue, held, history, stopped>>
  BY DEF FinishBackup, CreateFails, BeginBackup, system, operator
<1>2. MessageTypes' /\ InBroker' = InBroker
  BY <1>1 DEF MessageTypes, InBroker, InHand
<1>3. ASSUME AllEarly
      PROVE  AllEarly'
  <2>1. Early(EmptyTables)
    BY DEF Early, EmptyTables
  <2>2. \A d \in Creators : Early(dumps'[d].tables)
    BY <1>3, <2>1 DEF FinishBackup, CreateFails, BeginBackup, AllEarly, NoDump, StrandingInv, RecoveryInv, Types
  <2>3. \A p \in Paths : Early(backups'[p].tables)
    BY <1>3 DEF FinishBackup, CreateFails, BeginBackup, AllEarly, StrandingInv, RecoveryInv, Types
  <2> QED
    BY <1>1, <1>2, <1>3, <2>2, <2>3 DEF AllEarly
<1>4. AcceptancesAreNew' /\ (AliasesAreMarked => AliasesAreMarked')
  BY <1>1, <1>2 DEF AcceptancesAreNew, AliasesAreMarked
<1> QED
  BY <1>1, <1>2, <1>3, <1>4

LEMMA ProvisionOrigins ==
  ASSUME OriginInv, ProvisionTarget
  PROVE  Origins'
<1> USE DEF OriginInv, Origins
<1>1. /\ tables' = EmptyTables /\ accepting' = [i \in Items |-> NoJob]
      /\ held' = [w \in Workers |-> NoMessage] /\ queue' = queue (+) InHand
      /\ history' = history + 1 /\ history \in Nat
      /\ UNCHANGED <<dumps, backups>>
  BY BoundAssumption DEF ProvisionTarget, StrandingInv, RecoveryInv, Types, Histories
<1>2. BagToSet(queue') = BagToSet(queue) \cup BagToSet(InHand)
  BY <1>1, InHandIsABag, BagSum DEF StrandingInv, MessagesWait
<1>3. BagToSet(InHand') = {}
  BY <1>1 DEF InHand, BagToSet
<1>4. MessageTypes' /\ InBroker' = InBroker
  BY <1>1, <1>2, <1>3, InHandSet DEF MessageTypes, InBroker
<1>5. AllEarly => AllEarly'
  BY <1>1, <1>4 DEF AllEarly, Early, EmptyTables
<1>6. AcceptancesAreNew'
  BY <1>1 DEF AcceptancesAreNew
<1>7. AliasesAreMarked'
  <2>1. \A m \in InBroker : m.job \in Jobs
    BY InBrokerTypes DEF Messages
  <2> QED
    BY <1>1, <1>4, <2>1, JobsAreNumbers DEF AliasesAreMarked, EmptyTables
<1> QED
  BY <1>1, <1>4, <1>5, <1>6, <1>7

(* After the first loss, messages and rows are of the first history both.  *)
LEMMA RestoreOrigins ==
  ASSUME OriginInv, NEW p \in Paths, RestoreBackup(p)
  PROVE  Origins'
<1> USE DEF OriginInv, Origins
<1>1. /\ stopped /\ tables' = backups[p].tables
      /\ UNCHANGED <<accepting, queue, held, dumps, backups, history, stopped>>
  BY DEF RestoreBackup
<1>2. MessageTypes' /\ InBroker' = InBroker
  BY <1>1 DEF MessageTypes, InBroker, InHand
<1>3. AllEarly => AllEarly'
  BY <1>1, <1>2 DEF AllEarly
<1>4. AcceptancesAreNew'
  BY <1>1 DEF AcceptancesAreNew
<1>5. history <= 1 => AllEarly
  BY <1>1, BoundAssumption DEF StrandingInv, RecoveryInv, Types, Histories
<1>6. AllEarly => AliasesAreMarked'
  <2>1. \A m \in InBroker : m.job \in Jobs
    BY InBrokerTypes DEF Messages
  <2>2. \A i \in Items : accepting'[i] = NoJob
    BY <1>1 DEF AcceptancesAreNew
  <2> QED
    BY <1>1, <1>2, <2>1, <2>2, JobsAreNumbers DEF AllEarly, Early, AliasesAreMarked
<1> QED
  BY <1>1, <1>2, <1>3, <1>4, <1>5, <1>6

LEMMA ResumeOrigins ==
  ASSUME OriginInv, Resume
  PROVE  Origins'
<1> USE DEF OriginInv, Origins
<1>1. stopped /\ ~stopped' /\ UNCHANGED <<tables, accepting, queue, held, dumps, backups, history>>
  BY DEF Resume, system
<1>2. MessageTypes' /\ InBroker' = InBroker
  BY <1>1 DEF MessageTypes, InBroker, InHand
<1> QED
  BY <1>1, <1>2 DEF AllEarly, AcceptancesAreNew, AliasesAreMarked

LEMMA OriginInit == Init => OriginInv
<1> SUFFICES ASSUME Init
             PROVE  Origins
  BY StrandingInit DEF OriginInv
<1>1. BagToSet(queue) = {} /\ BagToSet(InHand) = {}
  BY DEF Init, BagToSet, EmptyBag, SetToBag, InHand
<1>2. Early(EmptyTables)
  BY DEF Early, EmptyTables
<1>3. AllEarly
  BY <1>1, <1>2 DEF Init, AllEarly, InBroker, NoDump, NoBackup
<1> QED
  BY <1>1, <1>3 DEF Init, Origins, MessageTypes, AcceptancesAreNew, AliasesAreMarked, InBroker

LEMMA OriginNext == OriginInv /\ [Next]_vars => OriginInv'
<1> SUFFICES ASSUME OriginInv, [Next]_vars
             PROVE  Origins'
  BY StrandingNext DEF OriginInv
<1>1. CASE PublisherStep
  BY <1>1, PublishOrigins, MarkOrigins DEF PublisherStep
<1>2. CASE \E i \in Items : CreateWorkItem(i) \/ BeginAccept(i) \/ CommitAccept(i)
  BY <1>2, CreateOrigins, BeginAcceptOrigins, CommitAcceptOrigins
<1>3. CASE \E w \in Workers : WorkerStep(w) \/ SessionEnds(w)
  BY <1>3, HandleOrigins, BrokerOrigins DEF WorkerStep
<1>4. CASE \/ \E c \in Creators : FinishBackup(c) \/ CreateFails(c)
           \/ \E c \in Creators, p \in Paths : BeginBackup(c, p)
  BY <1>4, BackupOrigins
<1> QED
  BY <1>1, <1>2, <1>3, <1>4, BrokerOrigins, ProvisionOrigins, RestoreOrigins, ResumeOrigins DEF Next

(* Up to the second loss a worker completes a job from the message of the  *)
(* job's own acceptance, unless its identity was handed out while RabbitMQ *)
(* had a message with an identity beyond the restored sequence: the case   *)
(* the recovery runbook warns of.                                          *)
THEOREM JobsServeThemselves == Spec => ServesOwnJob
<1>1. ASSUME OriginInv, Next, history <= 1, NEW j \in Jobs,
             tables.jobState[j] = "accepted", tables'.jobState[j] = "succeeded"
      PROVE  \/ j \in tables.reused
             \/ \E w \in Workers : /\ held[w] = NoMessage
                                   /\ held'[w].job = j /\ held'[w].born = tables.born[j]
  <2>0. tables \in TableStates
    BY <1>1 DEF OriginInv, StrandingInv, RecoveryInv, Types
  <2>1. PICK w \in Workers : HandleMessage(w)
    <3>1. tables' # tables
      BY <1>1
    <3>2. ~ PublisherStep
      BY <1>1, <2>0 DEF PublisherStep, Publish, MarkOutboxPublished, TableStates
    <3>3. \A i \in Items : ~ CreateWorkItem(i) /\ ~ BeginAccept(i)
      BY <1>1, <2>0 DEF CreateWorkItem, BeginAccept, TableStates
    <3>4. ASSUME NEW i \in Items, CommitAccept(i)
          PROVE  FALSE
      <4>1. accepting[i] \in Jobs
        BY <1>1, <3>4 DEF CommitAccept, OriginInv, StrandingInv, RecoveryInv, Types
      <4>2. tables'.jobState = tables.jobState \/ tables'.jobState = [tables.jobState EXCEPT ![accepting[i]] = "accepted"]
        BY <2>0, <3>4 DEF CommitAccept, TableStates
      <4> QED
        BY <1>1, <2>0, <4>1, <4>2 DEF TableStates
    <3>5. ~ ProvisionTarget
      BY <1>1 DEF ProvisionTarget, EmptyTables
    <3>6. \A p \in Paths : ~ RestoreBackup(p)
      BY <1>1 DEF OriginInv, StrandingInv, RecoveryInv, Well, JobsExist, RestoreBackup, TargetIsEmpty
    <3>7. ~ CrashAPI /\ ~ Resume /\ \A w \in Workers : ~ SettleDelivery(w) /\ ~ SessionEnds(w)
      BY <3>1 DEF CrashAPI, Resume, SettleDelivery, SessionEnds, system
    <3>8. \A c \in Creators : ~ FinishBackup(c) /\ ~ CreateFails(c) /\ \A p \in Paths : ~ BeginBackup(c, p)
      BY <3>1 DEF FinishBackup, CreateFails, BeginBackup, system
    <3> QED
      BY <1>1, <3>2, <3>3, <3>4, <3>5, <3>6, <3>7, <3>8 DEF Next, WorkerStep
  <2>2. PICK m \in BagToSet(queue) :
          /\ held' = [held EXCEPT ![w] = m]
          /\ UNCHANGED tables \/ \E k \in Completing(m) : CompleteProcessingJob(k)
    BY <2>1 DEF HandleMessage
  <2>3. PICK k \in Completing(m) : CompleteProcessingJob(k)
    BY <1>1, <2>2
  <2>4. k \in Jobs /\ k = m.job /\ tables'.jobState = [tables.jobState EXCEPT ![k] = "succeeded"]
    BY <2>0, <2>3 DEF Completing, Names, CompleteProcessingJob, TableStates
  <2>5. m.job = j
    BY <1>1, <2>0, <2>4 DEF TableStates
  <2>6. m.job \in tables.reused \/ m.born = tables.born[j]
    BY <1>1, <2>5 DEF OriginInv, Origins, AliasesAreMarked, InBroker
  <2>7. held[w] = NoMessage /\ held'[w] = m
    BY <1>1, <2>1, <2>2 DEF HandleMessage, OriginInv, Origins, MessageTypes
  <2> QED
    BY <2>5, <2>6, <2>7
<1>2. OriginInv /\ [Next]_vars =>
        [\A j \in Jobs :
           /\ history <= 1
           /\ tables.jobState[j] = "accepted"
           /\ tables'.jobState[j] = "succeeded"
           => \/ j \in tables.reused
              \/ \E w \in Workers : /\ held[w] = NoMessage
                                    /\ held'[w].job = j /\ held'[w].born = tables.born[j]]_vars
  BY <1>1
<1> QED
  BY <1>2, OriginInit, OriginNext, PTL DEF Spec, ServesOwnJob

-------------------------------------------------------------------------------
(* The types no argument above looks at. *)
OtherTypes == reported \subseteq Jobs /\ stopped \in BOOLEAN /\ faults \in 0..MaxFaults

(* Whatever is lost, restored and delivered again, all state keeps its     *)
(* type: identities and histories stay within what the operator and the    *)
(* sequence hand out, and no message is of a job or an item that nobody    *)
(* could have.                                                             *)
THEOREM RecoveryTypes == Spec => []TypeOK
<1>1. Init => OtherTypes
  <2>1. 0 \in 0..MaxFaults
    BY BoundAssumption
  <2>2. Init => reported = {} /\ stopped = FALSE /\ faults = 0
    BY DEF Init
  <2> QED
    BY <2>1, <2>2 DEF OtherTypes
<1>2. OtherTypes /\ [Next]_vars => OtherTypes'
  <2> SUFFICES ASSUME OtherTypes, [Next]_vars
               PROVE  OtherTypes'
    OBVIOUS
  <2>0. Fault => faults' \in 0..MaxFaults
    BY BoundAssumption DEF Fault, OtherTypes
  <2>1. CASE PublisherStep \/ CrashAPI
    BY <2>0, <2>1 DEF PublisherStep, Publish, MarkOutboxPublished, CrashAPI, operator, OtherTypes
  <2>2. ASSUME NEW i \in Items, CreateWorkItem(i) \/ BeginAccept(i) \/ CommitAccept(i)
        PROVE  OtherTypes'
    BY <2>2 DEF CreateWorkItem, BeginAccept, CommitAccept, operator, OtherTypes
  <2>3. ASSUME NEW w \in Workers, WorkerStep(w) \/ SessionEnds(w)
        PROVE  OtherTypes'
    BY <2>0, <2>3 DEF WorkerStep, HandleMessage, SettleDelivery, SessionEnds, operator, OtherTypes
  <2>4. ASSUME NEW c \in Creators, FinishBackup(c) \/ CreateFails(c) \/ \E p \in Paths : BeginBackup(c, p)
        PROVE  OtherTypes'
    BY <2>4 DEF FinishBackup, CreateFails, BeginBackup, operator, OtherTypes
  <2>5. CASE ProvisionTarget \/ Resume
    BY <2>5 DEF ProvisionTarget, Resume, OtherTypes
  <2>6. ASSUME NEW p \in Paths, RestoreBackup(p)
        PROVE  OtherTypes'
    BY <2>6 DEF RestoreBackup, OtherTypes
  <2>7. CASE UNCHANGED vars
    BY <2>7 DEF vars, operator, OtherTypes
  <2> QED
    BY <2>1, <2>2, <2>3, <2>4, <2>5, <2>6, <2>7 DEF Next
<1>3. OriginInv /\ OtherTypes => TypeOK
  BY DEF OriginInv, StrandingInv, RecoveryInv, Types, Origins, MessageTypes, OtherTypes, TypeOK
<1> QED
  BY <1>1, <1>2, <1>3, OriginInit, OriginNext, PTL DEF Spec

-------------------------------------------------------------------------------
(* A path is in use by one create command at a time.                       *)
NoSharedPath ==
  \A c \in Creators, d \in Creators :
    dumps[c].path # NoPath /\ dumps[c].path = dumps[d].path => c = d

(* A dump was begun at a path that was free, and with the path to itself   *)
(* finds it free at the end.                                               *)
PathsFree == \A c \in Creators : dumps[c].path # NoPath => ~backups[dumps[c].path].present

(* "mv" replaces an existing backup in one case alone: two create commands *)
(* were given the same path at the same time.  While paths are not shared, *)
(* the check that comes long before the rename is enough, whatever fails,  *)
(* is lost or is restored in between.                                      *)
THEOREM OnlySharedPathsAreOverwritten == Spec /\ []NoSharedPath => BackupsStay
<1> DEFINE DumpTypes ==
      /\ dumps \in [Creators -> [path : Paths \cup {NoPath}, tables : TableStates]]
      /\ backups \in [Paths -> [tables : TableStates, jobSeq : 0..MaxJobs, present : BOOLEAN]]
<1>1. Init => PathsFree
  BY DEF Init, PathsFree, NoDump
<1>2. OriginInv => DumpTypes
  BY DEF OriginInv, StrandingInv, RecoveryInv, Types
<1>3. ASSUME DumpTypes, NoSharedPath, PathsFree, [Next]_vars
      PROVE  PathsFree' /\ \A p \in Paths : backups[p].present => backups'[p] = backups[p]
  <2>0. NoPath \notin Paths
    BY BoundAssumption DEF Paths, NoPath
  <2>1. CASE UNCHANGED <<dumps, backups>>
    BY <1>3, <2>1 DEF PathsFree
  <2>2. ASSUME NEW c \in Creators, NEW p \in Paths, BeginBackup(c, p)
        PROVE  PathsFree' /\ UNCHANGED backups
    <3>1. /\ ~backups[p].present /\ UNCHANGED backups
          /\ dumps' = [dumps EXCEPT ![c] = [path |-> p, tables |-> tables]]
      BY <2>2 DEF BeginBackup
    <3> QED
      BY <1>3, <3>1 DEF PathsFree
  <2>3. ASSUME NEW c \in Creators, CreateFails(c)
        PROVE  PathsFree' /\ UNCHANGED backups
    BY <1>3, <2>3 DEF CreateFails, PathsFree, NoDump
  <2>4. ASSUME NEW c \in Creators, FinishBackup(c)
        PROVE  PathsFree' /\ \A p \in Paths : backups[p].present => backups'[p] = backups[p]
    <3>1. PICK q \in Paths : q = dumps[c].path
      BY <1>3, <2>4 DEF FinishBackup
    <3>2. PICK b : backups' = [backups EXCEPT ![q] = b]
      BY <2>4, <3>1 DEF FinishBackup
    <3>3. dumps' = [dumps EXCEPT ![c] = NoDump] /\ ~backups[q].present
      BY <1>3, <2>0, <2>4, <3>1 DEF FinishBackup, PathsFree
    <3>4. ASSUME NEW d \in Creators, dumps'[d].path # NoPath
          PROVE  ~backups'[dumps'[d].path].present
      <4>1. d # c
        BY <1>3, <3>3, <3>4 DEF NoDump
      <4>2. dumps'[d] = dumps[d] /\ dumps[d].path # q
        BY <1>3, <2>0, <3>1, <3>3, <3>4, <4>1 DEF NoSharedPath
      <4> QED
        BY <1>3, <3>2, <3>4, <4>2 DEF PathsFree
    <3> QED
      BY <1>3, <3>2, <3>3, <3>4 DEF PathsFree
  <2>5. UNCHANGED <<dumps, backups>> \/
        \E c \in Creators : FinishBackup(c) \/ CreateFails(c) \/ \E p \in Paths : BeginBackup(c, p)
    BY <1>3 DEF Next, PublisherStep, Publish, MarkOutboxPublished, CrashAPI, CreateWorkItem, BeginAccept,
                CommitAccept, WorkerStep, HandleMessage, SettleDelivery, SessionEnds, ProvisionTarget,
                Resume, RestoreBackup, vars
  <2> QED
    BY <2>1, <2>2, <2>3, <2>4, <2>5
<1>4. OriginInv /\ NoSharedPath /\ PathsFree /\ [Next]_vars =>
        PathsFree' /\ [\A p \in Paths : backups[p].present => backups'[p] = backups[p]]_vars
  BY <1>2, <1>3
<1> QED
  BY <1>1, <1>4, OriginInit, OriginNext, PTL DEF Spec, BackupsStay

-------------------------------------------------------------------------------
(* Each history keeps the contract of processing *)

(* A job without a row has no item, in the database and in every file.     *)
Blank(t) == \A j \in Jobs : t.jobState[j] = "none" => t.jobItem[j] = NoItem

BlankRows ==
  /\ Blank(tables)
  /\ \A c \in Creators : Blank(dumps[c].tables)
  /\ \A p \in Paths : Blank(backups[p].tables)

Restart == ProvisionTarget \/ \E p \in Paths : RestoreBackup(p)

ContractStays == UNCHANGED Contract!contractVars

(* What the contract sees of tables is their items, jobs and states.       *)
LEMMA SameContract ==
  ASSUME UNCHANGED <<tables.jobState, tables.jobItem>>,
         \A i \in Items : tables'.status[i] = "absent" <=> tables.status[i] = "absent"
  PROVE  ContractStays
<1>1. {i \in Items : tables.status[i] # "absent"}' = {i \in Items : tables.status[i] # "absent"}
  OBVIOUS
<1>2. UNCHANGED [j \in Jobs |-> IF tables.jobState[j] = "succeeded" THEN 1 ELSE 0]
  OBVIOUS
<1> QED
  BY <1>1, <1>2 DEF ContractStays, Contract!contractVars

LEMMA CreateKeeps ==
  ASSUME OriginInv, Blank(tables), NEW i \in Items, CreateWorkItem(i)
  PROVE  Contract!Next /\ Blank(tables)'
<1>1. /\ tables \in TableStates /\ tables.status[i] = "absent"
      /\ tables' = [tables EXCEPT !.status = [tables.status EXCEPT ![i] = "pending"]]
  BY DEF CreateWorkItem, OriginInv, StrandingInv, RecoveryInv, Types
<1>2. /\ tables'.status = [tables.status EXCEPT ![i] = "pending"]
      /\ tables'.jobState = tables.jobState /\ tables'.jobItem = tables.jobItem
  BY <1>1 DEF TableStates
<1>3. {k \in Items : tables'.status[k] # "absent"} = {k \in Items : tables.status[k] # "absent"} \cup {i}
  BY <1>1, <1>2 DEF TableStates
<1>4. UNCHANGED [j \in Jobs |-> IF tables.jobState[j] = "succeeded" THEN 1 ELSE 0]
  BY <1>2
<1>5. Contract!Create(i)
  BY <1>1, <1>2, <1>3, <1>4 DEF Contract!Create
<1> QED
  BY <1>2, <1>5 DEF Contract!Next, Blank

(* The item's lock, held since the check, keeps the item without an active *)
(* and, as it is pending, without a successful job; blank rows are of no   *)
(* item.                                                                   *)
LEMMA CommitKeeps ==
  ASSUME OriginInv, Blank(tables), NEW i \in Items, CommitAccept(i)
  PROVE  (Contract!Next \/ ContractStays) /\ Blank(tables)'
<1> DEFINE j == accepting[i]
<1>1. /\ j \in Jobs /\ tables \in TableStates /\ tables.status[i] = "pending" /\ Active(i) = {}
      /\ Success(tables)
  BY DEF CommitAccept, OriginInv, StrandingInv, RecoveryInv, Types, AcceptancesHold, Well
<1>2. CASE tables.jobState[j] = "none"
  <2>1. tables' = [tables EXCEPT !.jobState = [tables.jobState EXCEPT ![j] = "accepted"],
                                 !.jobItem = [tables.jobItem EXCEPT ![j] = i],
                                 !.outbox = [tables.outbox EXCEPT ![j] = "unpublished"],
                                 !.born = [tables.born EXCEPT ![j] = history]]
    BY <1>1, <1>2 DEF CommitAccept, TableStates
  <2>2. /\ tables'.status = tables.status
        /\ tables'.jobState = [tables.jobState EXCEPT ![j] = "accepted"]
        /\ tables'.jobItem = [tables.jobItem EXCEPT ![j] = i]
    BY <1>1, <2>1 DEF TableStates
  <2> HIDE DEF j
  <2>3. \A k \in Jobs : tables.jobItem[k] # i
    <3> SUFFICES ASSUME NEW k \in Jobs, tables.jobItem[k] = i
                 PROVE  FALSE
      OBVIOUS
    <3>1. tables.jobState[k] # "none"
      BY ItemAssumption DEF Blank
    <3>2. tables.jobState[k] # "accepted"
      BY <1>1 DEF Active
    <3>3. tables.jobState[k] # "succeeded"
      BY <1>1, JobsAreNumbers DEF Success
    <3> QED
      BY <1>1, <3>1, <3>2, <3>3 DEF TableStates
  <2>4. UNCHANGED [k \in Jobs |-> IF tables.jobState[k] = "succeeded" THEN 1 ELSE 0]
    BY <1>1, <1>2, <2>2 DEF TableStates
  <2>5. Contract!Accept(i, j)
    BY <1>1, <1>2, <2>2, <2>3, <2>4 DEF Contract!Accept, Contract!Jobs, Jobs
  <2>6. Blank(tables)'
    BY <1>1, <2>2 DEF Blank, TableStates
  <2> QED
    BY <1>1, <2>5, <2>6 DEF Contract!Next, Contract!Jobs, Jobs
<1>3. CASE tables.jobState[j] # "none"
  <2>1. UNCHANGED tables
    BY <1>3 DEF CommitAccept
  <2> QED
    BY <2>1, SameContract DEF Blank
<1> QED
  BY <1>2, <1>3

LEMMA HandleKeeps ==
  ASSUME OriginInv, Blank(tables), NEW w \in Workers, HandleMessage(w)
  PROVE  (Contract!Next \/ ContractStays) /\ Blank(tables)'
<1>1. CASE UNCHANGED tables
  BY <1>1, SameContract DEF Blank
<1>2. CASE \E j \in Jobs : Completable(j) /\ CompleteProcessingJob(j)
  <2>1. PICK j \in Jobs : Completable(j) /\ CompleteProcessingJob(j)
    BY <1>2
  <2> DEFINE i == tables.jobItem[j]
  <2>2. /\ tables \in TableStates /\ i \in Items
        /\ tables.jobState[j] = "accepted" /\ tables.status[i] = "pending"
    BY <2>1 DEF OriginInv, StrandingInv, RecoveryInv, Types, Well, JobsExist, Completable
  <2>3. /\ tables'.status = [tables.status EXCEPT ![i] = "done"]
        /\ tables'.jobState = [tables.jobState EXCEPT ![j] = "succeeded"]
        /\ tables'.jobItem = tables.jobItem
    BY <2>1, <2>2 DEF CompleteProcessingJob, TableStates
  <2> HIDE DEF i
  <2>4. {k \in Items : tables'.status[k] # "absent"} = {k \in Items : tables.status[k] # "absent"}
    BY <2>2, <2>3 DEF TableStates
  <2> DEFINE spent == [k \in Jobs |-> IF tables.jobState[k] = "succeeded" THEN 1 ELSE 0]
  <2>5. spent' = [spent EXCEPT ![j] = spent[j] + 1]
    <3>1. spent[j] + 1 = 1
      BY <2>2
    <3> QED
      BY <2>2, <2>3, <3>1 DEF TableStates
  <2>6. Contract!Succeed(j)
    BY <2>2, <2>3, <2>4, <2>5 DEF Contract!Succeed
  <2>7. Blank(tables)'
    BY <2>2, <2>3 DEF Blank, TableStates
  <2> QED
    BY <2>6, <2>7 DEF Contract!Next, Contract!Jobs, Jobs
<1> QED
  BY <1>1, <1>2 DEF HandleMessage, Completing

(* Whatever is lost, restored or delivered late, between two restores each *)
(* step of the database is one the contract of processing allows: items    *)
(* are created once, one job at a time is accepted for an item, none after *)
(* a success, and a job succeeds once.                                     *)
THEOREM HistoriesKeepTheContract == Spec => HistoriesKeepContract
<1>1. Init => BlankRows
  <2>1. Blank(EmptyTables)
    BY DEF Blank, EmptyTables
  <2> QED
    BY <2>1 DEF Init, BlankRows, NoDump, NoBackup
<1>2. ASSUME OriginInv, BlankRows, [Next]_vars
      PROVE  BlankRows' /\ (Contract!Next \/ ContractStays \/ Restart)
  <2>0. /\ Types /\ Blank(EmptyTables)
    BY <1>2 DEF OriginInv, StrandingInv, RecoveryInv, Blank, EmptyTables
  <2>1. CASE (Contract!Next \/ ContractStays) /\ Blank(tables)' /\ UNCHANGED <<dumps, backups>>
    BY <1>2, <2>1 DEF BlankRows
  <2>2. CASE UNCHANGED <<tables, dumps, backups>>
    BY <1>2, <2>2, SameContract DEF BlankRows
  <2>3. CASE \E i \in Items : CreateWorkItem(i) \/ CommitAccept(i)
    BY <1>2, <2>1, <2>3, CreateKeeps, CommitKeeps DEF BlankRows, CreateWorkItem, CommitAccept
  <2>4. CASE MarkOutboxPublished \/ \E i \in Items : BeginAccept(i)
    <3>1. /\ tables'.status = tables.status
          /\ tables'.jobState = tables.jobState /\ tables'.jobItem = tables.jobItem
      BY <2>0, <2>4 DEF MarkOutboxPublished, BeginAccept, Types, TableStates
    <3>2. UNCHANGED <<dumps, backups>> /\ Blank(tables)'
      BY <1>2, <2>4, <3>1 DEF MarkOutboxPublished, BeginAccept, BlankRows, Blank
    <3> QED
      BY <2>1, <3>1, <3>2, SameContract
  <2>5. CASE \E w \in Workers : HandleMessage(w)
    BY <1>2, <2>1, <2>5, HandleKeeps DEF BlankRows, HandleMessage
  <2>6. ASSUME NEW c \in Creators, FinishBackup(c) \/ CreateFails(c) \/ \E p \in Paths : BeginBackup(c, p)
        PROVE  BlankRows' /\ ContractStays
    <3>1. UNCHANGED tables
      BY <2>6 DEF FinishBackup, CreateFails, BeginBackup, system
    <3>2. \A d \in Creators : Blank(dumps'[d].tables)
      BY <1>2, <2>0, <2>6 DEF FinishBackup, CreateFails, BeginBackup, BlankRows, NoDump, Types
    <3>3. \A p \in Paths : Blank(backups'[p].tables)
      BY <1>2, <2>0, <2>6 DEF FinishBackup, CreateFails, BeginBackup, BlankRows, Types
    <3> QED
      BY <1>2, <3>1, <3>2, <3>3, SameContract DEF BlankRows
  <2>7. CASE Restart
    BY <1>2, <2>0, <2>7 DEF Restart, ProvisionTarget, RestoreBackup, BlankRows
  <2>8. ASSUME ~Restart, ~MarkOutboxPublished,
               \A i \in Items : ~CreateWorkItem(i) /\ ~BeginAccept(i) /\ ~CommitAccept(i),
               \A w \in Workers : ~HandleMessage(w),
               \A c \in Creators : ~FinishBackup(c) /\ ~CreateFails(c) /\ \A p \in Paths : ~BeginBackup(c, p)
        PROVE  UNCHANGED <<tables, dumps, backups>>
    BY <1>2, <2>8 DEF Restart, Next, PublisherStep, Publish, CrashAPI, WorkerStep, SettleDelivery, SessionEnds,
                      Resume, vars, system
  <2> QED
    BY <2>2, <2>3, <2>4, <2>5, <2>6, <2>7, <2>8
<1>3. OriginInv /\ BlankRows /\ [Next]_vars =>
        BlankRows' /\ [Contract!Next \/ ProvisionTarget \/ \E p \in Paths : RestoreBackup(p)]_(Contract!contractVars)
  BY <1>2 DEF Restart, ContractStays
<1> QED
  BY <1>1, <1>3, OriginInit, OriginNext, PTL DEF Spec, HistoriesKeepContract
===============================================================================
