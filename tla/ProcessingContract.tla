-------------------------- MODULE ProcessingContract --------------------------
(***************************************************************************)
(* What the asynchronous processing of Work Items promises, whatever the   *)
(* outbox, the broker and the workers do in between.  A Work Item is       *)
(* created once.  A processing job may be accepted for it only while it    *)
(* has neither an active nor a successful job.  An accepted job spends     *)
(* processing attempts until it succeeds or its retry budget is used up,   *)
(* and a terminal job never changes again.                                 *)
(*                                                                         *)
(* The contract knows no transactions, messages, duplicates or crashes:    *)
(* the modules that have them are shown to implement it.                   *)
(***************************************************************************)
EXTENDS Naturals

CONSTANTS Items,        \* work item identities
          NoItem,       \* the item of a job that was never accepted
          MaxJobs,      \* bound: identities the job sequence hands out
          MaxAttempts   \* workerProcessingMaxAttempts

Jobs == 1..MaxJobs

VARIABLES created,      \* items that exist
          jobItem,      \* the item each job was accepted for
          jobState,     \* processing_jobs.state
          attempts      \* processing_jobs.attempt_count

contractVars == <<created, jobItem, jobState, attempts>>

Init == /\ created = {}
        /\ jobItem = [j \in Jobs |-> NoItem]
        /\ jobState = [j \in Jobs |-> "none"]
        /\ attempts = [j \in Jobs |-> 0]

Create(i) == /\ i \notin created
             /\ created' = created \cup {i}
             /\ UNCHANGED <<jobItem, jobState, attempts>>

(* A job is accepted for an item that has no active and no successful job. *)
Accept(i, j) ==
  /\ i \in created
  /\ jobState[j] = "none"
  /\ \A k \in Jobs : jobItem[k] = i => jobState[k] = "failed"
  /\ jobState' = [jobState EXCEPT ![j] = "accepted"]
  /\ jobItem' = [jobItem EXCEPT ![j] = i]
  /\ UNCHANGED <<created, attempts>>

(* One attempt failed: the job stays active while budget remains. *)
FailAttempt(j) ==
  /\ jobState[j] = "accepted"
  /\ attempts' = [attempts EXCEPT ![j] = @ + 1]
  /\ jobState' = [jobState EXCEPT
                    ![j] = IF attempts[j] + 1 >= MaxAttempts THEN "failed" ELSE "accepted"]
  /\ UNCHANGED <<created, jobItem>>

Succeed(j) ==
  /\ jobState[j] = "accepted"
  /\ attempts' = [attempts EXCEPT ![j] = @ + 1]
  /\ jobState' = [jobState EXCEPT ![j] = "succeeded"]
  /\ UNCHANGED <<created, jobItem>>

Next == \/ \E i \in Items : Create(i)
        \/ \E i \in Items, j \in Jobs : Accept(i, j)
        \/ \E j \in Jobs : FailAttempt(j) \/ Succeed(j)

(* Every accepted job is eventually attempted again, so eventually resolved. *)
Fairness == \A j \in Jobs : WF_contractVars(FailAttempt(j) \/ Succeed(j))

Safety == Init /\ [][Next]_contractVars
Spec == Safety /\ Fairness
===============================================================================
