------------------------------ MODULE WebProcess ------------------------------
(***************************************************************************)
(* Browser pages at work on the list of Work Items: loading it, creating   *)
(* items, and processing one, which is to submit it, to follow its job by  *)
(* polling and to refresh the list.  The pages share one API with other    *)
(* clients, and workers resolve its jobs meanwhile; the API and the        *)
(* workers behave as ProcessingContract says.                              *)
(*                                                                         *)
(* A request is served at one moment and its answer is applied at a later  *)
(* one, or it fails before or after it was served.                         *)
(***************************************************************************)
EXTENDS Naturals

CONSTANTS Pages,         \* bound: pages open at once
          Items, NoItem, MaxJobs, MaxAttempts,
          PollAttempts,  \* processingPollAttempts
          NoCall,        \* no request is under way
          Sent           \* a request is

ASSUME PollAttemptsAssumption == PollAttempts \in Nat \ {0}
ASSUME MaxAttemptsAssumption == MaxAttempts \in Nat \ {0}
ASSUME CallAssumption == Sent # NoCall

VARIABLES
  created, jobItem, jobState, attempts,  \* the API and its workers
  rows,      \* items: the rows of the table
  loading,
  step,      \* where handleProcess is
  target,    \* processingItemID
  job,       \* the identity of currentJob, 0 if there is none
  shown,     \* jobsByItemID
  polls,     \* attempt
  error,
  call       \* a page's requests, or their answers

server == <<created, jobItem, jobState, attempts>>
handler == <<step, target, job, polls>>
page == <<rows, loading, shown, error>>
vars == <<server, handler, page, call>>

Jobs == 1..MaxJobs
API == INSTANCE ProcessingContract

Tasks == {"load", "create", "process"}
Rows == Items \X {"pending", "done"}
JobStates == {"accepted", "succeeded", "failed"}
JobViews == [job : Jobs, state : JobStates]
NoJob == [job |-> 0, state |-> "none"]

Listed(list) == [code |-> "ok", rows |-> list]
Created(i) == [code |-> "ok", item |-> i]
Job(j) == [code |-> "ok", view |-> [job |-> j, state |-> jobState[j]]]
Active(j) == [code |-> "processing_already_active", job |-> j]
AlreadyDone == [code |-> "work_item_already_done"]
Failed == [code |-> "failed"]

Answers == {Failed, AlreadyDone}
           \cup [code : {"ok"}, rows : SUBSET Rows] \cup [code : {"ok"}, item : Items]
           \cup [code : {"ok"}, view : JobViews]
           \cup [code : {"processing_already_active"}, job : Jobs]

TypeOK ==
  /\ created \subseteq Items
  /\ jobItem \in [Jobs -> Items \cup {NoItem}]
  /\ jobState \in [Jobs -> JobStates \cup {"none"}]
  /\ attempts \in [Jobs -> 0..MaxAttempts]
  /\ rows \in [Pages -> SUBSET Rows]
  /\ loading \in [Pages -> BOOLEAN]
  /\ step \in [Pages -> {"idle", "submit", "readActive", "wait", "poll", "refresh", "refreshDone"}]
  /\ target \in [Pages -> Items \cup {NoItem}]
  /\ job \in [Pages -> Jobs \cup {0}]
  /\ shown \in [Pages -> [Items -> JobViews \cup {NoJob}]]
  /\ polls \in [Pages -> 0..PollAttempts - 1]
  /\ error \in [Pages -> {"none", "failed", "processing_job_timeout"}]
  /\ \A p \in Pages, t \in Tasks : call[p][t] \in {NoCall, Sent} \cup Answers

Init ==
  /\ API!Init
  /\ rows = [p \in Pages |-> {}]
  /\ loading = [p \in Pages |-> TRUE]
  /\ step = [p \in Pages |-> "idle"]
  /\ target = [p \in Pages |-> NoItem]
  /\ job = [p \in Pages |-> 0]
  /\ shown = [p \in Pages |-> [i \in Items |-> NoJob]]
  /\ polls = [p \in Pages |-> 0]
  /\ error = [p \in Pages |-> "none"]
  /\ call = [p \in Pages |-> [t \in Tasks |-> IF t = "load" THEN Sent ELSE NoCall]]

Set(f, p, value) == [f EXCEPT ![p] = value]
Calling(p, t, value) == call' = [call EXCEPT ![p][t] = value]

-------------------------------------------------------------------------------
(* The API serves the requests; the workers resolve jobs *)

Served(p, t, answer) == Calling(p, t, answer) /\ UNCHANGED <<handler, page>>

JobsOf(i) == {j \in Jobs : jobItem[j] = i}

(* A variant of ActiveJobs that forgets the condition on the item. *)
AllActiveJobs(i) == {j \in Jobs : jobState[j] = "accepted"}

ActiveJobs(i) == {j \in JobsOf(i) : jobState[j] = "accepted"}

Done(i) == \E j \in JobsOf(i) : jobState[j] = "succeeded"

ListWorkItems == {<<i, IF Done(i) THEN "done" ELSE "pending">> : i \in created}

ServeList(p, t) ==
  /\ call[p][t] = Sent
  /\ t = "load" \/ (t = "process" /\ step[p] \in {"refresh", "refreshDone"})
  /\ Served(p, t, Listed(ListWorkItems))
  /\ UNCHANGED server

ServeCreate(p) ==
  /\ call[p]["create"] = Sent
  /\ \E i \in Items : API!Create(i) /\ Served(p, "create", Created(i))

ServeProcess(p) ==
  LET i == target[p] IN
  /\ step[p] = "submit" /\ call[p]["process"] = Sent
  /\ \/ /\ Done(i)
        /\ Served(p, "process", AlreadyDone) /\ UNCHANGED server
     \/ /\ ~Done(i)
        /\ \E j \in ActiveJobs(i) : Served(p, "process", Active(j))
        /\ UNCHANGED server
     \/ \E j \in Jobs :
          /\ API!Accept(i, j)
          /\ Served(p, "process",
                    [code |-> "ok", view |-> [job |-> j, state |-> "accepted"]])

ServeJob(p) ==
  /\ step[p] \in {"readActive", "poll"} /\ call[p]["process"] = Sent
  /\ Served(p, "process", Job(job[p]))
  /\ UNCHANGED server

(* A request is lost or refused, or the answer to a served one is.         *)
RequestFails(p, t) ==
  /\ call[p][t] \notin {NoCall, Failed}
  /\ Served(p, t, Failed)
  /\ UNCHANGED server

(* Workers resolve jobs, other clients create and process items.           *)
Elsewhere ==
  /\ API!Next
  /\ UNCHANGED <<handler, page, call>>

-------------------------------------------------------------------------------
(* loadItems and handleCreate *)

(* Opening or reloading the page starts from nothing. *)
Reload(p) ==
  /\ rows' = Set(rows, p, {}) /\ loading' = Set(loading, p, TRUE)
  /\ step' = Set(step, p, "idle") /\ target' = Set(target, p, NoItem)
  /\ job' = Set(job, p, 0) /\ polls' = Set(polls, p, 0)
  /\ shown' = Set(shown, p, [i \in Items |-> NoJob])
  /\ error' = Set(error, p, "none")
  /\ call' = [call EXCEPT ![p] = [t \in Tasks |-> IF t = "load" THEN Sent ELSE NoCall]]
  /\ UNCHANGED server

Arrived(p, t) == call[p][t] \notin {NoCall, Sent}

LoadItems(p) ==
  LET answer == call[p]["load"] IN
  /\ Arrived(p, "load")
  /\ \/ answer = Failed /\ error' = Set(error, p, "failed") /\ UNCHANGED rows
     \/ answer # Failed /\ error' = Set(error, p, "none") /\ rows' = Set(rows, p, answer.rows)
  /\ loading' = Set(loading, p, FALSE)
  /\ Calling(p, "load", NoCall)
  /\ UNCHANGED <<server, handler, shown>>

(* The Create button is disabled while a creation is under way. *)
StartCreate(p) ==
  /\ call[p]["create"] = NoCall
  /\ Calling(p, "create", Sent)
  /\ UNCHANGED <<server, handler, page>>

(* The created item is appended to the rows; a failure stays in the dialog.*)
HandleCreate(p) ==
  LET answer == call[p]["create"] IN
  /\ Arrived(p, "create")
  /\ rows' = IF answer = Failed THEN rows
             ELSE Set(rows, p, rows[p] \cup {<<answer.item, "pending">>})
  /\ Calling(p, "create", NoCall)
  /\ UNCHANGED <<server, handler, loading, shown, error>>

-------------------------------------------------------------------------------
(* handleProcess *)

(* The Process button of a pending row, while no other item is processed   *)
(* and the table is shown.                                                 *)
StartProcess(p, i) ==
  /\ ~loading[p] /\ target[p] = NoItem
  /\ <<i, "pending">> \in rows[p]
  /\ target' = Set(target, p, i)
  /\ error' = Set(error, p, "none")
  /\ step' = Set(step, p, "submit")
  /\ Calling(p, "process", Sent)
  /\ UNCHANGED <<server, rows, loading, job, shown, polls>>

Remember(p, j, n) == job' = Set(job, p, j) /\ polls' = Set(polls, p, n)

Request(p, s) ==
  step' = Set(step, p, s) /\ Calling(p, "process", Sent) /\ UNCHANGED <<target, error>>

(* A variant of End that leaves the button disabled after an error. *)
EndHanging(p, e) ==
  /\ step' = Set(step, p, "idle")
  /\ target' = IF e = "none" THEN Set(target, p, NoItem) ELSE target
  /\ error' = Set(error, p, e)
  /\ Remember(p, 0, 0)
  /\ Calling(p, "process", NoCall)

End(p, e) ==
  /\ step' = Set(step, p, "idle") /\ target' = Set(target, p, NoItem)
  /\ error' = Set(error, p, e)
  /\ Remember(p, 0, 0)
  /\ Calling(p, "process", NoCall)

(* A variant of Follow with one poll too many. *)
FollowLonger(p, view, n) ==
  /\ shown' = [shown EXCEPT ![p][target[p]] = view]
  /\ \/ /\ view.state = "accepted" /\ n <= PollAttempts
        /\ step' = Set(step, p, "wait")
        /\ Remember(p, view.job, n)
        /\ Calling(p, "process", NoCall)
        /\ UNCHANGED <<target, error>>
     \/ view.state = "accepted" /\ n > PollAttempts /\ End(p, "processing_job_timeout")
     \/ view.state # "accepted" /\ Request(p, "refresh") /\ Remember(p, 0, 0)

(* An answer shows the state of the job: poll again, give up, or refresh.  *)
Follow(p, view, n) ==
  /\ shown' = [shown EXCEPT ![p][target[p]] = view]
  /\ \/ /\ view.state = "accepted" /\ n < PollAttempts
        /\ step' = Set(step, p, "wait")
        /\ Remember(p, view.job, n)
        /\ Calling(p, "process", NoCall)
        /\ UNCHANGED <<target, error>>
     \/ view.state = "accepted" /\ n >= PollAttempts /\ End(p, "processing_job_timeout")
     \/ view.state # "accepted" /\ Request(p, "refresh") /\ Remember(p, 0, 0)

(* A variant of DoneConflict that leaves the rows alone. *)
DoneConflictUnrefreshed(p) == End(p, "none")

DoneConflict(p) == Request(p, "refreshDone") /\ UNCHANGED <<job, polls>>

Submitted(p) ==
  LET answer == call[p]["process"] IN
  /\ step[p] = "submit"
  /\ \/ answer.code = "ok" /\ Follow(p, answer.view, 0)
     \/ /\ answer.code = "processing_already_active"
        /\ Remember(p, answer.job, 0)
        /\ Request(p, "readActive")
        /\ UNCHANGED shown
     \/ /\ answer = AlreadyDone
        /\ DoneConflict(p)
        /\ UNCHANGED shown
  /\ UNCHANGED rows

JobRead(p) ==
  LET answer == call[p]["process"] IN
  /\ step[p] \in {"readActive", "poll"} /\ answer.code = "ok"
  /\ Follow(p, answer.view, IF step[p] = "poll" THEN polls[p] + 1 ELSE 0)
  /\ UNCHANGED rows

Refreshed(p) ==
  LET answer == call[p]["process"] IN
  /\ step[p] \in {"refresh", "refreshDone"} /\ answer.code = "ok"
  /\ rows' = Set(rows, p, answer.rows)
  /\ End(p, "none")
  /\ UNCHANGED shown

Fails(p) ==
  /\ call[p]["process"] = Failed
  /\ End(p, "failed")
  /\ UNCHANGED <<rows, shown>>

HandleProcess(p) ==
  /\ Arrived(p, "process")
  /\ Submitted(p) \/ JobRead(p) \/ Refreshed(p) \/ Fails(p)
  /\ UNCHANGED <<server, loading>>

Poll(p) ==
  /\ step[p] = "wait"
  /\ Request(p, "poll")
  /\ UNCHANGED <<server, rows, loading, job, shown, polls>>

-------------------------------------------------------------------------------
Serve(p) == ServeProcess(p) \/ ServeJob(p) \/ ServeList(p, "process") \/ RequestFails(p, "process")
Progress(p) == Serve(p) \/ HandleProcess(p) \/ Poll(p)

Next ==
  \/ Elsewhere
  \/ \E p \in Pages :
       \/ Progress(p) \/ ServeList(p, "load") \/ ServeCreate(p)
       \/ RequestFails(p, "load") \/ RequestFails(p, "create")
       \/ Reload(p) \/ LoadItems(p) \/ StartCreate(p) \/ HandleCreate(p)
       \/ \E i \in Items : StartProcess(p, i)

Spec == Init /\ [][Next]_vars

(* A request is served or fails, and its answer is handled. *)
FairSpec == Spec /\ \A p \in Pages : WF_vars(Progress(p))

-------------------------------------------------------------------------------
(* Properties *)

(* Whatever is late, lost or overwritten, a page never claims more than    *)
(* the database holds: a done item is done, a job belongs to the item it   *)
(* is shown for, and its outcome is its outcome.                           *)
ShowsCommittedState ==
  \A p \in Pages, i \in Items :
    /\ <<i, "done">> \in rows[p] => Done(i)
    /\ LET view == shown[p][i] IN
       view # NoJob => /\ jobItem[view.job] = i
                       /\ view.state # "accepted" => jobState[view.job] = view.state

(* When processing ends on a page without an error, its table shows the    *)
(* item done, or the job it followed failed: also after it followed a job  *)
(* another page had submitted, or found the item done elsewhere.           *)
EndShowsOutcome ==
  [][\A p \in Pages : LET i == target[p] IN
       step[p] # "idle" /\ step'[p] = "idle" /\ error'[p] = "none" /\ ~loading'[p] =>
         \/ <<i, "done">> \in rows'[p] /\ <<i, "pending">> \notin rows'[p]
         \/ shown'[p][i].state = "failed"]_vars

(* The Process buttons are enabled again, whatever answers or does not.    *)
ProcessingEnds == \A p \in Pages : target[p] # NoItem ~> target[p] = NoItem

(* "Choose New Work Item, enter a title, and Create: the row appears":     *)
(* a row that is there stays as long as the page.                          *)
RowsStay ==
  [][\A p \in Pages :
       loading'[p] \/ {r[1] : r \in rows[p]} \subseteq {r[1] : r \in rows'[p]}]_vars
===============================================================================
