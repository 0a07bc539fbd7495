---------------------------- MODULE WebProcessProofs ----------------------------
(***************************************************************************)
(* A page shows nothing the database does not hold, and processing that    *)
(* ends without an error shows its outcome, for any number of pages,       *)
(* items, jobs, attempts and polls.                                        *)
(***************************************************************************)
EXTENDS WebProcess, TLAPS

ServerInv ==
  /\ created \subseteq Items
  /\ jobItem \in [Jobs -> Items \cup {NoItem}]
  /\ jobState \in [Jobs -> JobStates \cup {"none"}]
  /\ \A j \in Jobs : jobState[j] # "none" => jobItem[j] \in created

(* What stays true of the server once it was: which item a job is for, the *)
(* outcome of a job, that an item is done.                                 *)
Known(j, i) == j \in Jobs /\ jobState[j] # "none" /\ jobItem[j] = i

TrueView(view, i) ==
  Known(view.job, i) /\ (view.state # "accepted" => jobState[view.job] = view.state)

TrueList(list) == \A i \in Items : <<i, "done">> \in list => Done(i)

(* Page variables have a cell for each page, and cells their own cells.    *)
Cells ==
  /\ rows = [p \in Pages |-> rows[p]]
  /\ loading = [p \in Pages |-> loading[p]]
  /\ step = [p \in Pages |-> step[p]]
  /\ target = [p \in Pages |-> target[p]]
  /\ job = [p \in Pages |-> job[p]]
  /\ error = [p \in Pages |-> error[p]]
  /\ shown = [p \in Pages |-> [i \in Items |-> shown[p][i]]]
  /\ call = [p \in Pages |-> [t \in Tasks |-> call[p][t]]]

HasFailed(p) == shown[p][target[p]].state = "failed"

Refreshing(p) == step[p] \in {"refresh", "refreshDone"}

(* What the answer to the request of handleProcess says is true.           *)
TrueAnswer(p) ==
  LET answer == call[p]["process"] IN
  /\ answer.code = "ok" /\ step[p] \in {"submit", "readActive", "poll"} => TrueView(answer.view, target[p])
  /\ answer.code = "processing_already_active" /\ step[p] = "submit" => Known(answer.job, target[p])
  /\ answer = AlreadyDone /\ step[p] = "submit" => Done(target[p])
  /\ answer.code = "ok" /\ Refreshing(p) =>
       /\ TrueList(answer.rows)
       /\ \/ HasFailed(p)
          \/ <<target[p], "done">> \in answer.rows /\ <<target[p], "pending">> \notin answer.rows

(* Rows, views and answers are true, processing has an item and follows    *)
(* one of its jobs, and refreshes only once the outcome is there.          *)
PageInv(p) ==
  /\ TrueList(rows[p])
  /\ \A i \in Items : shown[p][i] # NoJob => TrueView(shown[p][i], i)
  /\ Arrived(p, "load") /\ call[p]["load"] # Failed => TrueList(call[p]["load"].rows)
  /\ step[p] # "idle" => target[p] \in Items
  /\ step[p] \in {"readActive", "wait", "poll"} => Known(job[p], target[p])
  /\ Refreshing(p) => Done(target[p]) \/ HasFailed(p)
  /\ Arrived(p, "process") => TrueAnswer(p)

WebInv == ServerInv /\ Cells /\ \A p \in Pages : PageInv(p)

-------------------------------------------------------------------------------
(* The server *)

ServerStep == API!Next \/ UNCHANGED server

LEMMA ServerKeeps ==
  ASSUME ServerInv, ServerStep
  PROVE  /\ ServerInv'
         /\ \A j, i : Known(j, i) => Known(j, i)'
         /\ \A j \in Jobs : jobState[j] \in {"succeeded", "failed"} => jobState'[j] = jobState[j]
<1> USE DEF ServerInv, Known
<1>1. CASE UNCHANGED server
  BY <1>1 DEF server
<1>2. ASSUME NEW i \in Items, API!Create(i)
      PROVE  /\ created' = created \cup {i} /\ jobItem' = jobItem /\ jobState' = jobState
  BY <1>2 DEF API!Create
<1>3. ASSUME NEW i \in Items, NEW j \in Jobs, API!Accept(i, j)
      PROVE  /\ i \in created /\ created' = created /\ jobState[j] = "none"
             /\ jobState' = [jobState EXCEPT ![j] = "accepted"]
             /\ jobItem' = [jobItem EXCEPT ![j] = i]
  BY <1>3 DEF API!Accept
<1>4. ASSUME NEW j \in Jobs, API!FailAttempt(j) \/ API!Succeed(j)
      PROVE  /\ created' = created /\ jobItem' = jobItem /\ jobState[j] = "accepted"
             /\ \E s \in JobStates : jobState' = [jobState EXCEPT ![j] = s]
  BY <1>4 DEF API!FailAttempt, API!Succeed, JobStates
<1>5. \/ UNCHANGED server
      \/ \E i \in Items : API!Create(i)
      \/ \E i \in Items, j \in Jobs : API!Accept(i, j)
      \/ \E j \in Jobs : API!FailAttempt(j) \/ API!Succeed(j)
  BY DEF ServerStep, API!Next, API!Jobs, Jobs
<1>6. CASE \E i \in Items : API!Create(i)
  BY <1>2, <1>6
<1>7. CASE \E i \in Items, j \in Jobs : API!Accept(i, j)
  BY <1>3, <1>7 DEF JobStates
<1>8. CASE \E j \in Jobs : API!FailAttempt(j) \/ API!Succeed(j)
  BY <1>4, <1>8 DEF JobStates
<1> QED
  BY <1>1, <1>5, <1>6, <1>7, <1>8

LEMMA TruthStays ==
  ASSUME ServerInv, ServerStep
  PROVE  /\ \A i : Done(i) => Done(i)'
         /\ \A list : TrueList(list) => TrueList(list)'
         /\ \A view, i : TrueView(view, i) => TrueView(view, i)'
<1> USE ServerKeeps
<1>1. \A i : Done(i) => Done(i)'
  BY DEF Done, JobsOf, Known, ServerInv
<1>2. \A view, i : TrueView(view, i) => TrueView(view, i)'
  <2> SUFFICES ASSUME NEW view, NEW i, TrueView(view, i)
               PROVE  TrueView(view, i)'
    OBVIOUS
  <2>1. Known(view.job, i)'
    BY DEF TrueView
  <2>2. CASE view.state = "accepted"
    BY <2>1, <2>2 DEF TrueView
  <2>3. CASE view.state # "accepted"
    BY <2>1, <2>3 DEF TrueView, Known, ServerInv, JobStates
  <2> QED
    BY <2>2, <2>3
<1> QED
  BY <1>1, <1>2 DEF TrueList

(* A list says of each item there is what it is. *)
LEMMA ListIsTrue ==
  ASSUME ServerInv
  PROVE  /\ TrueList(ListWorkItems)
         /\ \A i \in Items : Done(i) => <<i, "done">> \in ListWorkItems /\ <<i, "pending">> \notin ListWorkItems
BY DEF ServerInv, TrueList, ListWorkItems, Done, JobsOf

-------------------------------------------------------------------------------
(* One page steps, the others stay. *)

SameCells(q) ==
  /\ rows'[q] = rows[q] /\ step'[q] = step[q] /\ target'[q] = target[q]
  /\ job'[q] = job[q] /\ shown'[q] = shown[q] /\ call'[q] = call[q]

LEMMA PageStays ==
  ASSUME ServerInv, ServerStep, NEW q \in Pages, SameCells(q), PageInv(q)
  PROVE  PageInv(q)'
<1> USE ServerKeeps, TruthStays DEF SameCells, PageInv, Arrived, Refreshing, HasFailed
<1>1. Arrived(q, "process") => TrueAnswer(q)'
  BY DEF TrueAnswer
<1>2. /\ TrueList(rows[q])'
      /\ \A i \in Items : shown'[q][i] # NoJob => TrueView(shown[q][i], i)'
      /\ Arrived(q, "load") /\ call[q]["load"] # Failed => TrueList(call[q]["load"].rows)'
  OBVIOUS
<1> QED
  BY <1>1, <1>2

Frame(p) == \A q \in Pages \ {p} : SameCells(q)

LEMMA FrameSuffices ==
  ASSUME WebInv, ServerStep, NEW p \in Pages, Frame(p), Cells', PageInv(p)'
  PROVE  WebInv'
BY ServerKeeps, PageStays DEF WebInv, Frame

LEMMA CallSet ==
  ASSUME Cells, NEW p \in Pages, NEW t \in Tasks, NEW value, Calling(p, t, value)
  PROVE  /\ call' = [q \in Pages |-> [u \in Tasks |-> call'[q][u]]]
         /\ call'[p][t] = value
         /\ \A u \in Tasks \ {t} : call'[p][u] = call[p][u]
         /\ \A q \in Pages \ {p} : call'[q] = call[q]
<1>1. call' = [call EXCEPT ![p] = [call[p] EXCEPT ![t] = value]]
  BY DEF Calling
<1>2. /\ call = [q \in Pages |-> call[q]]
      /\ call[p] = [u \in Tasks |-> call[p][u]]
      /\ \A q \in Pages : call[q] = [u \in Tasks |-> call[q][u]]
  BY DEF Cells
<1>3. call'[p] = [call[p] EXCEPT ![t] = value]
  BY <1>1, <1>2
<1>4. \A q \in Pages \ {p} : call'[q] = call[q]
  BY <1>1, <1>2
<1>5. \A q \in Pages : call'[q] = [u \in Tasks |-> call'[q][u]]
  BY <1>2, <1>3, <1>4
<1>6. call' = [q \in Pages |-> call'[q]]
  BY <1>1, <1>2
<1> QED
  BY <1>2, <1>3, <1>4, <1>5, <1>6

(* An answer arrives, or a request is sent. *)
LEMMA AnswerStep ==
  ASSUME WebInv, ServerStep, NEW p \in Pages, NEW t \in Tasks, NEW answer,
         Calling(p, t, answer), UNCHANGED <<handler, page>>,
         t = "load" /\ answer \notin {NoCall, Sent, Failed} => TrueList(answer.rows)',
         t = "process" /\ answer \notin {NoCall, Sent} => TrueAnswer(p)'
  PROVE  WebInv'
<1> USE DEF WebInv
<1>1. UNCHANGED <<rows, loading, step, target, job, error, shown>>
  BY DEF handler, page
<1>2. /\ call' = [q \in Pages |-> [u \in Tasks |-> call'[q][u]]]
      /\ call'[p][t] = answer
      /\ \A u \in Tasks \ {t} : call'[p][u] = call[p][u]
      /\ \A q \in Pages \ {p} : call'[q] = call[q]
  BY CallSet
<1>3. Cells' /\ Frame(p)
  BY <1>1, <1>2 DEF Cells, Frame, SameCells
<1>4. PageInv(p)'
  <2> USE ServerKeeps, TruthStays
  <2>0. PageInv(p) /\ {"load", "process"} \subseteq Tasks
    BY DEF Tasks
  <2>1. Arrived(p, "load")' /\ call'[p]["load"] # Failed => TrueList(call[p]["load"].rows)'
    <3>1. CASE t = "load"
      BY <1>2, <3>1 DEF Arrived
    <3>2. CASE t # "load"
      BY <1>2, <2>0, <3>2 DEF Arrived, PageInv
    <3> QED
      BY <3>1, <3>2
  <2>2. Arrived(p, "process")' => TrueAnswer(p)'
    <3>1. CASE t = "process"
      BY <1>2, <3>1 DEF Arrived
    <3>2. CASE t # "process"
      BY <1>1, <1>2, <2>0, <3>2 DEF Arrived, PageInv, TrueAnswer, Refreshing, HasFailed
    <3> QED
      BY <3>1, <3>2
  <2>3. /\ TrueList(rows[p])'
        /\ \A i \in Items : shown'[p][i] # NoJob => TrueView(shown[p][i], i)'
        /\ step'[p] # "idle" => target'[p] \in Items
        /\ step'[p] \in {"readActive", "wait", "poll"} => Known(job[p], target[p])'
        /\ Refreshing(p)' => Done(target[p])' \/ HasFailed(p)'
    BY <1>1, <2>0 DEF PageInv, Refreshing, HasFailed
  <2> QED
    BY <2>1, <2>2, <2>3 DEF PageInv
<1> QED
  BY <1>3, <1>4, FrameSuffices

-------------------------------------------------------------------------------
(* The API answers. *)

LEMMA ElsewhereStep == ASSUME WebInv, Elsewhere PROVE WebInv'
<1>1. ServerStep /\ UNCHANGED <<rows, loading, step, target, job, error, shown, call>>
  BY DEF Elsewhere, ServerStep, handler, page
<1>2. Cells' /\ \A q \in Pages : SameCells(q)
  BY <1>1 DEF WebInv, Cells, SameCells
<1> QED
  BY <1>1, <1>2, ServerKeeps, PageStays DEF WebInv

LEMMA FailureStep ==
  ASSUME WebInv, NEW p \in Pages, NEW t \in Tasks, RequestFails(p, t)
  PROVE  WebInv'
<1>1. /\ ServerStep /\ Calling(p, t, Failed) /\ UNCHANGED <<handler, page>>
      /\ call'[p][t] = Failed
  BY CallSet DEF RequestFails, Served, ServerStep, WebInv
<1>2. t = "process" => TrueAnswer(p)'
  BY <1>1 DEF TrueAnswer, Failed, AlreadyDone
<1> QED
  BY <1>1, <1>2, AnswerStep

LEMMA ListStep ==
  ASSUME WebInv, NEW p \in Pages, NEW t \in {"load", "process"}, ServeList(p, t)
  PROVE  WebInv'
<1>1. PICK a : a = Listed(ListWorkItems)
  OBVIOUS
<1>2. /\ ServerStep /\ Calling(p, t, a) /\ UNCHANGED <<handler, page, server>>
      /\ call'[p][t] = a /\ t \in Tasks
      /\ t = "process" => Refreshing(p)
  BY <1>1, CallSet DEF ServeList, Served, ServerStep, WebInv, Tasks, Refreshing
<1>3. /\ a.code = "ok" /\ TrueList(a.rows)
      /\ \A i \in Items : Done(i) => <<i, "done">> \in a.rows /\ <<i, "pending">> \notin a.rows
  BY <1>1, ListIsTrue DEF Listed, WebInv
<1>4. TrueList(a.rows)'
  BY <1>2, <1>3, TruthStays DEF WebInv
<1>5. t = "process" => TrueAnswer(p)'
  <2> SUFFICES ASSUME t = "process"
               PROVE  TrueAnswer(p)'
    OBVIOUS
  <2>1. step'[p] \in {"refresh", "refreshDone"} /\ target'[p] = target[p] /\ shown' = shown
    BY <1>2 DEF Refreshing, handler, page
  <2>2. target[p] \in Items /\ (Done(target[p]) \/ HasFailed(p))
    BY <1>2, <2>1 DEF WebInv, PageInv, Refreshing, handler
  <2>3. HasFailed(p) => HasFailed(p)'
    BY <2>1 DEF HasFailed
  <2> QED
    BY <1>2, <1>3, <1>4, <2>1, <2>2, <2>3 DEF TrueAnswer, AlreadyDone
<1> QED
  BY <1>2, <1>4, <1>5, AnswerStep

LEMMA ServeCreateStep ==
  ASSUME WebInv, NEW p \in Pages, ServeCreate(p)
  PROVE  WebInv'
<1>1. PICK i \in Items : API!Create(i) /\ Served(p, "create", Created(i))
  BY DEF ServeCreate
<1>2. ServerStep
  BY <1>1 DEF ServerStep, API!Next
<1> QED
  BY <1>1, <1>2, AnswerStep DEF Served, Tasks

LEMMA ServeJobStep ==
  ASSUME WebInv, NEW p \in Pages, ServeJob(p)
  PROVE  WebInv'
<1>1. PICK a : a = Job(job[p])
  OBVIOUS
<1>2. /\ ServerStep /\ Calling(p, "process", a) /\ UNCHANGED <<handler, page, server>>
      /\ call'[p]["process"] = a /\ "process" \in Tasks
      /\ step[p] \in {"readActive", "poll"}
  BY <1>1, CallSet DEF ServeJob, Served, ServerStep, WebInv, Tasks
<1>3. Known(job[p], target[p]) /\ PageInv(p)
  BY <1>2 DEF WebInv, PageInv
<1>4. a.code = "ok" /\ TrueView(a.view, target[p])
  BY <1>1, <1>3 DEF Job, TrueView
<1>5. PICK i : i = target[p]
  OBVIOUS
<1>6. TrueView(a.view, i)'
  BY <1>2, <1>4, <1>5, TruthStays DEF WebInv
<1>7. TrueAnswer(p)'
  BY <1>2, <1>4, <1>5, <1>6 DEF TrueAnswer, handler, AlreadyDone, Refreshing
<1> QED
  BY <1>2, <1>7, AnswerStep

LEMMA ServeProcessStep ==
  ASSUME WebInv, NEW p \in Pages, ServeProcess(p)
  PROVE  WebInv'
<1>1. PICK i : i = target[p]
  OBVIOUS
<1>2. step[p] = "submit" /\ "process" \in Tasks
  BY DEF ServeProcess, Tasks
<1>3. CASE Done(i) /\ Served(p, "process", AlreadyDone) /\ UNCHANGED server
  <2>1. /\ ServerStep /\ Calling(p, "process", AlreadyDone) /\ UNCHANGED <<handler, page>>
        /\ call'[p]["process"] = AlreadyDone
    BY <1>2, <1>3, CallSet DEF Served, ServerStep, WebInv
  <2>2. Done(i)'
    BY <1>3, <2>1, TruthStays DEF WebInv
  <2>3. TrueAnswer(p)'
    BY <1>1, <1>2, <2>1, <2>2 DEF TrueAnswer, handler, AlreadyDone, Refreshing
  <2> QED
    BY <1>2, <2>1, <2>3, AnswerStep
<1>4. ASSUME NEW j \in ActiveJobs(i), Served(p, "process", Active(j)), UNCHANGED server
      PROVE  WebInv'
  <2>1. /\ ServerStep /\ Calling(p, "process", Active(j)) /\ UNCHANGED <<handler, page>>
        /\ call'[p]["process"] = Active(j)
    BY <1>2, <1>4, CallSet DEF Served, ServerStep, WebInv
  <2>2. Known(j, i)
    BY <1>4 DEF ActiveJobs, JobsOf, Known
  <2>3. Known(j, i)'
    BY <2>1, <2>2, ServerKeeps DEF WebInv
  <2>4. TrueAnswer(p)'
    BY <1>1, <1>2, <2>1, <2>3 DEF TrueAnswer, handler, Active, AlreadyDone, Refreshing
  <2> QED
    BY <1>2, <2>1, <2>4, AnswerStep
<1>5. ASSUME NEW j \in Jobs, API!Accept(i, j),
             Served(p, "process", [code |-> "ok", view |-> [job |-> j, state |-> "accepted"]])
      PROVE  WebInv'
  <2> DEFINE a == [code |-> "ok", view |-> [job |-> j, state |-> "accepted"]]
  <2>1. i \in Items
    BY <1>1, <1>2 DEF WebInv, PageInv
  <2>2. /\ ServerStep /\ Calling(p, "process", a) /\ UNCHANGED <<handler, page>>
        /\ call'[p]["process"] = a
    BY <1>2, <1>5, <2>1, CallSet DEF Served, ServerStep, WebInv, API!Next, API!Jobs, Jobs
  <2>3. TrueView(a.view, i)'
    BY <1>5 DEF TrueView, Known, API!Accept, WebInv, ServerInv
  <2>4. TrueAnswer(p)'
    BY <1>1, <1>2, <2>2, <2>3 DEF TrueAnswer, handler, AlreadyDone, Refreshing
  <2> QED
    BY <1>2, <2>2, <2>4, AnswerStep
<1> QED
  BY <1>1, <1>3, <1>4, <1>5 DEF ServeProcess

-------------------------------------------------------------------------------
(* The page handles answers and clicks. *)

LEMMA ReloadStep ==
  ASSUME WebInv, NEW p \in Pages, Reload(p)
  PROVE  WebInv'
<1> USE DEF WebInv
<1>1. ServerStep
  BY DEF Reload, ServerStep
<1>2. /\ Cells' /\ Frame(p)
      /\ rows'[p] = {} /\ step'[p] = "idle" /\ shown'[p] = [i \in Items |-> NoJob]
      /\ call'[p] = [t \in Tasks |-> IF t = "load" THEN Sent ELSE NoCall]
  BY DEF Reload, Set, Cells, Frame, SameCells
<1>3. PageInv(p)'
  BY <1>2 DEF PageInv, TrueList, Arrived, Refreshing, Tasks
<1> QED
  BY <1>1, <1>2, <1>3, FrameSuffices

LEMMA StartCreateStep ==
  ASSUME WebInv, NEW p \in Pages, StartCreate(p)
  PROVE  WebInv'
BY AnswerStep DEF StartCreate, ServerStep, Tasks

(* Rows change: what is new in them is true. *)
LEMMA RowsStep ==
  ASSUME WebInv, NEW p \in Pages, NEW t \in {"load", "create"}, NEW list,
         UNCHANGED <<server, handler, shown>>, Calling(p, t, NoCall),
         rows' = rows \/ (rows' = Set(rows, p, list) /\ TrueList(list)),
         loading' = loading \/ \E v : loading' = Set(loading, p, v),
         error' = error \/ \E v : error' = Set(error, p, v)
  PROVE  WebInv'
<1> USE DEF WebInv
<1>1. ServerStep /\ PageInv(p) /\ {"load", "create", "process"} \subseteq Tasks
  BY DEF ServerStep, Tasks
<1>2. /\ UNCHANGED <<created, jobItem, jobState, step, target, job, shown>>
      /\ call' = [q \in Pages |-> [u \in Tasks |-> call'[q][u]]]
      /\ call'[p][t] = NoCall
      /\ \A u \in Tasks \ {t} : call'[p][u] = call[p][u]
      /\ \A q \in Pages \ {p} : call'[q] = call[q]
  BY <1>1, CallSet DEF server, handler
<1>3. Cells' /\ Frame(p)
  BY <1>2 DEF Cells, Frame, SameCells, Set
<1>4. rows'[p] = rows[p] \/ (rows'[p] = list /\ TrueList(list))
  BY DEF Set, Cells
<1>5. \A l : TrueList(l) => TrueList(l)'
  BY <1>1, TruthStays
<1>6. TrueList(rows[p])'
  <2>1. PICK l : l = rows'[p]
    OBVIOUS
  <2>2. TrueList(l)
    BY <1>1, <1>4, <2>1 DEF PageInv
  <2> QED
    BY <1>5, <2>1, <2>2
<1>7. PageInv(p)'
  <2> USE ServerKeeps, TruthStays
  <2>1. /\ \A i \in Items : shown'[p][i] # NoJob => TrueView(shown[p][i], i)'
        /\ step'[p] # "idle" => target'[p] \in Items
        /\ step'[p] \in {"readActive", "wait", "poll"} => Known(job[p], target[p])'
        /\ Refreshing(p)' => Done(target[p])' \/ HasFailed(p)'
    BY <1>1, <1>2 DEF PageInv, Refreshing, HasFailed
  <2>2. Arrived(p, "load")' /\ call'[p]["load"] # Failed => TrueList(call[p]["load"].rows)'
    BY <1>1, <1>2 DEF PageInv, Arrived
  <2>3. Arrived(p, "process")' => TrueAnswer(p)'
    BY <1>1, <1>2 DEF PageInv, Arrived, TrueAnswer, Refreshing, HasFailed
  <2> QED
    BY <1>6, <2>1, <2>2, <2>3 DEF PageInv
<1> QED
  BY <1>1, <1>3, <1>7, FrameSuffices

LEMMA LoadItemsStep ==
  ASSUME WebInv, NEW p \in Pages, LoadItems(p)
  PROVE  WebInv'
<1>1. PICK list : list = call[p]["load"].rows
  OBVIOUS
<1>2. call[p]["load"] # Failed => TrueList(list)
  BY <1>1 DEF WebInv, PageInv, LoadItems
<1> QED
  BY <1>1, <1>2, RowsStep DEF LoadItems

LEMMA HandleCreateStep ==
  ASSUME WebInv, NEW p \in Pages, HandleCreate(p)
  PROVE  WebInv'
<1>1. PICK list : list = rows[p] \cup {<<call[p]["create"].item, "pending">>}
  OBVIOUS
<1>2. TrueList(list)
  BY <1>1 DEF WebInv, PageInv, TrueList
<1> QED
  BY <1>1, <1>2, RowsStep DEF HandleCreate

(* A step of handleProcess that leaves the server alone and takes its      *)
(* answer: what it must show of the page.                                  *)
LEMMA ProcessStep ==
  ASSUME WebInv, NEW p \in Pages, NEW value \in {NoCall, Sent},
         UNCHANGED <<server, loading>>, Calling(p, "process", value),
         NEW s, step' = Set(step, p, s),
         target' = target \/ \E v : target' = Set(target, p, v),
         job' = job \/ \E v : job' = Set(job, p, v),
         error' = error \/ \E v : error' = Set(error, p, v),
         rows' = rows \/ \E v : rows' = Set(rows, p, v) /\ TrueList(v),
         shown' = shown \/ \E v : \E i \in Items : shown' = [shown EXCEPT ![p][i] = v] /\ TrueView(v, i),
         s # "idle" => target'[p] \in Items,
         s \in {"readActive", "wait", "poll"} => Known(job'[p], target'[p]),
         s \in {"refresh", "refreshDone"} => Done(target'[p]) \/ shown'[p][target'[p]].state = "failed"
  PROVE  WebInv'
<1> USE DEF WebInv
<1>1. ServerStep /\ PageInv(p) /\ {"load", "create", "process"} \subseteq Tasks
  BY DEF ServerStep, Tasks
<1>2. /\ UNCHANGED <<created, jobItem, jobState>>
      /\ call' = [q \in Pages |-> [u \in Tasks |-> call'[q][u]]]
      /\ call'[p]["process"] = value
      /\ call'[p]["load"] = call[p]["load"]
      /\ \A q \in Pages \ {p} : call'[q] = call[q]
  BY <1>1, CallSet DEF server
<1>3. /\ shown' = [q \in Pages |-> [i \in Items |-> shown'[q][i]]]
      /\ \A q \in Pages \ {p} : shown'[q] = shown[q]
      /\ \A i \in Items : shown'[p][i] = shown[p][i] \/ TrueView(shown'[p][i], i)
  <2>1. CASE shown' = shown
    BY <2>1 DEF Cells
  <2>2. ASSUME NEW v, NEW i \in Items, shown' = [shown EXCEPT ![p][i] = v], TrueView(v, i)
        PROVE  /\ shown' = [q \in Pages |-> [k \in Items |-> shown'[q][k]]]
               /\ \A q \in Pages \ {p} : shown'[q] = shown[q]
               /\ \A k \in Items : shown'[p][k] = shown[p][k] \/ TrueView(shown'[p][k], k)
    <3>1. /\ shown = [q \in Pages |-> shown[q]]
          /\ \A q \in Pages : shown[q] = [k \in Items |-> shown[q][k]]
          /\ shown' = [shown EXCEPT ![p] = [shown[p] EXCEPT ![i] = v]]
      BY <2>2 DEF Cells
    <3>2. /\ shown'[p] = [shown[p] EXCEPT ![i] = v]
          /\ \A q \in Pages \ {p} : shown'[q] = shown[q]
          /\ shown' = [q \in Pages |-> shown'[q]]
      BY <3>1
    <3>3. \A k \in Items : shown'[p][k] = IF k = i THEN v ELSE shown[p][k]
      BY <3>1, <3>2
    <3>4. \A q \in Pages : shown'[q] = [k \in Items |-> shown'[q][k]]
      BY <3>1, <3>2
    <3> QED
      BY <2>2, <3>2, <3>3, <3>4
  <2> QED
    BY <2>1, <2>2
<1>4. Cells' /\ Frame(p) /\ step'[p] = s
  BY <1>2, <1>3 DEF Cells, Frame, SameCells, Set
<1>5. PageInv(p)'
  <2> USE TruthStays, ServerKeeps
  <2>1. TrueList(rows[p])'
    <3>1. PICK l : l = rows'[p]
      OBVIOUS
    <3>2. TrueList(l)
      BY <1>1, <3>1 DEF PageInv, Set, Cells
    <3> QED
      BY <1>1, <3>1, <3>2
  <2>2. ASSUME NEW i \in Items, shown'[p][i] # NoJob
        PROVE  TrueView(shown[p][i], i)'
    <3>1. PICK v : v = shown'[p][i]
      OBVIOUS
    <3>2. TrueView(v, i)
      BY <1>1, <1>3, <2>2, <3>1 DEF PageInv
    <3> QED
      BY <1>1, <3>1, <3>2
  <2>3. Arrived(p, "load")' /\ call'[p]["load"] # Failed => TrueList(call[p]["load"].rows)'
    BY <1>1, <1>2 DEF PageInv, Arrived
  <2>4. step'[p] \in {"readActive", "wait", "poll"} => Known(job[p], target[p])'
    BY <1>2, <1>4 DEF Known
  <2>5. Refreshing(p)' => Done(target[p])' \/ HasFailed(p)'
    BY <1>2, <1>4 DEF Refreshing, HasFailed, Done, JobsOf
  <2>6. ~ Arrived(p, "process")'
    BY <1>2 DEF Arrived
  <2> QED
    BY <1>4, <2>1, <2>2, <2>3, <2>4, <2>5, <2>6 DEF PageInv
<1> QED
  BY <1>1, <1>4, <1>5, FrameSuffices

LEMMA StartProcessStep ==
  ASSUME WebInv, NEW p \in Pages, NEW i \in Items, StartProcess(p, i)
  PROVE  WebInv'
<1>1. target'[p] = i
  BY DEF StartProcess, Set, WebInv, Cells
<1> QED
  BY <1>1, ProcessStep DEF StartProcess

LEMMA PollStep ==
  ASSUME WebInv, NEW p \in Pages, Poll(p)
  PROVE  WebInv'
<1>1. step[p] = "wait" /\ target[p] \in Items /\ Known(job[p], target[p])
  BY DEF Poll, WebInv, PageInv
<1> QED
  BY <1>1, ProcessStep DEF Poll, Request

(* Following a true view of the item's job keeps everything true: a view   *)
(* that is not accepted is of a job that succeeded or failed.              *)
LEMMA FollowStep ==
  ASSUME WebInv, NEW p \in Pages, NEW view, NEW n, Follow(p, view, n),
         TrueView(view, target[p]), target[p] \in Items,
         UNCHANGED <<server, loading, rows>>
  PROVE  WebInv'
<1>0. PICK i \in Items : i = target[p]
  OBVIOUS
<1>1. shown' = [shown EXCEPT ![p][i] = view] /\ TrueView(view, i) /\ shown'[p][i] = view
  <2>1. shown[p] = [k \in Items |-> shown[p][k]] /\ shown = [q \in Pages |-> shown[q]]
    BY DEF WebInv, Cells
  <2> QED
    BY <1>0, <2>1 DEF Follow
<1>2. CASE /\ view.state = "accepted" /\ step' = Set(step, p, "wait")
           /\ Remember(p, view.job, n) /\ Calling(p, "process", NoCall)
           /\ UNCHANGED <<target, error>>
  <2>1. job'[p] = view.job
    BY <1>2 DEF Remember, Set, WebInv, Cells
  <2>2. Known(job'[p], target'[p])
    BY <1>0, <1>1, <1>2, <2>1 DEF TrueView
  <2> QED
    BY <1>0, <1>1, <1>2, <2>2, ProcessStep DEF Remember
<1>3. CASE End(p, "processing_job_timeout")
  BY <1>0, <1>1, <1>3, ProcessStep DEF End, Remember
<1>4. CASE view.state # "accepted" /\ Request(p, "refresh") /\ Remember(p, 0, 0)
  <2>1. jobState[view.job] = view.state /\ view.job \in Jobs /\ jobItem[view.job] = i /\ jobState[view.job] # "none"
    BY <1>1, <1>4 DEF TrueView, Known
  <2>2. Done(i) \/ view.state = "failed"
    BY <1>4, <2>1 DEF WebInv, ServerInv, JobStates, Done, JobsOf
  <2>3. target'[p] = i
    BY <1>0, <1>4 DEF Request
  <2> QED
    BY <1>0, <1>1, <1>4, <2>2, <2>3, ProcessStep DEF Request, Remember
<1> QED
  BY <1>2, <1>3, <1>4 DEF Follow

LEMMA EndStep ==
  ASSUME WebInv, NEW p \in Pages, NEW e, End(p, e), UNCHANGED <<server, loading, shown>>,
         rows' = rows \/ \E v : rows' = Set(rows, p, v) /\ TrueList(v)
  PROVE  WebInv'
BY ProcessStep DEF End, Remember

LEMMA HandleProcessStep ==
  ASSUME WebInv, NEW p \in Pages, HandleProcess(p)
  PROVE  WebInv'
<1> DEFINE answer == call[p]["process"]
<1>1. PageInv(p) /\ TrueAnswer(p) /\ UNCHANGED <<server, loading>>
  BY DEF HandleProcess, WebInv, PageInv
<1>2. CASE Submitted(p)
  <2>1. step[p] = "submit" /\ target[p] \in Items /\ UNCHANGED rows
    BY <1>1, <1>2 DEF Submitted, PageInv
  <2>2. CASE answer.code = "ok" /\ Follow(p, answer.view, 0)
    <3>1. TrueView(answer.view, target[p])
      BY <1>1, <2>1, <2>2 DEF TrueAnswer
    <3> QED
      BY <1>1, <2>1, <2>2, <3>1, FollowStep
  <2>3. CASE /\ answer.code = "processing_already_active"
             /\ Remember(p, answer.job, 0) /\ Request(p, "readActive") /\ UNCHANGED shown
    <3>1. Known(answer.job, target[p])
      BY <1>1, <2>1, <2>3 DEF TrueAnswer
    <3>2. job'[p] = answer.job
      BY <2>3 DEF Remember, Set, WebInv, Cells
    <3>3. Known(job'[p], target'[p])
      BY <2>3, <3>1, <3>2 DEF Request
    <3> QED
      BY <1>1, <2>1, <2>3, <3>3, ProcessStep DEF Remember, Request
  <2>4. CASE answer = AlreadyDone /\ DoneConflict(p) /\ UNCHANGED shown
    <3>1. Done(target[p])
      BY <1>1, <2>1, <2>4 DEF TrueAnswer
    <3>2. target' = target /\ target'[p] = target[p]
      BY <2>4 DEF DoneConflict, Request
    <3> QED
      BY <1>1, <2>1, <2>4, <3>1, <3>2, ProcessStep DEF DoneConflict, Request
  <2> QED
    BY <1>2, <2>2, <2>3, <2>4 DEF Submitted
<1>3. CASE JobRead(p)
  <2>1. /\ step[p] \in {"readActive", "poll"} /\ target[p] \in Items /\ UNCHANGED rows
        /\ TrueView(answer.view, target[p])
    BY <1>1, <1>3 DEF JobRead, PageInv, TrueAnswer
  <2> QED
    BY <1>1, <1>3, <2>1, FollowStep DEF JobRead
<1>4. CASE Refreshed(p)
  <2>1. TrueList(answer.rows)
    BY <1>1, <1>4 DEF Refreshed, TrueAnswer, Refreshing
  <2> QED
    BY <1>1, <1>4, <2>1, EndStep DEF Refreshed
<1>5. CASE Fails(p)
  BY <1>1, <1>5, EndStep DEF Fails
<1> QED
  BY <1>2, <1>3, <1>4, <1>5 DEF HandleProcess

-------------------------------------------------------------------------------
LEMMA WebInit == Init => WebInv
<1> SUFFICES ASSUME Init
             PROVE  WebInv
  OBVIOUS
<1>1. ServerInv
  BY DEF Init, API!Init, API!Jobs, Jobs, ServerInv
<1>2. Cells
  BY DEF Init, Cells
<1>3. ASSUME NEW p \in Pages
      PROVE  PageInv(p)
  BY <1>3 DEF Init, PageInv, TrueList, Arrived, Refreshing, Tasks
<1> QED
  BY <1>1, <1>2, <1>3 DEF WebInv

LEMMA WebNext == WebInv /\ [Next]_vars => WebInv'
<1> SUFFICES ASSUME WebInv, [Next]_vars
             PROVE  WebInv'
  OBVIOUS
<1>1. CASE UNCHANGED vars
  <2>1. ServerStep /\ UNCHANGED <<rows, loading, step, target, job, error, shown, call>>
    BY <1>1 DEF vars, server, handler, page, ServerStep
  <2>2. Cells' /\ \A q \in Pages : SameCells(q)
    BY <2>1 DEF WebInv, Cells, SameCells
  <2> QED
    BY <2>1, <2>2, ServerKeeps, PageStays DEF WebInv
<1>2. ASSUME NEW p \in Pages, Progress(p)
      PROVE  WebInv'
  BY <1>2, ServeProcessStep, ServeJobStep, ListStep, FailureStep, HandleProcessStep, PollStep
     DEF Progress, Serve, Tasks
<1>3. ASSUME NEW p \in Pages,
             \/ ServeList(p, "load") \/ ServeCreate(p)
             \/ RequestFails(p, "load") \/ RequestFails(p, "create")
      PROVE  WebInv'
  BY <1>3, ListStep, ServeCreateStep, FailureStep DEF Tasks
<1>4. ASSUME NEW p \in Pages,
             \/ Reload(p) \/ LoadItems(p) \/ StartCreate(p) \/ HandleCreate(p)
             \/ \E i \in Items : StartProcess(p, i)
      PROVE  WebInv'
  BY <1>4, ReloadStep, LoadItemsStep, StartCreateStep, HandleCreateStep, StartProcessStep
<1> QED
  BY <1>1, <1>2, <1>3, <1>4, ElsewhereStep DEF Next

(* No stale list, late answer, lost request or step of another client      *)
(* makes a page claim what the database does not hold: a done item is      *)
(* done, a job shown for an item is that item's, and so is its outcome.    *)
THEOREM PagesShowTruth == Spec => []ShowsCommittedState
<1>1. ASSUME WebInv, NEW p \in Pages, NEW i \in Items
      PROVE  /\ <<i, "done">> \in rows[p] => Done(i)
             /\ shown[p][i] # NoJob =>
                  /\ jobItem[shown[p][i].job] = i
                  /\ shown[p][i].state # "accepted" => jobState[shown[p][i].job] = shown[p][i].state
  <2>1. PageInv(p)
    BY <1>1 DEF WebInv
  <2>2. <<i, "done">> \in rows[p] => Done(i)
    BY <2>1 DEF PageInv, TrueList
  <2>3. shown[p][i] # NoJob => TrueView(shown[p][i], i)
    BY <2>1 DEF PageInv
  <2> QED
    BY <2>2, <2>3 DEF TrueView, Known
<1>2. WebInv => ShowsCommittedState
  BY <1>1 DEF ShowsCommittedState
<1> QED
  BY <1>2, WebInit, WebNext, PTL DEF Spec

(* Processing that ends without an error leaves the outcome on the page,   *)
(* whoever had submitted the job or completed the item: the list that is   *)
(* applied last was read after the outcome.                                *)
THEOREM EndsShowOutcomes == Spec => EndShowsOutcome
<1>1. ASSUME WebInv, Next, NEW p \in Pages,
             step[p] # "idle", step'[p] = "idle", error'[p] = "none", ~loading'[p]
      PROVE  \/ <<target[p], "done">> \in rows'[p] /\ <<target[p], "pending">> \notin rows'[p]
             \/ shown'[p][target[p]].state = "failed"
  <2>1. PICK q \in Pages : HandleProcess(q) \/ Poll(q) \/ Reload(q) \/ \E i \in Items : StartProcess(q, i)
    <3>1. step' # step
      BY <1>1
    <3>2. ~ Elsewhere
      BY <3>1 DEF Elsewhere, handler
    <3>3. \A q \in Pages : ~ Serve(q) /\ ~ ServeList(q, "load") /\ ~ ServeCreate(q)
                            /\ ~ RequestFails(q, "load") /\ ~ RequestFails(q, "create")
                            /\ ~ LoadItems(q) /\ ~ StartCreate(q) /\ ~ HandleCreate(q)
      BY <3>1 DEF Serve, ServeProcess, ServeJob, ServeList, ServeCreate, RequestFails, Served,
                  LoadItems, StartCreate, HandleCreate, handler
    <3> QED
      BY <1>1, <3>2, <3>3 DEF Next, Progress
  <2>2. Cells /\ PageInv(p)
    BY <1>1 DEF WebInv
  <2>3. \A s : step' = Set(step, q, s) => q = p /\ s = "idle"
    BY <1>1, <2>2 DEF Set, Cells
  <2>4. HandleProcess(p)
    <3>1. ~ Poll(q) /\ ~ \E i \in Items : StartProcess(q, i)
      <4>1. step' # Set(step, q, "poll") /\ step' # Set(step, q, "submit")
        BY <2>3
      <4>2. Poll(q) => step' = Set(step, q, "poll")
        BY DEF Poll, Request
      <4>3. \A i \in Items : StartProcess(q, i) => step' = Set(step, q, "submit")
        BY DEF StartProcess
      <4> QED
        BY <4>1, <4>2, <4>3
    <3>2. ~ Reload(q)
      BY <1>1, <2>2, <2>3 DEF Reload, Set, Cells
    <3>3. CASE HandleProcess(q)
      <4>1. \E s : step' = Set(step, q, s)
        BY <3>3 DEF HandleProcess, Submitted, JobRead, Refreshed, Fails, Follow, Request, DoneConflict, End
      <4> QED
        BY <2>3, <3>3, <4>1
    <3> QED
      BY <2>1, <3>1, <3>2, <3>3
  <2>5. Refreshed(p)
    <3>1. \A e : End(p, e) => e = "none"
      BY <1>1, <2>2 DEF End, Set, Cells
    <3>2. \A v, n : ~ Follow(p, v, n)
      BY <2>2, <2>3, <3>1, <1>1 DEF Follow, Request, Set, Cells
    <3>3. ~ Request(p, "readActive") /\ ~ DoneConflict(p)
      BY <1>1, <2>2 DEF Request, DoneConflict, Set, Cells
    <3> QED
      BY <2>4, <3>1, <3>2, <3>3 DEF HandleProcess, Submitted, JobRead, Fails
  <2>6. TrueAnswer(p)
    BY <2>2, <2>4 DEF PageInv, HandleProcess
  <2>7. rows'[p] = call[p]["process"].rows /\ shown' = shown
    BY <2>2, <2>5 DEF Refreshed, Set, Cells
  <2> QED
    BY <2>5, <2>6, <2>7 DEF TrueAnswer, Refreshed, Refreshing, HasFailed
<1>2. WebInv /\ [Next]_vars =>
        [\A p \in Pages : LET i == target[p] IN
           step[p] # "idle" /\ step'[p] = "idle" /\ error'[p] = "none" /\ ~loading'[p] =>
             \/ <<i, "done">> \in rows'[p] /\ <<i, "pending">> \notin rows'[p]
             \/ shown'[p][i].state = "failed"]_vars
  BY <1>1
<1> QED
  BY <1>2, WebInit, WebNext, PTL DEF Spec, EndShowsOutcome

-------------------------------------------------------------------------------
(* Types *)

Lists == [code : {"ok"}, rows : SUBSET Rows]
Steps == {"idle", "submit", "readActive", "wait", "poll", "refresh", "refreshDone"}
Errors == {"none", "failed", "processing_job_timeout"}

(* What can have come back to a request, where its answer is awaited.      *)
LoadFits(a) == a \in {NoCall, Sent, Failed} \cup Lists

CreateFits(a) == a \in {NoCall, Sent, Failed} \cup [code : {"ok"}, item : Items]

ProcessFits(a, s) ==
  /\ s \in {"idle", "wait"} => a = NoCall
  /\ \/ a \in {NoCall, Sent, Failed}
     \/ s = "submit" /\ a \in {AlreadyDone} \cup [code : {"processing_already_active"}, job : Jobs]
     \/ s \in {"submit", "readActive", "poll"} /\ a \in [code : {"ok"}, view : JobViews]
     \/ s \in {"refresh", "refreshDone"} /\ a \in Lists

PageTypes(p) ==
  /\ rows[p] \subseteq Rows
  /\ loading[p] \in BOOLEAN
  /\ step[p] \in Steps
  /\ target[p] \in Items \cup {NoItem}
  /\ job[p] \in Jobs \cup {0}
  /\ \A i \in Items : shown[p][i] \in JobViews \cup {NoJob}
  /\ polls[p] \in 0..PollAttempts - 1
  /\ error[p] \in Errors
  /\ LoadFits(call[p]["load"])
  /\ CreateFits(call[p]["create"])
  /\ ProcessFits(call[p]["process"], step[p])

(* A job that can fail or succeed once more has budget left.               *)
Budgets ==
  /\ attempts \in [Jobs -> 0..MaxAttempts]
  /\ \A j \in Jobs : jobState[j] \in {"none", "accepted"} => attempts[j] < MaxAttempts

WebTypes ==
  /\ Budgets
  /\ polls = [p \in Pages |-> polls[p]]
  /\ \A p \in Pages : PageTypes(p)

LEMMA BudgetsHold ==
  ASSUME ServerInv, Budgets, ServerStep
  PROVE  Budgets'
<1> USE MaxAttemptsAssumption DEF ServerInv, Budgets
<1>1. CASE UNCHANGED server
  BY <1>1 DEF server
<1>2. ASSUME NEW i \in Items, API!Create(i)
      PROVE  Budgets'
  BY <1>2 DEF API!Create
<1>3. ASSUME NEW i \in Items, NEW j \in Jobs, API!Accept(i, j)
      PROVE  Budgets'
  BY <1>3 DEF API!Accept
<1>4. ASSUME NEW j \in Jobs, API!FailAttempt(j) \/ API!Succeed(j)
      PROVE  Budgets'
  <2>1. /\ attempts' = [attempts EXCEPT ![j] = attempts[j] + 1]
        /\ jobState[j] = "accepted" /\ attempts[j] + 1 \in 0..MaxAttempts
    BY <1>4 DEF API!FailAttempt, API!Succeed
  <2>2. \/ jobState' = [jobState EXCEPT ![j] = "accepted"] /\ attempts[j] + 1 < MaxAttempts
        \/ jobState' = [jobState EXCEPT ![j] = "failed"]
        \/ jobState' = [jobState EXCEPT ![j] = "succeeded"]
    BY <1>4, <2>1 DEF API!FailAttempt, API!Succeed
  <2> QED
    BY <2>1, <2>2
<1> QED
  BY <1>1, <1>2, <1>3, <1>4 DEF ServerStep, API!Next, API!Jobs, Jobs

SameTypes(q) ==
  SameCells(q) /\ loading'[q] = loading[q] /\ polls'[q] = polls[q] /\ error'[q] = error[q]

LEMMA OthersKeepTypes ==
  ASSUME WebInv, WebTypes, ServerStep, NEW p \in Pages, PageTypes(p)',
         \A q \in Pages \ {p} : SameTypes(q), polls' = [q \in Pages |-> polls'[q]]
  PROVE  WebTypes'
<1>1. ASSUME NEW q \in Pages \ {p}
      PROVE  PageTypes(q)'
  BY <1>1 DEF WebTypes, PageTypes, SameTypes, SameCells
<1> QED
  BY <1>1, BudgetsHold DEF WebInv, WebTypes

(* An answer arrives, or a request is sent or forgotten. *)
LEMMA AnswerTypes ==
  ASSUME WebInv, WebTypes, ServerStep, NEW p \in Pages, NEW t \in Tasks, NEW a,
         Calling(p, t, a), UNCHANGED <<handler, page>>,
         t = "load" => LoadFits(a), t = "create" => CreateFits(a),
         t = "process" => ProcessFits(a, step[p])
  PROVE  WebTypes'
<1>1. UNCHANGED <<rows, loading, step, target, job, polls, error, shown>>
  BY DEF handler, page
<1>2. /\ call'[p][t] = a
      /\ \A u \in Tasks \ {t} : call'[p][u] = call[p][u]
      /\ \A q \in Pages \ {p} : call'[q] = call[q]
  BY CallSet DEF WebInv
<1>3. PageTypes(p)'
  <2>1. \A u \in Tasks : call'[p][u] = IF u = t THEN a ELSE call[p][u]
    BY <1>2
  <2>2. PageTypes(p)
    BY DEF WebTypes
  <2>3. LoadFits(call'[p]["load"]) /\ CreateFits(call'[p]["create"]) /\ ProcessFits(call'[p]["process"], step[p])
    BY <2>1, <2>2 DEF PageTypes, Tasks
  <2> QED
    BY <1>1, <2>2, <2>3 DEF PageTypes, LoadFits, CreateFits, ProcessFits, Failed, AlreadyDone, Lists, Rows, JobViews, Jobs, JobStates
<1> QED
  BY <1>1, <1>2, <1>3, OthersKeepTypes DEF SameTypes, SameCells, WebTypes

LEMMA ListsHaveRows == ServerInv => Listed(ListWorkItems) \in Lists
BY DEF ServerInv, Listed, ListWorkItems, Lists, Rows

LEMMA ServeTypes ==
  ASSUME WebInv, WebTypes, NEW p \in Pages,
         Serve(p) \/ ServeList(p, "load") \/ ServeCreate(p)
         \/ RequestFails(p, "load") \/ RequestFails(p, "create")
  PROVE  WebTypes'
<1>0. ServerInv /\ PageTypes(p) /\ PageInv(p) /\ {"load", "create", "process"} = Tasks
  BY DEF WebInv, WebTypes, Tasks
<1>1. ASSUME NEW t \in Tasks, RequestFails(p, t)
      PROVE  WebTypes'
  <2>1. t = "process" => ProcessFits(Failed, step[p])
    BY <1>0, <1>1 DEF RequestFails, PageTypes, ProcessFits
  <2> QED
    BY <1>1, <2>1, AnswerTypes DEF RequestFails, Served, ServerStep, LoadFits, CreateFits
<1>2. ASSUME NEW t \in {"load", "process"}, ServeList(p, t)
      PROVE  WebTypes'
  <2>1. PICK a \in Lists : a = Listed(ListWorkItems)
    BY <1>0, ListsHaveRows
  <2>2. t = "process" => ProcessFits(a, step[p])
    BY <1>2 DEF ServeList, ProcessFits
  <2> QED
    BY <1>0, <1>2, <2>1, <2>2, AnswerTypes DEF ServeList, Served, ServerStep, LoadFits
<1>3. CASE ServeCreate(p)
  <2>1. PICK i \in Items : API!Create(i) /\ Served(p, "create", Created(i))
    BY <1>3 DEF ServeCreate
  <2>2. ServerStep /\ CreateFits(Created(i))
    BY <2>1 DEF ServerStep, API!Next, CreateFits, Created
  <2> QED
    BY <1>0, <2>1, <2>2, AnswerTypes DEF Served
<1>4. CASE ServeJob(p)
  <2>1. PICK a : a = Job(job[p])
    OBVIOUS
  <2>2. /\ Calling(p, "process", a) /\ UNCHANGED <<handler, page, server>>
        /\ step[p] \in {"readActive", "poll"}
    BY <1>4, <2>1 DEF ServeJob, Served
  <2>3. job[p] \in Jobs /\ jobState[job[p]] \in JobStates
    BY <1>0, <2>2 DEF PageInv, Known, ServerInv
  <2>4. ProcessFits(a, step[p])
    BY <2>1, <2>2, <2>3 DEF ProcessFits, Job, JobViews
  <2> QED
    BY <1>0, <2>2, <2>4, AnswerTypes DEF ServerStep
<1>5. CASE ServeProcess(p)
  <2>0. step[p] = "submit" /\ target[p] \in Items
    BY <1>0, <1>5 DEF ServeProcess, PageInv
  <2>1. CASE Served(p, "process", AlreadyDone) /\ UNCHANGED server
    BY <1>0, <2>0, <2>1, AnswerTypes DEF Served, ServerStep, ProcessFits
  <2>2. ASSUME NEW j \in Jobs, Served(p, "process", Active(j)), UNCHANGED server
        PROVE  WebTypes'
    <3>1. ProcessFits(Active(j), step[p])
      BY <2>0 DEF ProcessFits, Active
    <3> QED
      BY <1>0, <2>2, <3>1, AnswerTypes DEF Served, ServerStep
  <2>3. ASSUME NEW j \in Jobs, API!Accept(target[p], j),
               Served(p, "process", [code |-> "ok", view |-> [job |-> j, state |-> "accepted"]])
        PROVE  WebTypes'
    <3>1. ProcessFits([code |-> "ok", view |-> [job |-> j, state |-> "accepted"]], step[p])
      BY <2>0 DEF ProcessFits, JobViews, JobStates
    <3>2. ServerStep
      BY <2>0, <2>3 DEF ServerStep, API!Next, API!Jobs, Jobs
    <3> QED
      BY <1>0, <2>3, <3>1, <3>2, AnswerTypes DEF Served
  <2> QED
    BY <1>5, <2>1, <2>2, <2>3 DEF ServeProcess, ActiveJobs, JobsOf
<1> QED
  BY <1>0, <1>1, <1>2, <1>3, <1>4, <1>5 DEF Serve

LEMMA ListTypes ==
  ASSUME WebInv, WebTypes, NEW p \in Pages,
         Reload(p) \/ LoadItems(p) \/ StartCreate(p) \/ HandleCreate(p)
  PROVE  WebTypes'
<1>0. Cells /\ PageTypes(p) /\ {"load", "create", "process"} = Tasks
  BY DEF WebInv, WebTypes, Tasks
<1>1. CASE Reload(p)
  <2>1. /\ \A q \in Pages \ {p} : SameTypes(q)
        /\ polls' = [q \in Pages |-> polls'[q]]
        /\ rows'[p] = {} /\ loading'[p] = TRUE /\ step'[p] = "idle" /\ target'[p] = NoItem
        /\ job'[p] = 0 /\ polls'[p] = 0 /\ error'[p] = "none"
        /\ shown'[p] = [i \in Items |-> NoJob]
        /\ call'[p] = [t \in Tasks |-> IF t = "load" THEN Sent ELSE NoCall]
    BY <1>0, <1>1 DEF Reload, Set, Cells, SameTypes, SameCells, WebTypes
  <2>2. PageTypes(p)'
    <3>1. /\ call'[p]["load"] = Sent /\ call'[p]["create"] = NoCall /\ call'[p]["process"] = NoCall
          /\ 0 \in 0..PollAttempts - 1
      BY <1>0, <2>1, PollAttemptsAssumption
    <3>2. LoadFits(call[p]["load"])' /\ CreateFits(call[p]["create"])'
      BY <3>1 DEF LoadFits, CreateFits
    <3>3. ProcessFits(call[p]["process"], step[p])'
      BY <2>1, <3>1 DEF ProcessFits
    <3>4. loading'[p] \in BOOLEAN
      BY <2>1
    <3> QED
      BY <2>1, <3>1, <3>2, <3>3, <3>4 DEF PageTypes, Steps, Errors
  <2> QED
    BY <1>1, <2>1, <2>2, OthersKeepTypes DEF Reload, ServerStep
<1>2. CASE StartCreate(p)
  BY <1>0, <1>2, AnswerTypes DEF StartCreate, ServerStep, CreateFits
<1>3. ASSUME NEW t \in {"load", "create"}, Calling(p, t, NoCall),
             UNCHANGED <<server, handler, shown>>,
             rows' = rows \/ \E v \in SUBSET Rows : rows' = Set(rows, p, v),
             loading' = loading \/ loading' = Set(loading, p, FALSE),
             error' = error \/ \E v \in Errors : error' = Set(error, p, v)
      PROVE  WebTypes'
  <2>1. /\ call'[p][t] = NoCall
        /\ \A u \in Tasks \ {t} : call'[p][u] = call[p][u]
        /\ \A q \in Pages \ {p} : call'[q] = call[q]
    BY <1>0, <1>3, CallSet
  <2>2. UNCHANGED <<step, target, job, polls, shown>> /\ ServerStep
    BY <1>3 DEF handler, ServerStep
  <2>3. \A q \in Pages \ {p} : SameTypes(q)
    BY <1>0, <1>3, <2>1, <2>2 DEF SameTypes, SameCells, Set, Cells
  <2>4. rows'[p] \subseteq Rows /\ loading'[p] \in BOOLEAN /\ error'[p] \in Errors
    BY <1>0, <1>3 DEF PageTypes, Set, Cells
  <2>5. LoadFits(call'[p]["load"]) /\ CreateFits(call'[p]["create"]) /\ ProcessFits(call'[p]["process"], step[p])
    <3>1. LoadFits(NoCall) /\ CreateFits(NoCall)
      BY DEF LoadFits, CreateFits
    <3>2. \A u \in Tasks : call'[p][u] = IF u = t THEN NoCall ELSE call[p][u]
      BY <1>0, <2>1
    <3> QED
      BY <1>0, <3>1, <3>2 DEF PageTypes
  <2>6. PageTypes(p)'
    BY <1>0, <2>2, <2>4, <2>5
       DEF PageTypes, LoadFits, CreateFits, ProcessFits, Failed, AlreadyDone, Lists, Rows, JobViews, Jobs, JobStates
  <2> QED
    BY <2>2, <2>3, <2>6, OthersKeepTypes DEF WebTypes
<1>4. CASE LoadItems(p)
  <2>1. call[p]["load"] = Failed \/ call[p]["load"].rows \in SUBSET Rows
    BY <1>0, <1>4 DEF LoadItems, Arrived, PageTypes, LoadFits, Lists
  <2> QED
    BY <1>3, <1>4, <2>1 DEF LoadItems, Errors
<1>5. CASE HandleCreate(p)
  <2>1. call[p]["create"] = Failed \/ rows[p] \cup {<<call[p]["create"].item, "pending">>} \in SUBSET Rows
    BY <1>0, <1>5 DEF HandleCreate, Arrived, PageTypes, CreateFits, Rows
  <2> QED
    BY <1>3, <1>5, <2>1 DEF HandleCreate
<1> QED
  BY <1>1, <1>2, <1>4, <1>5

(* A step of handleProcess: what it must set its variables to. *)
LEMMA ProcessTypes ==
  ASSUME WebInv, WebTypes, NEW p \in Pages, NEW value \in {NoCall, Sent},
         UNCHANGED <<server, loading>>, Calling(p, "process", value),
         NEW s \in Steps, step' = Set(step, p, s), s \in {"idle", "wait"} => value = NoCall,
         target' = target \/ \E v \in Items \cup {NoItem} : target' = Set(target, p, v),
         job' = job \/ \E v \in Jobs \cup {0} : job' = Set(job, p, v),
         polls' = polls \/ \E v \in 0..PollAttempts - 1 : polls' = Set(polls, p, v),
         error' = error \/ \E v \in Errors : error' = Set(error, p, v),
         rows' = rows \/ \E v \in SUBSET Rows : rows' = Set(rows, p, v),
         shown' = shown \/ \E v \in JobViews, i \in Items : shown' = [shown EXCEPT ![p][i] = v]
  PROVE  WebTypes'
<1>0. Cells /\ PageTypes(p) /\ polls = [q \in Pages |-> polls[q]] /\ {"load", "create", "process"} = Tasks
  BY DEF WebInv, WebTypes, Tasks
<1>1. /\ call'[p]["process"] = value
      /\ call'[p]["load"] = call[p]["load"] /\ call'[p]["create"] = call[p]["create"]
      /\ \A q \in Pages \ {p} : call'[q] = call[q]
  BY <1>0, CallSet
<1>2. /\ \A q \in Pages \ {p} : shown'[q] = shown[q]
      /\ \A i \in Items : shown'[p][i] \in JobViews \cup {NoJob}
  <2>1. CASE shown' = shown
    BY <1>0, <2>1 DEF PageTypes
  <2>2. ASSUME NEW v \in JobViews, NEW i \in Items, shown' = [shown EXCEPT ![p][i] = v]
        PROVE  /\ \A q \in Pages \ {p} : shown'[q] = shown[q]
               /\ \A k \in Items : shown'[p][k] \in JobViews \cup {NoJob}
    <3>1. /\ shown = [q \in Pages |-> shown[q]] /\ shown[p] = [k \in Items |-> shown[p][k]]
          /\ shown' = [shown EXCEPT ![p] = [shown[p] EXCEPT ![i] = v]]
      BY <1>0, <2>2 DEF Cells
    <3>2. shown'[p] = [shown[p] EXCEPT ![i] = v] /\ \A q \in Pages \ {p} : shown'[q] = shown[q]
      BY <3>1
    <3>3. \A k \in Items : shown'[p][k] = IF k = i THEN v ELSE shown[p][k]
      BY <3>1, <3>2
    <3> QED
      BY <1>0, <3>2, <3>3 DEF PageTypes
  <2> QED
    BY <2>1, <2>2
<1>3. \A q \in Pages \ {p} : SameTypes(q)
  BY <1>0, <1>1, <1>2 DEF SameTypes, SameCells, Set, Cells
<1>4. /\ step'[p] = s /\ loading'[p] = loading[p]
      /\ target'[p] \in Items \cup {NoItem} /\ job'[p] \in Jobs \cup {0}
      /\ polls'[p] \in 0..PollAttempts - 1 /\ polls' = [q \in Pages |-> polls'[q]]
      /\ error'[p] \in Errors /\ rows'[p] \subseteq Rows
  BY <1>0 DEF PageTypes, Set, Cells
<1>5. ProcessFits(value, s)
  BY DEF ProcessFits
<1>6. PageTypes(p)'
  <2>1. ProcessFits(call[p]["process"], step[p])'
    BY <1>1, <1>4, <1>5 DEF ProcessFits, AlreadyDone, Lists, Rows, JobViews, Jobs, JobStates
  <2>2. LoadFits(call[p]["load"])' /\ CreateFits(call[p]["create"])'
    BY <1>0, <1>1 DEF PageTypes, LoadFits, CreateFits, Failed, Lists, Rows
  <2> QED
    BY <1>0, <1>2, <1>4, <2>1, <2>2 DEF PageTypes, Steps, Errors, Rows, Jobs, JobViews, JobStates, NoJob
<1> QED
  BY <1>3, <1>4, <1>6, OthersKeepTypes DEF ServerStep

LEMMA EndTypes ==
  ASSUME WebInv, WebTypes, NEW p \in Pages, NEW e \in Errors, End(p, e),
         UNCHANGED <<server, loading>>,
         rows' = rows \/ \E v \in SUBSET Rows : rows' = Set(rows, p, v),
         shown' = shown \/ \E v \in JobViews, i \in Items : shown' = [shown EXCEPT ![p][i] = v]
  PROVE  WebTypes'
<1>1. 0 \in 0..PollAttempts - 1 /\ "idle" \in Steps
  BY PollAttemptsAssumption DEF Steps
<1> QED
  BY <1>1, ProcessTypes DEF End, Remember

LEMMA FollowTypes ==
  ASSUME WebInv, WebTypes, NEW p \in Pages, NEW view \in JobViews, NEW n \in Nat, Follow(p, view, n),
         target[p] \in Items, UNCHANGED <<server, loading, rows>>
  PROVE  WebTypes'
<1>0. /\ 0 \in 0..PollAttempts - 1 /\ {"wait", "refresh"} \subseteq Steps
      /\ "processing_job_timeout" \in Errors /\ view.job \in Jobs
  BY PollAttemptsAssumption DEF Steps, Errors, JobViews
<1>1. \E i \in Items : shown' = [shown EXCEPT ![p][i] = view]
  BY DEF Follow
<1>2. CASE /\ n < PollAttempts /\ step' = Set(step, p, "wait")
           /\ Remember(p, view.job, n) /\ Calling(p, "process", NoCall)
           /\ UNCHANGED <<target, error>>
  <2>1. n \in 0..PollAttempts - 1
    BY <1>2, PollAttemptsAssumption
  <2> QED
    BY <1>0, <1>1, <1>2, <2>1, ProcessTypes DEF Remember
<1>3. CASE End(p, "processing_job_timeout")
  BY <1>0, <1>1, <1>3, EndTypes
<1>4. CASE Request(p, "refresh") /\ Remember(p, 0, 0)
  BY <1>0, <1>1, <1>4, ProcessTypes DEF Request, Remember
<1> QED
  BY <1>2, <1>3, <1>4 DEF Follow

LEMMA HandlerTypes ==
  ASSUME WebInv, WebTypes, NEW p \in Pages,
         HandleProcess(p) \/ Poll(p) \/ \E i \in Items : StartProcess(p, i)
  PROVE  WebTypes'
<1> DEFINE answer == call[p]["process"]
<1>0. /\ PageTypes(p) /\ PageInv(p) /\ ProcessFits(answer, step[p])
      /\ {"submit", "readActive", "poll", "refreshDone"} \subseteq Steps /\ {"none", "failed"} \subseteq Errors
      /\ 0 \in 0..PollAttempts - 1 /\ 0 \in Nat /\ polls[p] + 1 \in Nat
  BY PollAttemptsAssumption DEF WebInv, WebTypes, PageTypes, Steps, Errors
<1>1. ASSUME NEW i \in Items, StartProcess(p, i)
      PROVE  WebTypes'
  BY <1>0, <1>1, ProcessTypes DEF StartProcess
<1>2. CASE Poll(p)
  BY <1>0, <1>2, ProcessTypes DEF Poll, Request
<1>3. CASE HandleProcess(p) /\ Submitted(p)
  <2>1. /\ step[p] = "submit" /\ target[p] \in Items /\ UNCHANGED <<server, loading, rows>>
        /\ answer \notin {NoCall, Sent}
    BY <1>0, <1>3 DEF HandleProcess, Submitted, Arrived, PageInv
  <2>2. CASE answer.code = "ok" /\ Follow(p, answer.view, 0)
    <3>1. answer.view \in JobViews
      BY <1>0, <2>1, <2>2 DEF ProcessFits, Failed, AlreadyDone
    <3> QED
      BY <1>0, <2>1, <2>2, <3>1, FollowTypes
  <2>3. CASE /\ answer.code = "processing_already_active"
             /\ Remember(p, answer.job, 0) /\ Request(p, "readActive") /\ UNCHANGED shown
    <3>1. answer.job \in Jobs
      BY <1>0, <2>1, <2>3 DEF ProcessFits, Failed, AlreadyDone
    <3> QED
      BY <1>0, <2>1, <2>3, <3>1, ProcessTypes DEF Remember, Request
  <2>4. CASE answer = AlreadyDone /\ DoneConflict(p) /\ UNCHANGED shown
    BY <1>0, <2>1, <2>4, ProcessTypes DEF DoneConflict, Request
  <2> QED
    BY <1>3, <2>2, <2>3, <2>4 DEF Submitted
<1>4. CASE HandleProcess(p) /\ JobRead(p)
  <2>1. /\ step[p] \in {"readActive", "poll"} /\ target[p] \in Items /\ UNCHANGED <<server, loading, rows>>
        /\ answer.code = "ok" /\ answer \notin {NoCall, Sent}
    BY <1>0, <1>4 DEF HandleProcess, JobRead, Arrived, PageInv
  <2>2. answer.view \in JobViews
    BY <1>0, <2>1 DEF ProcessFits, Failed, AlreadyDone
  <2>3. PICK n \in Nat : Follow(p, answer.view, n)
    <3>1. (IF step[p] = "poll" THEN polls[p] + 1 ELSE 0) \in Nat
      BY <1>0
    <3> QED
      BY <1>4, <3>1 DEF JobRead
  <2> QED
    BY <2>1, <2>2, <2>3, FollowTypes
<1>5. CASE HandleProcess(p) /\ Refreshed(p)
  <2>1. answer.rows \in SUBSET Rows
    BY <1>0, <1>5 DEF HandleProcess, Refreshed, Arrived, ProcessFits, Failed, AlreadyDone, Lists
  <2> QED
    BY <1>0, <1>5, <2>1, EndTypes DEF HandleProcess, Refreshed
<1>6. CASE HandleProcess(p) /\ Fails(p)
  BY <1>0, <1>6, EndTypes DEF HandleProcess, Fails
<1> QED
  BY <1>1, <1>2, <1>3, <1>4, <1>5, <1>6 DEF HandleProcess

LEMMA WebTypesInit == Init => WebTypes
<1> SUFFICES ASSUME Init
             PROVE  WebTypes
  OBVIOUS
<1>1. Budgets
  BY MaxAttemptsAssumption DEF Init, API!Init, API!Jobs, Jobs, Budgets
<1>2. polls = [p \in Pages |-> polls[p]]
  BY DEF Init
<1>3. ASSUME NEW p \in Pages
      PROVE  PageTypes(p)
  <2>1. /\ loading[p] = TRUE /\ 0 \in 0..PollAttempts - 1
        /\ call[p]["load"] = Sent /\ call[p]["create"] = NoCall /\ call[p]["process"] = NoCall
    BY PollAttemptsAssumption DEF Init, Tasks
  <2>2. LoadFits(call[p]["load"]) /\ CreateFits(call[p]["create"])
    BY <2>1 DEF LoadFits, CreateFits
  <2>3. step[p] = "idle" /\ ProcessFits(call[p]["process"], step[p])
    BY <2>1 DEF Init, ProcessFits
  <2>4. loading[p] \in BOOLEAN
    BY <2>1
  <2>5. /\ rows[p] = {} /\ target[p] = NoItem /\ job[p] = 0 /\ polls[p] = 0 /\ error[p] = "none"
        /\ \A i \in Items : shown[p][i] = NoJob
    BY DEF Init
  <2> QED
    BY <2>1, <2>2, <2>3, <2>4, <2>5 DEF PageTypes, Steps, Errors
<1> QED
  BY <1>1, <1>2, <1>3 DEF WebTypes

LEMMA WebTypesNext == WebInv /\ WebTypes /\ [Next]_vars => WebTypes'
<1> SUFFICES ASSUME WebInv, WebTypes, [Next]_vars
             PROVE  WebTypes'
  OBVIOUS
<1>1. CASE Elsewhere \/ UNCHANGED vars
  <2>1. ServerStep /\ UNCHANGED <<rows, loading, step, target, job, polls, error, shown, call>>
    BY <1>1 DEF Elsewhere, vars, server, handler, page, ServerStep
  <2>2. Budgets'
    BY <2>1, BudgetsHold DEF WebInv, WebTypes
  <2> QED
    BY <2>1, <2>2 DEF WebTypes, PageTypes
<1>2. ASSUME NEW p \in Pages,
             \/ Serve(p) \/ ServeList(p, "load") \/ ServeCreate(p)
             \/ RequestFails(p, "load") \/ RequestFails(p, "create")
      PROVE  WebTypes'
  BY <1>2, ServeTypes
<1>3. ASSUME NEW p \in Pages, Reload(p) \/ LoadItems(p) \/ StartCreate(p) \/ HandleCreate(p)
      PROVE  WebTypes'
  BY <1>3, ListTypes
<1>4. ASSUME NEW p \in Pages, HandleProcess(p) \/ Poll(p) \/ \E i \in Items : StartProcess(p, i)
      PROVE  WebTypes'
  BY <1>4, HandlerTypes
<1> QED
  BY <1>1, <1>2, <1>3, <1>4 DEF Next, Progress

(* An answer is of the request that is under way, of the kind its handler  *)
(* expects: no late answer of an earlier step is taken for one of this.    *)
(* No job spends more than its budget, and no page polls more often than   *)
(* it is allowed to.                                                       *)
THEOREM PagesKeepTypes == Spec => []TypeOK
<1>1. ASSUME WebInv, WebTypes
      PROVE  TypeOK
  <2>0. ServerInv /\ Budgets /\ Cells /\ polls = [p \in Pages |-> polls[p]] /\ \A p \in Pages : PageTypes(p)
    BY <1>1 DEF WebInv, WebTypes
  <2>1. /\ rows \in [Pages -> SUBSET Rows] /\ step \in [Pages -> Steps]
        /\ target \in [Pages -> Items \cup {NoItem}] /\ job \in [Pages -> Jobs \cup {0}]
        /\ polls \in [Pages -> 0..PollAttempts - 1] /\ error \in [Pages -> Errors]
    BY <2>0 DEF Cells, PageTypes
  <2>2. loading \in [Pages -> BOOLEAN]
    BY <2>0 DEF Cells, PageTypes
  <2>3. shown \in [Pages -> [Items -> JobViews \cup {NoJob}]]
    BY <2>0 DEF Cells, PageTypes
  <2>4. ASSUME NEW p \in Pages, NEW t \in Tasks
        PROVE  call[p][t] \in {NoCall, Sent} \cup Answers
    BY <2>0, <2>4 DEF PageTypes, Tasks, LoadFits, CreateFits, ProcessFits, Lists, Answers
  <2> QED
    BY <2>0, <2>1, <2>2, <2>3, <2>4 DEF TypeOK, ServerInv, Budgets, Steps, Errors
<1> QED
  BY <1>1, WebInit, WebNext, WebTypesInit, WebTypesNext, PTL DEF Spec

-------------------------------------------------------------------------------
(* Rows that go away *)

(* Nobody creates an item on a page that is about to replace its rows.     *)
CreatesAlone ==
  \A p \in Pages : call[p]["create"] # NoCall => call[p]["load"] = NoCall /\ ~Refreshing(p)

ItemsOf(list) == {row[1] : row \in list}

Covers(list, old) == ItemsOf(old) \subseteq ItemsOf(list) /\ ItemsOf(list) \subseteq created

(* Lists that have arrived have all rows of their page: loading and        *)
(* refreshing exclude each other, so nothing but a creation adds a row     *)
(* while a list is under way.                                              *)
RowsInv(p) ==
  /\ call[p]["load"] # NoCall => loading[p] = TRUE
  /\ step[p] # "idle" => loading[p] = FALSE
  /\ ItemsOf(rows[p]) \subseteq created
  /\ Arrived(p, "create") /\ call[p]["create"] # Failed => call[p]["create"].item \in created
  /\ Arrived(p, "load") /\ call[p]["load"] # Failed => Covers(call[p]["load"].rows, rows[p])
  /\ Arrived(p, "process") /\ Refreshing(p) /\ call[p]["process"].code = "ok" =>
       Covers(call[p]["process"].rows, rows[p])

PageRows == WebInv /\ WebTypes /\ \A p \in Pages : RowsInv(p)

Keeps(p) == loading'[p] = TRUE \/ ItemsOf(rows[p]) \subseteq ItemsOf(rows'[p])

LEMMA NewRow ==
  ASSUME NEW list, NEW i, NEW s
  PROVE  ItemsOf(list \cup {<<i, s>>}) = ItemsOf(list) \cup {i}
<1>1. <<i, s>>[1] = i
  OBVIOUS
<1>2. \A x : x \in ItemsOf(list \cup {<<i, s>>}) <=> \E row \in list \cup {<<i, s>>} : x = row[1]
  BY DEF ItemsOf
<1>3. \A x : x \in ItemsOf(list) <=> \E row \in list : x = row[1]
  BY DEF ItemsOf
<1> QED
  BY <1>1, <1>2, <1>3

LEMMA CreatedGrows == ServerStep => created \subseteq created'
BY DEF ServerStep, server, API!Next, API!Create, API!Accept, API!FailAttempt, API!Succeed, API!Jobs

LEMMA OthersKeepRows ==
  ASSUME PageRows, ServerStep, NEW p \in Pages, RowsInv(p)', Keeps(p), \A q \in Pages \ {p} : SameTypes(q)
  PROVE  \A q \in Pages : RowsInv(q)' /\ Keeps(q)
<1>1. ASSUME NEW q \in Pages \ {p}
      PROVE  RowsInv(q)' /\ Keeps(q)
  <2>1. RowsInv(q) /\ created \subseteq created' /\ ItemsOf(rows'[q]) = ItemsOf(rows[q])
    BY <1>1, CreatedGrows DEF PageRows, SameTypes, SameCells
  <2>2. \A list : Covers(list, rows[q]) => Covers(list, rows[q])'
    BY <2>1 DEF Covers, ItemsOf
  <2>3. Keeps(q)
    BY <2>1 DEF Keeps
  <2>4. RowsInv(q)'
    BY <1>1, <2>1, <2>2 DEF RowsInv, SameTypes, SameCells, Arrived, Refreshing
  <2> QED
    BY <2>3, <2>4
<1> QED
  BY <1>1

(* An answer arrives or a request is sent; the rows stay. *)
LEMMA AnswerRows ==
  ASSUME PageRows, ServerStep, NEW p \in Pages, NEW t \in Tasks, NEW a,
         Calling(p, t, a), UNCHANGED <<handler, page>>,
         t = "load" => call[p]["load"] # NoCall,
         t = "load" /\ a \notin {NoCall, Sent, Failed} => ItemsOf(a.rows) = created,
         t = "create" /\ a \notin {NoCall, Sent, Failed} => a.item \in created',
         t = "process" /\ a.code = "ok" /\ Refreshing(p) => ItemsOf(a.rows) = created
  PROVE  \A q \in Pages : RowsInv(q)' /\ Keeps(q)
<1>1. UNCHANGED <<rows, loading, step, target, job, polls, error, shown>> /\ created \subseteq created'
  BY CreatedGrows DEF handler, page
<1>2. /\ \A u \in Tasks : call'[p][u] = IF u = t THEN a ELSE call[p][u]
      /\ \A q \in Pages \ {p} : call'[q] = call[q]
  BY CallSet DEF PageRows, WebInv
<1>3. RowsInv(p) /\ {"load", "create", "process"} = Tasks
  BY DEF PageRows, Tasks
<1>4. RowsInv(p)'
  <2>1. /\ call'[p]["load"] # NoCall => loading'[p] = TRUE
        /\ step'[p] # "idle" => loading'[p] = FALSE
        /\ ItemsOf(rows'[p]) \subseteq created'
    BY <1>1, <1>2, <1>3 DEF RowsInv
  <2>2. Arrived(p, "create")' /\ call'[p]["create"] # Failed => call'[p]["create"].item \in created'
    BY <1>1, <1>2, <1>3 DEF RowsInv, Arrived
  <2>3. Arrived(p, "load")' /\ call'[p]["load"] # Failed => Covers(call[p]["load"].rows, rows[p])'
    BY <1>1, <1>2, <1>3 DEF RowsInv, Arrived, Covers
  <2>4. Arrived(p, "process")' /\ Refreshing(p)' /\ call'[p]["process"].code = "ok" =>
          Covers(call[p]["process"].rows, rows[p])'
    BY <1>1, <1>2, <1>3 DEF RowsInv, Arrived, Refreshing, Covers
  <2> QED
    BY <2>1, <2>2, <2>3, <2>4 DEF RowsInv, Failed
<1>5. Keeps(p) /\ \A q \in Pages \ {p} : SameTypes(q)
  BY <1>1, <1>2 DEF Keeps, SameTypes, SameCells
<1> QED
  BY <1>4, <1>5, OthersKeepRows

LEMMA ServeRows ==
  ASSUME PageRows, NEW p \in Pages,
         \/ Serve(p) \/ ServeList(p, "load") \/ ServeCreate(p) \/ StartCreate(p)
         \/ RequestFails(p, "load") \/ RequestFails(p, "create")
  PROVE  \A q \in Pages : RowsInv(q)' /\ Keeps(q)
<1>0. {"load", "create", "process"} = Tasks /\ PageInv(p)
  BY DEF Tasks, PageRows, WebInv
<1>1. ASSUME NEW t \in Tasks, RequestFails(p, t)
      PROVE  \A q \in Pages : RowsInv(q)' /\ Keeps(q)
  BY <1>1, AnswerRows DEF RequestFails, Served, ServerStep, Failed
<1>2. ASSUME NEW t \in {"load", "process"}, ServeList(p, t)
      PROVE  \A q \in Pages : RowsInv(q)' /\ Keeps(q)
  <2>1. ItemsOf(Listed(ListWorkItems).rows) = created
    <3>1. Listed(ListWorkItems).rows = ListWorkItems
      BY DEF Listed
    <3>2. \A row \in ListWorkItems : row[1] \in created
      BY DEF ListWorkItems
    <3>3. ASSUME NEW i \in created
          PROVE  \E row \in ListWorkItems : row[1] = i
      <4>1. <<i, IF Done(i) THEN "done" ELSE "pending">> \in ListWorkItems
        BY DEF ListWorkItems
      <4>2. <<i, IF Done(i) THEN "done" ELSE "pending">>[1] = i
        OBVIOUS
      <4> QED
        BY <4>1, <4>2
    <3> QED
      BY <3>1, <3>2, <3>3 DEF ItemsOf
  <2>2. call[p]["load"] # NoCall \/ t # "load"
    BY <1>2, CallAssumption DEF ServeList
  <2> QED
    BY <1>0, <1>2, <2>1, <2>2, AnswerRows DEF ServeList, Served, ServerStep
<1>3. CASE ServeCreate(p)
  <2>1. PICK i \in Items : API!Create(i) /\ Served(p, "create", Created(i))
    BY <1>3 DEF ServeCreate
  <2>2. ServerStep /\ Created(i).item \in created'
    BY <2>1 DEF ServerStep, API!Next, API!Create, Created
  <2> QED
    BY <1>0, <2>1, <2>2, AnswerRows DEF Served
<1>4. CASE StartCreate(p)
  BY <1>0, <1>4, AnswerRows DEF StartCreate, ServerStep
<1>5. CASE ServeProcess(p) \/ ServeJob(p)
  <2>1. ~Refreshing(p)
    BY <1>5 DEF ServeProcess, ServeJob, Refreshing
  <2>2. ServerStep
    BY <1>0, <1>5 DEF ServeProcess, ServeJob, ServerStep, API!Next, API!Jobs, Jobs, PageInv
  <2>3. UNCHANGED <<handler, page>> /\ \E a : Calling(p, "process", a)
    BY <1>5 DEF ServeProcess, ServeJob, Served
  <2> QED
    BY <1>0, <2>1, <2>2, <2>3, AnswerRows
<1> QED
  BY <1>0, <1>1, <1>2, <1>3, <1>4, <1>5 DEF Serve

(* Rows are replaced by lists that cover them; a new row is added when no  *)
(* list is under way.                                                      *)
LEMMA PageRowsStep ==
  ASSUME PageRows, CreatesAlone, NEW p \in Pages,
         Reload(p) \/ LoadItems(p) \/ HandleCreate(p)
  PROVE  \A q \in Pages : RowsInv(q)' /\ Keeps(q)
<1>0. /\ RowsInv(p) /\ Cells /\ PageTypes(p) /\ polls = [q \in Pages |-> polls[q]]
      /\ {"load", "create", "process"} = Tasks
  BY DEF PageRows, WebInv, WebTypes, Tasks
<1>1. ServerStep /\ UNCHANGED created
  BY DEF Reload, LoadItems, HandleCreate, ServerStep, server
<1>2. CASE Reload(p)
  <2>1. /\ \A q \in Pages \ {p} : SameTypes(q)
        /\ rows'[p] = {} /\ loading'[p] = TRUE /\ step'[p] = "idle"
        /\ call'[p] = [t \in Tasks |-> IF t = "load" THEN Sent ELSE NoCall]
    BY <1>0, <1>2 DEF Reload, Set, Cells, SameTypes, SameCells
  <2>2. call'[p]["load"] = Sent /\ call'[p]["create"] = NoCall /\ call'[p]["process"] = NoCall
    BY <1>0, <2>1
  <2>3. ItemsOf({}) = {}
    BY DEF ItemsOf
  <2>4. RowsInv(p)'
    BY <2>1, <2>2, <2>3 DEF RowsInv, Arrived
  <2> QED
    BY <1>1, <2>1, <2>4, OthersKeepRows DEF Keeps
<1>3. CASE LoadItems(p)
  <2>1. /\ call'[p]["load"] = NoCall
        /\ call'[p]["create"] = call[p]["create"] /\ call'[p]["process"] = call[p]["process"]
        /\ \A q \in Pages \ {p} : call'[q] = call[q]
    BY <1>0, <1>3, CallSet DEF LoadItems
  <2>2. /\ \A q \in Pages \ {p} : SameTypes(q)
        /\ step'[p] = step[p] /\ loading'[p] = FALSE
    BY <1>0, <1>3, <2>1 DEF LoadItems, handler, Set, Cells, SameTypes, SameCells
  <2>3. step[p] = "idle"
    BY <1>0, <1>3 DEF LoadItems, Arrived, RowsInv
  <2>4. ItemsOf(rows[p]) \subseteq ItemsOf(rows'[p]) /\ ItemsOf(rows'[p]) \subseteq created
    <3>1. CASE rows' = rows
      BY <1>0, <3>1 DEF RowsInv
    <3>2. CASE call[p]["load"] # Failed /\ rows' = Set(rows, p, call[p]["load"].rows)
      <4>1. rows'[p] = call[p]["load"].rows
        BY <1>0, <3>2 DEF Set, Cells
      <4> QED
        BY <1>0, <1>3, <3>2, <4>1 DEF RowsInv, LoadItems, Covers
    <3> QED
      BY <1>3, <3>1, <3>2 DEF LoadItems
  <2>5. RowsInv(p)'
    BY <1>0, <1>1, <2>1, <2>2, <2>3, <2>4 DEF RowsInv, Arrived, Refreshing
  <2> QED
    BY <1>1, <2>2, <2>4, <2>5, OthersKeepRows DEF Keeps
<1>4. CASE HandleCreate(p)
  <2>1. /\ call'[p]["create"] = NoCall
        /\ call'[p]["load"] = call[p]["load"] /\ call'[p]["process"] = call[p]["process"]
        /\ \A q \in Pages \ {p} : call'[q] = call[q]
    BY <1>0, <1>4, CallSet DEF HandleCreate
  <2>2. /\ \A q \in Pages \ {p} : SameTypes(q)
        /\ step'[p] = step[p] /\ loading'[p] = loading[p]
    BY <1>0, <1>4, <2>1 DEF HandleCreate, handler, Set, Cells, SameTypes, SameCells
  <2>3. call[p]["load"] = NoCall /\ ~Refreshing(p)
    BY <1>4 DEF CreatesAlone, HandleCreate, Arrived
  <2>4. ItemsOf(rows[p]) \subseteq ItemsOf(rows'[p]) /\ ItemsOf(rows'[p]) \subseteq created
    <3>1. CASE rows' = rows
      BY <1>0, <3>1 DEF RowsInv
    <3>2. CASE /\ call[p]["create"] # Failed
               /\ rows' = Set(rows, p, rows[p] \cup {<<call[p]["create"].item, "pending">>})
      <4>1. rows'[p] = rows[p] \cup {<<call[p]["create"].item, "pending">>}
        BY <1>0, <3>2 DEF Set, Cells
      <4>2. call[p]["create"].item \in created
        BY <1>0, <1>4, <3>2 DEF RowsInv, HandleCreate
      <4>3. ItemsOf(rows'[p]) = ItemsOf(rows[p]) \cup {call[p]["create"].item}
        <5>1. PICK i : i = call[p]["create"].item
          OBVIOUS
        <5>2. PICK list : list = rows[p]
          OBVIOUS
        <5>3. ItemsOf(list \cup {<<i, "pending">>}) = ItemsOf(list) \cup {i}
          BY NewRow
        <5> QED
          BY <4>1, <5>1, <5>2, <5>3
      <4> QED
        BY <1>0, <4>2, <4>3 DEF RowsInv
    <3> QED
      BY <1>4, <3>1, <3>2 DEF HandleCreate
  <2>5. RowsInv(p)'
    BY <1>0, <1>1, <2>1, <2>2, <2>3, <2>4 DEF RowsInv, Arrived, Refreshing
  <2> QED
    BY <1>1, <2>2, <2>4, <2>5, OthersKeepRows DEF Keeps
<1> QED
  BY <1>2, <1>3, <1>4

LEMMA HandlerRows ==
  ASSUME PageRows, NEW p \in Pages,
         HandleProcess(p) \/ Poll(p) \/ \E i \in Items : StartProcess(p, i)
  PROVE  \A q \in Pages : RowsInv(q)' /\ Keeps(q)
<1> DEFINE answer == call[p]["process"]
<1>0. /\ RowsInv(p) /\ Cells /\ PageTypes(p) /\ polls = [q \in Pages |-> polls[q]]
      /\ {"load", "create", "process"} = Tasks
  BY DEF PageRows, WebInv, WebTypes, Tasks
<1>1. /\ ServerStep /\ UNCHANGED <<created, loading>>
      /\ \E value \in {NoCall, Sent} : Calling(p, "process", value)
  BY DEF HandleProcess, Poll, StartProcess, Submitted, JobRead, Refreshed, Fails, Follow, DoneConflict,
         Request, End, ServerStep, server
<1>2. /\ call'[p]["process"] \in {NoCall, Sent}
      /\ call'[p]["load"] = call[p]["load"] /\ call'[p]["create"] = call[p]["create"]
      /\ \A q \in Pages \ {p} : call'[q] = call[q]
  BY <1>0, <1>1, CallSet
<1>3. loading[p] = FALSE
  BY <1>0 DEF HandleProcess, Poll, StartProcess, Submitted, JobRead, Refreshed, Fails, RowsInv, Arrived,
              PageTypes, ProcessFits, Steps
<1>4. ItemsOf(rows[p]) \subseteq ItemsOf(rows'[p]) /\ ItemsOf(rows'[p]) \subseteq created
  <2>1. CASE rows' = rows
    BY <1>0, <2>1 DEF RowsInv
  <2>2. CASE HandleProcess(p) /\ Refreshed(p)
    <3>1. rows'[p] = answer.rows
      BY <1>0, <2>2 DEF Refreshed, Set, Cells
    <3> QED
      BY <1>0, <2>2, <3>1 DEF HandleProcess, Refreshed, Refreshing, RowsInv, Covers
  <2> QED
    BY <2>1, <2>2 DEF HandleProcess, Poll, StartProcess, Submitted, JobRead, Fails
<1>5. RowsInv(p)'
  BY <1>0, <1>1, <1>2, <1>3, <1>4 DEF RowsInv, Arrived
<1>6. \A q \in Pages \ {p} : SameTypes(q)
  <2>1. \A q \in Pages \ {p} : shown'[q] = shown[q]
    <3>1. \A v : Cells /\ shown' = [shown EXCEPT ![p][target[p]] = v] => \A q \in Pages \ {p} : shown'[q] = shown[q]
      BY DEF Cells
    <3> QED
      BY <1>0, <3>1 DEF HandleProcess, Poll, StartProcess, Submitted, JobRead, Refreshed, Fails, Follow, Cells
  <2>2. \A q \in Pages \ {p} : rows'[q] = rows[q]
    BY <1>0 DEF HandleProcess, Poll, StartProcess, Submitted, JobRead, Refreshed, Fails, Set, Cells
  <2>3. \A q \in Pages \ {p} : /\ step'[q] = step[q] /\ target'[q] = target[q] /\ error'[q] = error[q]
                               /\ job'[q] = job[q] /\ polls'[q] = polls[q]
    <3>1. \A e : End(p, e) => \A q \in Pages \ {p} :
            /\ step'[q] = step[q] /\ target'[q] = target[q] /\ error'[q] = error[q]
            /\ job'[q] = job[q] /\ polls'[q] = polls[q]
      BY <1>0 DEF End, Remember, Set, Cells
    <3>2. \A s : Request(p, s) => \A q \in Pages \ {p} :
            step'[q] = step[q] /\ target'[q] = target[q] /\ error'[q] = error[q]
      BY <1>0 DEF Request, Set, Cells
    <3>3. \A j, n : Remember(p, j, n) => \A q \in Pages \ {p} : job'[q] = job[q] /\ polls'[q] = polls[q]
      BY <1>0 DEF Remember, Set, Cells
    <3>4. \A view, n : Follow(p, view, n) => \A q \in Pages \ {p} :
            /\ step'[q] = step[q] /\ target'[q] = target[q] /\ error'[q] = error[q]
            /\ job'[q] = job[q] /\ polls'[q] = polls[q]
      BY <1>0, <3>1, <3>2, <3>3 DEF Follow, Set, Cells
    <3>5. CASE HandleProcess(p)
      BY <3>1, <3>2, <3>3, <3>4, <3>5 DEF HandleProcess, Submitted, JobRead, Refreshed, Fails, DoneConflict
    <3>6. CASE Poll(p)
      BY <3>2, <3>6 DEF Poll
    <3>7. CASE \E i \in Items : StartProcess(p, i)
      BY <1>0, <3>7 DEF StartProcess, Set, Cells
    <3> QED
      BY <3>5, <3>6, <3>7
  <2> QED
    BY <1>1, <1>2, <2>1, <2>2, <2>3 DEF SameTypes, SameCells
<1> QED
  BY <1>1, <1>4, <1>5, <1>6, OthersKeepRows DEF Keeps

(* A row that a user created disappears in one case alone: the creation    *)
(* overlapped the loading or the refresh of the list on the same page.     *)
(* Overlapping requests of other pages, lost answers, late lists and       *)
(* failures never take a row away.                                         *)
THEOREM OnlyOverlapsDropRows == Spec /\ []CreatesAlone => RowsStay
<1>1. Init => PageRows
  <2> SUFFICES ASSUME Init
               PROVE  \A p \in Pages : RowsInv(p)
    BY WebInit, WebTypesInit DEF PageRows
  <2>1. ASSUME NEW p \in Pages
        PROVE  RowsInv(p)
    <3>1. /\ call[p]["load"] = Sent /\ call[p]["create"] = NoCall /\ call[p]["process"] = NoCall
          /\ loading[p] = TRUE /\ step[p] = "idle" /\ rows[p] = {}
      BY DEF Init, Tasks
    <3>2. ItemsOf(rows[p]) = {}
      BY <3>1 DEF ItemsOf
    <3> QED
      BY <3>1, <3>2 DEF RowsInv, Arrived
  <2> QED
    BY <2>1
<1>2. ASSUME PageRows, CreatesAlone, [Next]_vars
      PROVE  PageRows' /\ \A p \in Pages : Keeps(p)
  <2>1. WebInv' /\ WebTypes'
    BY <1>2, WebNext, WebTypesNext DEF PageRows
  <2>2. CASE Elsewhere \/ UNCHANGED vars
    <3>1. ServerStep /\ UNCHANGED <<rows, loading, step, target, job, polls, error, shown, call>>
      BY <2>2 DEF Elsewhere, vars, server, handler, page, ServerStep
    <3> QED
      BY <1>2, <2>1, <3>1, CreatedGrows DEF PageRows, RowsInv, Keeps, Covers, Arrived, Refreshing
  <2>3. CASE \E p \in Pages : \/ Serve(p) \/ ServeList(p, "load") \/ ServeCreate(p) \/ StartCreate(p)
                              \/ RequestFails(p, "load") \/ RequestFails(p, "create")
    BY <1>2, <2>1, <2>3, ServeRows DEF PageRows
  <2>4. CASE \E p \in Pages : Reload(p) \/ LoadItems(p) \/ HandleCreate(p)
    BY <1>2, <2>1, <2>4, PageRowsStep DEF PageRows
  <2>5. CASE \E p \in Pages : HandleProcess(p) \/ Poll(p) \/ \E i \in Items : StartProcess(p, i)
    BY <1>2, <2>1, <2>5, HandlerRows DEF PageRows
  <2> QED
    BY <1>2, <2>2, <2>3, <2>4, <2>5 DEF Next, Progress
<1>3. PageRows /\ CreatesAlone /\ [Next]_vars =>
        PageRows' /\ [\A p \in Pages :
                        loading'[p] \/ {r[1] : r \in rows[p]} \subseteq {r[1] : r \in rows'[p]}]_vars
  BY <1>2 DEF Keeps, ItemsOf
<1> QED
  BY <1>1, <1>3, PTL DEF Spec, RowsStay
===============================================================================
