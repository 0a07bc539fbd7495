---------------------- MODULE ApplicationLifecycleProofs ----------------------
(***************************************************************************)
(* The orderly end of the API process, for any number of connections: the  *)
(* store outlives what uses it, success means what it says, and readiness  *)
(* is withdrawn in time.                                                   *)
(***************************************************************************)
EXTENDS ApplicationLifecycle, SequenceTheorems, TLAPS

H == "HTTP server"
P == "outbox publisher"

HTTPReturned == http = "returned"
PublisherReturned == publisher = "returned"

(* What the channel can hold. *)
Empty == <<>>
One(a) == <<a>>
Two(a, b) == <<a, b>>

(* Where the server is says what the goroutine of Serve, the readiness     *)
(* flag and the handlers can be: only a shutdown that succeeded has waited *)
(* for them, and any other return is an error.                             *)
ServerInv ==
  /\ http = "listen" => serve = "none" /\ inFlight = {}
  /\ http = "select" => serve \in {"accepting", "failed"}
  /\ http \in {"drain", "takeServeError", "returned"} => serve # "accepting"
  /\ ready => http = "select"
  /\ http = "takeServeError" => inFlight = {}
  /\ HTTPReturned => H \in errors \/ inFlight = {}

(* Every service that returned is waiting in the channel or was received,  *)
(* and a received error is not forgotten.                                  *)
ResultsInv ==
  /\ H \in errors => HTTPReturned
  /\ P \in errors => PublisherReturned
  /\ main = "first" =>
       \/ results = Empty /\ ~HTTPReturned /\ ~PublisherReturned
       \/ results = One(H) /\ HTTPReturned /\ ~PublisherReturned
       \/ results = One(P) /\ ~HTTPReturned /\ PublisherReturned
       \/ results \in {Two(H, P), Two(P, H)} /\ HTTPReturned /\ PublisherReturned
  /\ main = "second" =>
       \/ results = Empty /\ HTTPReturned /\ ~PublisherReturned /\ (H \in errors => failed)
       \/ results = Empty /\ ~HTTPReturned /\ PublisherReturned /\ (P \in errors => failed)
       \/ results = One(P) /\ HTTPReturned /\ PublisherReturned /\ (H \in errors => failed)
       \/ results = One(H) /\ HTTPReturned /\ PublisherReturned /\ (P \in errors => failed)
  /\ main = "return" =>
       results = Empty /\ HTTPReturned /\ PublisherReturned /\ (errors # {} => failed)

(* How the process ends, and that the publisher leaves no connection.      *)
ExitInv ==
  /\ main # "first" /\ ~failed => signalled
  /\ exit # "none" => main = "return"
  /\ exit = "success" => ~failed
  /\ ~storeOpen => exit = "success"
  /\ PublisherReturned => ~connected

LifecycleInv == TypeOK /\ ServerInv /\ ResultsInv /\ ExitInv

-------------------------------------------------------------------------------
(* The channel holds at most one result of each service. *)

LEMMA AppendSecond == ASSUME NEW a, NEW b PROVE Append(<<a>>, b) = <<a, b>>
<1> DEFINE s == Append(<<a>>, b)
           t == <<a, b>>
           S == {a, b}
<1>1. s \in Seq(S) /\ t \in Seq(S) /\ <<a>> \in Seq(S)
  OBVIOUS
<1>2. Len(<<a>>) = 1 /\ <<a>>[1] = a
  OBVIOUS
<1>3. Len(s) = 2 /\ s[1] = a /\ s[2] = b
  BY <1>1, <1>2, AppendProperties
<1>4. Len(t) = 2 /\ t[1] = a /\ t[2] = b
  OBVIOUS
<1> HIDE DEF s, t
<1>5. s = t
  BY <1>1, <1>3, <1>4, SeqEqual
<1> QED
  BY <1>5 DEF s, t

LEMMA Sending ==
  ASSUME NEW a, NEW b
  PROVE  Append(Empty, a) = One(a) /\ Append(One(a), b) = Two(a, b)
<1>1. Append(Empty, a) = One(a)
  BY DEF Empty, One
<1>2. Append(One(a), b) = Two(a, b)
  BY AppendSecond DEF One, Two
<1> QED
  BY <1>1, <1>2

LEMMA Receiving ==
  ASSUME NEW a, NEW b
  PROVE  /\ Head(One(a)) = a /\ Tail(One(a)) = Empty
         /\ Head(Two(a, b)) = a /\ Tail(Two(a, b)) = One(b)
<1>1. Head(<<a>>) = a /\ Tail(<<a>>) = <<>> /\ Head(<<a, b>>) = a
  OBVIOUS
<1>2. Tail(<<a, b>>) = <<b>>
  OBVIOUS
<1> QED
  BY <1>1, <1>2 DEF Empty, One, Two

LEMMA ChannelHolds ==
  /\ Empty \in Seq(Services) /\ Len(Empty) <= 2
  /\ \A a \in Services : One(a) \in Seq(Services) /\ Len(One(a)) <= 2
  /\ \A a, b \in Services : Two(a, b) \in Seq(Services) /\ Len(Two(a, b)) <= 2
BY DEF Empty, One, Two

(* A service that had not returned returns with an outcome.                *)
LEMMA ReturnHTTPStep ==
  ASSUME LifecycleInv, NEW outcome \in {"nil", "error"}, http # "returned", ReturnHTTP(outcome),
         UNCHANGED <<main, failed, publisher>>
  PROVE  /\ ResultsInv' /\ results' \in Seq(Services) /\ Len(results') <= 2
         /\ errors' \subseteq Services
<1> USE DEF LifecycleInv, HTTPReturned, PublisherReturned
<1>1. /\ http' = "returned" /\ results' = Append(results, H)
      /\ errors' = IF outcome = "error" THEN errors \cup {H} ELSE errors
  BY DEF ReturnHTTP, Return, H
<1>2. H \in Services /\ P \in Services /\ H # P
  BY DEF H, P, Services
<1>3. /\ HTTPReturned' /\ (PublisherReturned' <=> PublisherReturned) /\ (P \in errors' <=> P \in errors)
      /\ errors' \subseteq Services
      /\ P \in errors => PublisherReturned
      /\ UNCHANGED <<main, failed>>
  BY <1>1, <1>2 DEF ResultsInv, TypeOK
<1>4. CASE main = "first"
  <2>1. \/ results = Empty /\ results' = One(H) /\ ~PublisherReturned
        \/ results = One(P) /\ results' = Two(P, H) /\ PublisherReturned
    BY <1>1, <1>4, Sending DEF ResultsInv
  <2>2. results' \in Seq(Services) /\ Len(results') <= 2
    BY <1>2, <2>1, ChannelHolds
  <2>3. ResultsInv'
    BY <1>3, <1>4, <2>1 DEF ResultsInv
  <2> QED
    BY <1>3, <2>2, <2>3
<1>5. CASE main = "second"
  <2>1. results = Empty /\ results' = One(H) /\ PublisherReturned /\ (P \in errors => failed)
    BY <1>1, <1>5, Sending DEF ResultsInv
  <2>2. results' \in Seq(Services) /\ Len(results') <= 2
    BY <1>2, <2>1, ChannelHolds
  <2>3. ResultsInv'
    BY <1>3, <1>5, <2>1 DEF ResultsInv
  <2> QED
    BY <1>3, <2>2, <2>3
<1> QED
  BY <1>4, <1>5 DEF ResultsInv, TypeOK

LEMMA ReturnPublisherStep ==
  ASSUME LifecycleInv, publisher # "returned", ReturnPublisher, UNCHANGED <<main, failed, http>>
  PROVE  /\ ResultsInv' /\ results' \in Seq(Services) /\ Len(results') <= 2
         /\ errors' \subseteq Services
<1> USE DEF LifecycleInv, HTTPReturned, PublisherReturned
<1>1. /\ publisher' = "returned" /\ results' = Append(results, P)
      /\ errors' \in {errors, errors \cup {P}}
  BY DEF ReturnPublisher, Return, P
<1>2. H \in Services /\ P \in Services /\ H # P
  BY DEF H, P, Services
<1>3. /\ PublisherReturned' /\ (HTTPReturned' <=> HTTPReturned) /\ (H \in errors' <=> H \in errors)
      /\ errors' \subseteq Services
      /\ H \in errors => HTTPReturned
      /\ UNCHANGED <<main, failed>>
  BY <1>1, <1>2 DEF ResultsInv, TypeOK
<1>4. CASE main = "first"
  <2>1. \/ results = Empty /\ results' = One(P) /\ ~HTTPReturned
        \/ results = One(H) /\ results' = Two(H, P) /\ HTTPReturned
    BY <1>1, <1>4, Sending DEF ResultsInv
  <2>2. results' \in Seq(Services) /\ Len(results') <= 2
    BY <1>2, <2>1, ChannelHolds
  <2>3. ResultsInv'
    BY <1>3, <1>4, <2>1 DEF ResultsInv
  <2> QED
    BY <1>3, <2>2, <2>3
<1>5. CASE main = "second"
  <2>1. results = Empty /\ results' = One(P) /\ HTTPReturned /\ (H \in errors => failed)
    BY <1>1, <1>5, Sending DEF ResultsInv
  <2>2. results' \in Seq(Services) /\ Len(results') <= 2
    BY <1>2, <2>1, ChannelHolds
  <2>3. ResultsInv'
    BY <1>3, <1>5, <2>1 DEF ResultsInv
  <2> QED
    BY <1>3, <2>2, <2>3
<1> QED
  BY <1>4, <1>5 DEF ResultsInv, TypeOK

-------------------------------------------------------------------------------
(* runApplication receives. *)

LEMMA MainStepKeeps ==
  ASSUME LifecycleInv, MainStep, exit = "none"
  PROVE  LifecycleInv'
<1> USE DEF LifecycleInv, HTTPReturned, PublisherReturned
<1>0. H \in Services /\ P \in Services /\ H # P /\ errors \subseteq {H, P}
  BY DEF H, P, Services, TypeOK
<1>1. CASE ReceiveFirst
  <2>1. /\ main = "first" /\ main' = "second" /\ results # Empty
        /\ failed' = (Head(results) \in errors \/ ~signalled) /\ results' = Tail(results)
        /\ UNCHANGED <<signalled, exit, storeOpen, errors, server, inFlight, broker>>
    BY <1>1 DEF ReceiveFirst, Empty
  <2>2. \/ Head(results) = H /\ results' = Empty /\ HTTPReturned /\ ~PublisherReturned
        \/ Head(results) = P /\ results' = Empty /\ ~HTTPReturned /\ PublisherReturned
        \/ Head(results) = H /\ results' = One(P) /\ HTTPReturned /\ PublisherReturned
        \/ Head(results) = P /\ results' = One(H) /\ HTTPReturned /\ PublisherReturned
    BY <2>1, Receiving DEF ResultsInv
  <2>3. ResultsInv'
    BY <1>0, <2>1, <2>2 DEF ResultsInv, server, broker
  <2>4. TypeOK'
    BY <1>0, <1>1, <2>1, <2>2, ChannelHolds DEF TypeOK, ReceiveFirst, server, broker
  <2>5. ServerInv' /\ ExitInv'
    BY <2>1 DEF ServerInv, ExitInv, server, broker
  <2> QED
    BY <2>3, <2>4, <2>5
<1>2. CASE ReceiveSecond
  <2>1. /\ main = "second" /\ main' = "return" /\ results # Empty
        /\ failed' = (failed \/ Head(results) \in errors) /\ results' = Tail(results)
        /\ UNCHANGED <<signalled, exit, storeOpen, errors, server, inFlight, broker>>
    BY <1>2 DEF ReceiveSecond, Empty
  <2>2. /\ results' = Empty /\ HTTPReturned /\ PublisherReturned
        /\ \/ Head(results) = P /\ (H \in errors => failed)
           \/ Head(results) = H /\ (P \in errors => failed)
    BY <2>1, Receiving DEF ResultsInv
  <2>3. ResultsInv'
    BY <1>0, <2>1, <2>2 DEF ResultsInv, server, broker
  <2>4. TypeOK'
    BY <1>2, <2>1, <2>2, ChannelHolds DEF TypeOK, ReceiveSecond, server, broker
  <2>5. ServerInv' /\ ExitInv'
    BY <2>1 DEF ServerInv, ExitInv, server, broker, TypeOK
  <2> QED
    BY <2>3, <2>4, <2>5
<1>3. CASE Exit
  <2>1. /\ main = "return" /\ storeOpen' \in BOOLEAN /\ exit' \in {"success", "failure"}
        /\ exit' = "success" => ~failed
        /\ ~storeOpen' => exit' = "success"
        /\ UNCHANGED <<signalled, cancelled, main, failed, results, errors, server, inFlight, broker>>
    BY <1>3 DEF Exit, TypeOK, ExitInv
  <2>2. TypeOK'
    BY <2>1 DEF TypeOK, server, broker
  <2>3. ServerInv' /\ ResultsInv' /\ ExitInv'
    BY <2>1 DEF ServerInv, ResultsInv, ExitInv, server, broker
  <2> QED
    BY <2>2, <2>3
<1> QED
  BY <1>1, <1>2, <1>3 DEF MainStep

-------------------------------------------------------------------------------
(* The services *)

LEMMA HTTPStepKeeps ==
  ASSUME LifecycleInv, HTTPStep, exit = "none"
  PROVE  LifecycleInv'
<1> USE DEF LifecycleInv, HTTPReturned, PublisherReturned
<1>0. /\ storeOpen
      /\ http # "select" => ready = FALSE
  BY DEF ExitInv, ServerInv, TypeOK
<1>1. UNCHANGED <<control, inFlight, broker>>
  BY DEF HTTPStep, Listen, ServeErrorSelected, ShutdownSelected, CloseListener, Drained,
     GracePeriodEnds, TakeServeError
<1>2. ExitInv'
  BY <1>1 DEF ExitInv, control, broker
<1>3. ASSUME NEW outcome \in {"nil", "error"}, ReturnHTTP(outcome), http # "returned",
             serve' \in {"none", serve}, serve' # "accepting", ready' = FALSE,
             outcome = "error" \/ inFlight = {}
      PROVE  LifecycleInv'
  <2>1. /\ ResultsInv' /\ results' \in Seq(Services) /\ Len(results') <= 2
        /\ errors' \subseteq Services
    BY <1>1, <1>3, ReturnHTTPStep DEF control, broker
  <2>2. TypeOK'
    BY <1>1, <1>3, <2>1 DEF TypeOK, ReturnHTTP, control, broker
  <2>3. ServerInv'
    BY <1>1, <1>3 DEF ServerInv, ReturnHTTP, Return, H
  <2> QED
    BY <1>2, <2>1, <2>2, <2>3
<1>4. ASSUME UNCHANGED <<results, errors>>, http # "returned", http' # "returned",
             ServerInv', TypeOK'
      PROVE  LifecycleInv'
  BY <1>1, <1>2, <1>4 DEF ResultsInv, control, broker
<1>5. CASE Listen
  <2>1. CASE ReturnHTTP("error") /\ UNCHANGED <<serve, ready>>
    BY <1>0, <1>3, <1>5, <2>1 DEF Listen, ServerInv
  <2>2. CASE ready' = TRUE /\ serve' = "accepting" /\ http' = "select" /\ UNCHANGED <<results, errors>>
    <3>1. http = "listen"
      BY <1>5 DEF Listen
    <3>2. ServerInv'
      BY <2>2 DEF ServerInv
    <3>3. TypeOK'
      BY <1>1, <2>2 DEF TypeOK, control, broker
    <3> QED
      BY <1>4, <2>2, <3>1, <3>2, <3>3
  <2> QED
    BY <1>5, <2>1, <2>2 DEF Listen
<1>6. CASE ServeErrorSelected
  BY <1>3, <1>6 DEF ServeErrorSelected
<1>7. CASE ShutdownSelected \/ CloseListener \/ Drained
  <2>1. /\ UNCHANGED <<results, errors>> /\ http # "returned" /\ http' # "returned"
    BY <1>7 DEF ShutdownSelected, CloseListener, Drained
  <2>2. /\ http' \in {"shutdown", "drain", "takeServeError"}
        /\ serve' \in {serve, "closed"}
        /\ ready' = ready \/ ready' = FALSE
    BY <1>7 DEF ShutdownSelected, CloseListener, Drained
  <2>3. TypeOK'
    <3>1. /\ ready' \in BOOLEAN /\ serve' \in {"none", "accepting", "failed", "closed"}
          /\ http' \in {"listen", "select", "shutdown", "drain", "takeServeError", "returned"}
      BY <2>2 DEF TypeOK
    <3> QED
      BY <1>1, <2>1, <3>1 DEF TypeOK, control, broker
  <2>4. ServerInv'
    <3>1. CASE ShutdownSelected
      BY <3>1 DEF ShutdownSelected, ServerInv
    <3>2. CASE CloseListener
      BY <1>0, <1>1, <3>2 DEF CloseListener, ServerInv
    <3>3. CASE Drained
      BY <1>0, <1>1, <3>3 DEF Drained, ServerInv
    <3> QED
      BY <1>7, <3>1, <3>2, <3>3
  <2> QED
    BY <1>4, <2>1, <2>3, <2>4
<1>8. CASE GracePeriodEnds
  BY <1>0, <1>3, <1>8 DEF GracePeriodEnds, ServerInv
<1>9. CASE TakeServeError
  <2>1. PICK outcome \in {"nil", "error"} : ReturnHTTP(outcome)
    BY <1>9 DEF TakeServeError
  <2> QED
    BY <1>0, <1>3, <1>9, <2>1 DEF TakeServeError, ReturnHTTP, Return, ServerInv
<1> QED
  BY <1>5, <1>6, <1>7, <1>8, <1>9 DEF HTTPStep

LEMMA PublisherStepKeeps ==
  ASSUME LifecycleInv, PublisherStep, exit = "none"
  PROVE  LifecycleInv'
<1> USE DEF LifecycleInv, HTTPReturned, PublisherReturned
<1>1. UNCHANGED <<control, server, inFlight>> /\ publisher # "returned"
  BY DEF PublisherStep, CheckContext, Connect, Attempt, DelayEnds, DelayCancelled, Delays
<1>2. CASE ReturnPublisher
  <2>1. /\ ResultsInv' /\ results' \in Seq(Services) /\ Len(results') <= 2
        /\ errors' \subseteq Services
    BY <1>1, <1>2, ReturnPublisherStep DEF control, server
  <2>2. publisher' = "returned" /\ connected' = FALSE /\ errors \subseteq errors'
    BY <1>2 DEF ReturnPublisher, Return
  <2>3. TypeOK' /\ ServerInv' /\ ExitInv'
    BY <1>1, <2>1, <2>2 DEF TypeOK, ServerInv, ExitInv, control, server
  <2> QED
    BY <2>1, <2>3
<1>3. CASE ~ReturnPublisher
  <2>1. /\ UNCHANGED <<results, errors>> /\ publisher' # "returned" /\ connected' \in BOOLEAN
        /\ publisher' \in {"check", "connect", "attempt"} \cup Delays
    BY <1>3 DEF PublisherStep, CheckContext, Connect, Attempt, DelayEnds, DelayCancelled, Delays,
       NoReturn, TypeOK
  <2>2. TypeOK'
    BY <1>1, <2>1 DEF TypeOK, Delays, control, server
  <2>3. ServerInv' /\ ResultsInv' /\ ExitInv'
    BY <1>1, <2>1 DEF ServerInv, ResultsInv, ExitInv, control, server
  <2> QED
    BY <2>2, <2>3
<1> QED
  BY <1>2, <1>3

LEMMA OthersKeep ==
  ASSUME LifecycleInv, exit = "none",
         Signal \/ ServeFails \/ \E r \in Requests : StartRequest(r) \/ EndRequest(r)
  PROVE  LifecycleInv'
<1> USE DEF LifecycleInv, HTTPReturned, PublisherReturned
<1>1. /\ UNCHANGED <<cancelled, main, failed, exit, storeOpen, results, errors, http, ready, broker>>
      /\ signalled' \in BOOLEAN /\ (signalled => signalled')
  BY DEF Signal, ServeFails, StartRequest, EndRequest, control, server, TypeOK
<1>2. /\ serve' = serve \/ (serve = "accepting" /\ serve' = "failed")
      /\ inFlight' \subseteq Requests
      /\ inFlight' \subseteq inFlight \/ serve = "accepting"
  BY DEF Signal, ServeFails, StartRequest, EndRequest, server, TypeOK
<1>3. TypeOK'
  BY <1>1, <1>2 DEF TypeOK, broker
<1>4. ServerInv'
  BY <1>1, <1>2 DEF ServerInv
<1>5. ResultsInv' /\ ExitInv'
  BY <1>1 DEF ResultsInv, ExitInv, broker
<1> QED
  BY <1>3, <1>4, <1>5

-------------------------------------------------------------------------------
(* The inductive invariant holds in every reachable state. *)
THEOREM LifecycleInvariant == Spec => []LifecycleInv
<1>1. Init => LifecycleInv
  BY ChannelHolds DEF Init, Empty, H, P, LifecycleInv, TypeOK, ServerInv, ResultsInv, ExitInv, HTTPReturned,
     PublisherReturned
<1>2. LifecycleInv /\ [Next]_vars => LifecycleInv'
  <2> SUFFICES ASSUME LifecycleInv, [Next]_vars PROVE LifecycleInv'
    OBVIOUS
  <2>1. CASE UNCHANGED vars
    BY <2>1 DEF vars, control, server, broker, LifecycleInv, TypeOK, ServerInv, ResultsInv, ExitInv,
       HTTPReturned, PublisherReturned
  <2>2. CASE exit = "none" /\ Running
    BY <2>2, MainStepKeeps, HTTPStepKeeps, PublisherStepKeeps, OthersKeep DEF Running
  <2> QED
    BY <2>1, <2>2 DEF Next, Exited
<1> QED
  BY <1>1, <1>2, PTL DEF Spec

(* Every part of the process is where its code can be, and the channel is  *)
(* never fuller than its two places: a service that returns never waits    *)
(* for somebody to take its result.                                        *)
THEOREM LifecycleTypes == Spec => []TypeOK
<1>1. LifecycleInv => TypeOK
  BY DEF LifecycleInv
<1> QED
  BY <1>1, LifecycleInvariant, PTL

(* The deferred Close of the store runs only when no handler and neither   *)
(* service can use it any more.                                            *)
THEOREM ResourcesHold == Spec => []ResourcesOutliveServices
<1>1. LifecycleInv => ResourcesOutliveServices
  BY DEF LifecycleInv, ResourcesOutliveServices, ExitInv, ResultsInv, ServerInv, HTTPReturned,
     PublisherReturned, TypeOK
<1> QED
  BY <1>1, LifecycleInvariant, PTL

(* The process outlives both services, and success is a requested shutdown *)
(* without an error of either.                                             *)
THEOREM ExitIsOrderly == Spec => []OrderlyExit
<1>1. LifecycleInv => OrderlyExit
  BY DEF LifecycleInv, OrderlyExit, ExitInv, ResultsInv, HTTPReturned, PublisherReturned, TypeOK
<1> QED
  BY <1>1, LifecycleInvariant, PTL

(* The readiness probe never passes over a closed or draining listener.    *)
THEOREM ReadinessHolds == Spec => []ReadyMeansServing
<1>1. LifecycleInv => ReadyMeansServing
  BY DEF LifecycleInv, ReadyMeansServing, ServerInv
<1> QED
  BY <1>1, LifecycleInvariant, PTL
===============================================================================
