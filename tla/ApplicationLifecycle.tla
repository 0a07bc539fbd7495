------------------------- MODULE ApplicationLifecycle -------------------------
(***************************************************************************)
(* The life of one API process from the start of its two services to its   *)
(* exit: the HTTP server with its readiness flag, the outbox publisher     *)
(* with its broker connection, and runApplication, which stops both when   *)
(* either ends or a shutdown is requested.  All of them and every request  *)
(* handler are goroutines; their contexts, channels and timers are below.  *)
(*                                                                         *)
(* Requests are not cut off by a shutdown: their contexts belong to their  *)
(* connections.  What publishing does to the outbox is OutboxDelivery.     *)
(***************************************************************************)
EXTENDS Naturals, Sequences

CONSTANTS Requests  \* bound: connections that can be served at once

Services == {"HTTP server", "outbox publisher"}

VARIABLES
  signalled,       \* SIGINT or SIGTERM came: shutdownContext is done
  cancelled,       \* runApplication cancelled applicationContext
  main,            \* what the main goroutine waits for
  failed,          \* runApplication has an error to return
  exit,            \* how the process ended
  storeOpen,       \* the database pool
  results,         \* channel of the services' results
  errors,          \* services that returned an error
  http,            \* where runHTTPServer is
  serve,           \* the goroutine of server.Serve and its channel
  ready,           \* readinessState
  inFlight,        \* requests a handler is running for
  publisher,       \* where runOutboxPublisher is
  connected        \* it has a broker connection

control == <<signalled, cancelled, main, failed, exit, storeOpen>>
server == <<http, serve, ready>>
broker == <<publisher, connected>>
vars == <<control, results, errors, server, inFlight, broker>>

(* applicationContext is done. *)
Done == signalled \/ cancelled

TypeOK ==
  /\ signalled \in BOOLEAN /\ cancelled \in BOOLEAN
  /\ main \in {"first", "second", "return"}
  /\ failed \in BOOLEAN
  /\ exit \in {"none", "success", "failure"}
  /\ storeOpen \in BOOLEAN
  /\ results \in Seq(Services) /\ Len(results) <= 2
  /\ errors \subseteq Services
  /\ http \in {"listen", "select", "shutdown", "drain", "takeServeError", "returned"}
  /\ serve \in {"none", "accepting", "failed", "closed"}
  /\ ready \in BOOLEAN
  /\ inFlight \subseteq Requests
  /\ publisher \in {"check", "connect", "attempt", "reconnectDelay", "idlePollDelay",
                    "storeRetryDelay", "returned"}
  /\ connected \in BOOLEAN

Init ==
  /\ signalled = FALSE /\ cancelled = FALSE
  /\ main = "first" /\ failed = FALSE /\ exit = "none"
  /\ storeOpen = TRUE
  /\ results = <<>> /\ errors = {}
  /\ http = "listen" /\ serve = "none" /\ ready = FALSE
  /\ inFlight = {}
  /\ publisher = "check" /\ connected = FALSE

-------------------------------------------------------------------------------
(* runApplication and main *)

Signal ==
  /\ signalled' = TRUE
  /\ UNCHANGED <<cancelled, main, failed, exit, storeOpen, results, errors, server, inFlight, broker>>

(* A service returns: its result goes into the buffered channel. *)
Return(service, outcome) ==
  /\ results' = Append(results, service)
  /\ errors' = IF outcome = "error" THEN errors \cup {service} ELSE errors

(* A variant of ReceiveFirst that lets the other service go on. *)
ReceiveFirstOnly ==
  /\ main = "first" /\ results # <<>>
  /\ failed' = (Head(results) \in errors \/ ~signalled)
  /\ main' = "second"
  /\ results' = Tail(results)
  /\ UNCHANGED <<signalled, cancelled, exit, storeOpen, errors, server, inFlight, broker>>

(* An error counts, none of the services' errors being context.Canceled,   *)
(* and so does a service that ended before anyone asked for it.            *)
ReceiveFirst ==
  /\ main = "first" /\ results # <<>>
  /\ failed' = (Head(results) \in errors \/ ~signalled)
  /\ cancelled' = TRUE
  /\ main' = "second"
  /\ results' = Tail(results)
  /\ UNCHANGED <<signalled, exit, storeOpen, errors, server, inFlight, broker>>

(* A variant of ReceiveSecond that forgets the second error. *)
ReceiveSecondIgnored ==
  /\ main = "second" /\ results # <<>>
  /\ main' = "return"
  /\ results' = Tail(results)
  /\ UNCHANGED <<signalled, cancelled, failed, exit, storeOpen, errors, server, inFlight, broker>>

ReceiveSecond ==
  /\ main = "second" /\ results # <<>>
  /\ failed' = (failed \/ Head(results) \in errors)
  /\ main' = "return"
  /\ results' = Tail(results)
  /\ UNCHANGED <<signalled, cancelled, exit, storeOpen, errors, server, inFlight, broker>>

(* log.Fatalf ends the process as it is; otherwise the deferred Close of   *)
(* the store runs first.                                                   *)
Exit ==
  /\ main = "return"
  /\ \/ failed /\ exit' = "failure" /\ UNCHANGED storeOpen
     \/ ~failed /\ exit' = "success" /\ storeOpen' = FALSE
  /\ UNCHANGED <<signalled, cancelled, main, failed, results, errors, server, inFlight, broker>>

-------------------------------------------------------------------------------
(* runHTTPServer *)

ReturnHTTP(outcome) == http' = "returned" /\ Return("HTTP server", outcome)

Listen ==
  /\ http = "listen"
  /\ \/ /\ ReturnHTTP("error")
        /\ UNCHANGED <<serve, ready>>
     \/ /\ ready' = TRUE
        /\ serve' = "accepting"
        /\ http' = "select"
        /\ UNCHANGED <<results, errors>>
  /\ UNCHANGED <<control, inFlight, broker>>

(* Accepting connections fails for good. *)
ServeFails ==
  /\ serve = "accepting"
  /\ serve' = "failed"
  /\ UNCHANGED <<control, results, errors, http, ready, inFlight, broker>>

(* The select takes one of the ready cases, whichever: a Serve error ...   *)
ServeErrorSelected ==
  /\ http = "select" /\ serve = "failed"
  /\ serve' = "none"
  /\ ready' = FALSE
  /\ ReturnHTTP("error")
  /\ UNCHANGED <<control, inFlight, broker>>

(* A variant of ShutdownSelected that leaves the withdrawal for later. *)
ShutdownSelectedReady ==
  /\ http = "select" /\ Done
  /\ http' = "shutdown"
  /\ UNCHANGED <<control, results, errors, serve, ready, inFlight, broker>>

(* ... or the shutdown request. *)
ShutdownSelected ==
  /\ http = "select" /\ Done
  /\ ready' = FALSE
  /\ http' = "shutdown"
  /\ UNCHANGED <<control, results, errors, serve, inFlight, broker>>

(* server.Shutdown closes the listener, which makes Serve return.          *)
CloseListener ==
  /\ http = "shutdown"
  /\ http' = "drain"
  /\ serve' = IF serve = "accepting" THEN "closed" ELSE serve
  /\ UNCHANGED <<control, results, errors, ready, inFlight, broker>>

(* A variant of Drained that waits for nobody. *)
DrainedAtOnce ==
  /\ http = "drain"
  /\ http' = "takeServeError"
  /\ UNCHANGED <<control, results, errors, serve, ready, inFlight, broker>>

Drained ==
  /\ http = "drain" /\ inFlight = {}
  /\ http' = "takeServeError"
  /\ UNCHANGED <<control, results, errors, serve, ready, inFlight, broker>>

(* The grace period may also end just when the last handler did. *)
GracePeriodEnds ==
  /\ http = "drain"
  /\ ReturnHTTP("error")
  /\ UNCHANGED <<control, serve, ready, inFlight, broker>>

TakeServeError ==
  /\ http = "takeServeError"
  /\ serve \in {"failed", "closed"}
  /\ serve' = "none"
  /\ ReturnHTTP(IF serve = "failed" THEN "error" ELSE "nil")
  /\ UNCHANGED <<control, ready, inFlight, broker>>

(* A connection is accepted and its request handled, until the handler is  *)
(* done, which may take as long as it wants.                               *)
StartRequest(r) ==
  /\ serve = "accepting" /\ r \notin inFlight
  /\ inFlight' = inFlight \cup {r}
  /\ UNCHANGED <<control, results, errors, server, broker>>

EndRequest(r) ==
  /\ r \in inFlight
  /\ inFlight' = inFlight \ {r}
  /\ UNCHANGED <<control, results, errors, server, broker>>

-------------------------------------------------------------------------------
(* runOutboxPublisher *)

NoReturn == UNCHANGED <<results, errors>>

(* A variant of ReturnPublisher without the return statement. *)
ReturnPublisherNot ==
  /\ publisher' = "check"
  /\ connected' = FALSE
  /\ Return("outbox publisher", "nil")

(* return closePublisher(): closing reports an error only if there is a    *)
(* connection to close.                                                    *)
ReturnPublisher ==
  /\ publisher' = "returned"
  /\ connected' = FALSE
  /\ \/ Return("outbox publisher", "nil")
     \/ connected /\ Return("outbox publisher", "error")

CheckContext ==
  /\ publisher = "check"
  /\ IF Done THEN ReturnPublisher
     ELSE /\ publisher' = IF connected THEN "attempt" ELSE "connect"
          /\ NoReturn /\ UNCHANGED connected
  /\ UNCHANGED <<control, server, inFlight>>

Connect ==
  /\ publisher = "connect"
  /\ \/ connected' = TRUE /\ publisher' = "attempt"
     \/ connected' = FALSE /\ publisher' = "reconnectDelay"
  /\ NoReturn
  /\ UNCHANGED <<control, server, inFlight>>

(* publishNextOutboxMessage: published, nothing to publish, a store error, *)
(* or a broker error, after which the connection is given up.              *)
Attempt ==
  /\ publisher = "attempt"
  /\ \/ publisher' \in {"check", "idlePollDelay", "storeRetryDelay"} /\ UNCHANGED connected
     \/ publisher' = "reconnectDelay" /\ connected' = FALSE
  /\ NoReturn
  /\ UNCHANGED <<control, server, inFlight>>

Delays == {"reconnectDelay", "idlePollDelay", "storeRetryDelay"}

DelayEnds ==
  /\ publisher \in Delays
  /\ publisher' = "check"
  /\ NoReturn
  /\ UNCHANGED <<control, server, inFlight, connected>>

DelayCancelled ==
  /\ publisher \in Delays /\ Done
  /\ ReturnPublisher
  /\ UNCHANGED <<control, server, inFlight>>

-------------------------------------------------------------------------------
MainStep == ReceiveFirst \/ ReceiveSecond \/ Exit
HTTPStep == \/ Listen \/ ServeErrorSelected \/ ShutdownSelected
            \/ CloseListener \/ Drained \/ GracePeriodEnds \/ TakeServeError
PublisherStep == CheckContext \/ Connect \/ Attempt \/ DelayEnds \/ DelayCancelled

Running ==
  \/ MainStep \/ HTTPStep \/ PublisherStep
  \/ Signal \/ ServeFails
  \/ \E r \in Requests : StartRequest(r) \/ EndRequest(r)

Exited == exit # "none" /\ UNCHANGED vars

Next == (exit = "none" /\ Running) \/ Exited

Spec == Init /\ [][Next]_vars

(* The scheduler runs every goroutine that can go on.  Calls of the        *)
(* publisher return: dialling has a timeout, the others a context or a     *)
(* heartbeat.  No handler has to come to its end.                          *)
FairSpec ==
  /\ Spec
  /\ WF_vars(exit = "none" /\ MainStep)
  /\ WF_vars(exit = "none" /\ HTTPStep)
  /\ WF_vars(exit = "none" /\ PublisherStep)

-------------------------------------------------------------------------------
(* Properties *)

(* Resources shared by both services remain valid until both are done: the *)
(* store is never closed under a publisher or a running handler, whichever *)
(* service ends first and however the grace period ends.                   *)
ResourcesOutliveServices ==
  ~storeOpen => http = "returned" /\ publisher = "returned" /\ inFlight = {}

(* The process ends, successfully or not, only after both services, which  *)
(* leave no broker connection behind, and reports success only for a       *)
(* requested shutdown in which no service failed, first or second.         *)
OrderlyExit ==
  /\ exit # "none" => http = "returned" /\ publisher = "returned" /\ ~connected
  /\ exit = "success" => signalled /\ errors = {}

(* The readiness flag is never up over a listener the process closed, nor  *)
(* while it drains: it is withdrawn before the server stops accepting, and *)
(* outlives only a failure of Serve that nobody has selected yet.          *)
ReadyMeansServing ==
  ready => serve = "accepting" \/ (serve = "failed" /\ http = "select")

(* Once a service ended or failed or a shutdown was requested the process  *)
(* exits, even if a handler never does.                                    *)
StopsTogether ==
  signalled \/ serve = "failed" \/ http = "returned" \/ publisher = "returned" ~> exit # "none"
===============================================================================
