---------------------------- MODULE WorkerLifecycle ----------------------------
(***************************************************************************)
(* The life of one worker process: it opens the database pool, runs one    *)
(* RabbitMQ session after the other until a shutdown is requested, and     *)
(* closes what it opened.  A session is a connection, a channel with a     *)
(* prefetch of one and a consumer; its stream of deliveries is filled and  *)
(* closed by goroutines of the AMQP client, one of which cancels the       *)
(* consumer when the shutdown context is done.                             *)
(*                                                                         *)
(* What handling a delivery does to its job is OutboxDelivery; here it     *)
(* ends with one of the three settlements.                                 *)
(***************************************************************************)
EXTENDS Naturals

CONSTANTS MaxMessages,  \* bound: messages in the queue at first
          MaxFaults     \* bound: refused connections, lost connections, requeues

ASSUME BoundAssumption == MaxMessages \in Nat /\ MaxFaults \in Nat

VARIABLES
  signalled,    \* SIGINT or SIGTERM came: the worker's context is done
  main,         \* where the main goroutine is
  storeOpen,    \* the database pool
  exit,         \* how the process ended
  connections,  \* connections the broker has from this process
  session,      \* the connection the code holds
  consumer,     \* the consumer of the session
  stream,       \* a delivery is waiting in the stream
  unsettled,    \* messages the broker waits to see settled
  ready,        \* messages in the queue
  late,         \* deliveries taken after the shutdown request
  faults        \* faults so far

process == <<main, storeOpen, exit>>
link == <<connections, session, consumer>>
messages == <<stream, unsettled, ready>>
vars == <<signalled, process, link, messages, late, faults>>

TypeOK ==
  /\ signalled \in BOOLEAN
  /\ main \in {"openStore", "check", "dial", "openChannel", "consume", "top", "select", "handle",
               "closeSession", "ended", "delay", "return"}
  /\ storeOpen \in BOOLEAN
  /\ exit \in {"none", "success", "failure"}
  /\ connections \in Nat
  /\ session \in {"none", "open", "lost"}
  /\ consumer \in {"none", "consuming", "cancelled"}
  /\ stream \in BOOLEAN
  /\ unsettled \in 0..1
  /\ ready \in 0..MaxMessages
  /\ late \in Nat
  /\ faults \in Nat

Init ==
  /\ signalled = FALSE
  /\ main = "openStore" /\ storeOpen = FALSE /\ exit = "none"
  /\ connections = 0 /\ session = "none" /\ consumer = "none"
  /\ stream = FALSE /\ unsettled = 0
  /\ ready = MaxMessages
  /\ late = 0
  /\ faults = 0

NoFault == UNCHANGED faults
Fault == faults < MaxFaults /\ faults' = faults + 1

-------------------------------------------------------------------------------
(* The process *)

Signal ==
  /\ ~signalled
  /\ signalled' = TRUE
  /\ UNCHANGED <<process, link, messages, late, faults>>

Goto(from, to) == main = from /\ main' = to

(* A configuration the pool cannot use ends the process; an unreachable    *)
(* database does not.                                                      *)
OpenStore ==
  /\ \/ Goto("openStore", "check") /\ storeOpen' = TRUE /\ UNCHANGED exit
     \/ Goto("openStore", "return") /\ exit' = "failure" /\ UNCHANGED storeOpen
  /\ UNCHANGED <<signalled, link, messages, late, faults>>

CheckContext ==
  /\ Goto("check", IF signalled THEN "return" ELSE "dial")
  /\ UNCHANGED <<signalled, storeOpen, exit, link, messages, late, faults>>

(* However the session ended, only a shutdown request ends the lifecycle. *)
SessionEnded ==
  /\ Goto("ended", IF signalled THEN "return" ELSE "delay")
  /\ UNCHANGED <<signalled, storeOpen, exit, link, messages, late, faults>>

RetryDelay ==
  /\ \/ Goto("delay", "check")
     \/ Goto("delay", "return") /\ signalled
  /\ UNCHANGED <<signalled, storeOpen, exit, link, messages, late, faults>>

(* runWorkerProcess returns: the deferred Close of the store, the exit. *)
Return ==
  /\ main = "return" /\ exit = "none"
  /\ storeOpen' = FALSE
  /\ exit' = "success"
  /\ UNCHANGED <<signalled, main, link, messages, late, faults>>

-------------------------------------------------------------------------------
(* Opening a session *)

Dial ==
  /\ \/ /\ Goto("dial", "openChannel")
        /\ connections' = connections + 1
        /\ session' = "open"
        /\ NoFault
     \/ /\ Goto("dial", "ended")
        /\ UNCHANGED <<connections, session>>
        /\ Fault
  /\ UNCHANGED <<signalled, storeOpen, exit, consumer, messages, late>>

(* Closing the connection gives the broker back what was not settled.  A   *)
(* connection that is lost already is closed already (amqp.ErrClosed).     *)
CloseConnection ==
  /\ connections' = IF session = "open" THEN connections - 1 ELSE connections
  /\ session' = "none" /\ consumer' = "none"
  /\ ready' = ready + unsettled /\ unsettled' = 0
  /\ stream' = FALSE

(* Everything fails on a lost connection, a live one may refuse. *)
Refused == IF session = "open" THEN Fault ELSE NoFault

(* A variant of OpenChannelFails that leaves the connection alone. *)
OpenChannelFailsOpen ==
  /\ Goto("openChannel", "ended")
  /\ session' = "none"
  /\ Refused
  /\ UNCHANGED <<signalled, storeOpen, exit, connections, consumer, messages, late>>

(* Connection.Channel fails. *)
OpenChannelFails ==
  /\ Goto("openChannel", "ended")
  /\ CloseConnection
  /\ Refused
  /\ UNCHANGED <<signalled, storeOpen, exit, late>>

OpenChannel ==
  /\ session = "open"
  /\ Goto("openChannel", "consume")
  /\ UNCHANGED <<signalled, storeOpen, exit, link, messages, late, faults>>

(* Qos or Consume fails. *)
ConsumeFails ==
  /\ Goto("consume", "ended")
  /\ CloseConnection
  /\ Refused
  /\ UNCHANGED <<signalled, storeOpen, exit, late>>

StartConsumer ==
  /\ session = "open"
  /\ Goto("consume", "top")
  /\ consumer' = "consuming"
  /\ UNCHANGED <<signalled, storeOpen, exit, connections, session, messages, late, faults>>

-------------------------------------------------------------------------------
(* Goroutines of the AMQP client, and the broker *)

(* Qos(1, 0, false): nothing is sent while a delivery is unsettled. *)
Push ==
  /\ session = "open" /\ consumer = "consuming"
  /\ ready > 0 /\ unsettled = 0
  /\ ready' = ready - 1 /\ unsettled' = 1
  /\ stream' = TRUE
  /\ UNCHANGED <<signalled, process, link, late, faults>>

(* ConsumeWithContext: deliveries end when the context is done; one that   *)
(* is waiting stays in the stream.                                         *)
CancelConsumer ==
  /\ signalled /\ session = "open" /\ consumer = "consuming"
  /\ consumer' = "cancelled"
  /\ UNCHANGED <<signalled, process, connections, session, messages, late, faults>>

(* The connection breaks.  The broker takes back what was not settled; a   *)
(* delivery waiting in the stream is dropped or still handed out.          *)
ConnectionLost ==
  /\ session = "open"
  /\ session' = "lost"
  /\ connections' = connections - 1
  /\ ready' = ready + unsettled /\ unsettled' = 0
  /\ \/ stream' = FALSE
     \/ UNCHANGED stream
  /\ Fault
  /\ UNCHANGED <<signalled, process, consumer, late>>

StreamClosed == ~stream /\ (session = "lost" \/ consumer = "cancelled")

-------------------------------------------------------------------------------
(* runWorkerDeliveryLoop *)

(* A variant of LoopTop that leaves the context to the select. *)
LoopTopUnchecked ==
  /\ Goto("top", "select")
  /\ UNCHANGED <<signalled, storeOpen, exit, link, messages, late, faults>>

LoopTop ==
  /\ Goto("top", IF signalled THEN "closeSession" ELSE "select")
  /\ UNCHANGED <<signalled, storeOpen, exit, link, messages, late, faults>>

(* The select takes any case that is ready, a delivery even when the       *)
(* context is done as well.                                                *)
SelectDelivery ==
  /\ Goto("select", "handle")
  /\ stream
  /\ stream' = FALSE
  /\ late' = IF signalled THEN late + 1 ELSE late
  /\ UNCHANGED <<signalled, storeOpen, exit, link, unsettled, ready, faults>>

(* A variant of SelectClosed that does not see the stream close. *)
SelectCancelled ==
  /\ Goto("select", "closeSession")
  /\ signalled
  /\ UNCHANGED <<signalled, storeOpen, exit, link, messages, late, faults>>

SelectClosed ==
  /\ Goto("select", "closeSession")
  /\ signalled \/ StreamClosed
  /\ UNCHANGED <<signalled, storeOpen, exit, link, messages, late, faults>>

(* The broker forgets an acknowledged or rejected delivery and puts a      *)
(* requeued one back; a settlement on a lost connection is an error.       *)
SettleDone ==
  /\ session = "open"
  /\ Goto("handle", "top")
  /\ unsettled' = 0
  /\ UNCHANGED <<signalled, storeOpen, exit, link, stream, ready, late, faults>>

(* A variant of SettleRequeue that keeps the session. *)
SettleRequeueStays ==
  /\ session = "open"
  /\ Goto("handle", "handle")
  /\ unsettled' = 0 /\ ready' = ready + 1
  /\ Fault
  /\ UNCHANGED <<signalled, storeOpen, exit, link, stream, late>>

SettleRequeue ==
  /\ session = "open"
  /\ Goto("handle", "closeSession")
  /\ unsettled' = 0 /\ ready' = ready + 1
  /\ Fault
  /\ UNCHANGED <<signalled, storeOpen, exit, link, stream, late>>

(* A variant of SettleFails that tries again. *)
SettleFailsAgain ==
  /\ session = "lost"
  /\ Goto("handle", "handle")
  /\ UNCHANGED <<signalled, storeOpen, exit, link, messages, late, faults>>

SettleFails ==
  /\ session = "lost"
  /\ Goto("handle", "closeSession")
  /\ UNCHANGED <<signalled, storeOpen, exit, link, messages, late, faults>>

CloseSession ==
  /\ Goto("closeSession", "ended")
  /\ CloseConnection
  /\ UNCHANGED <<signalled, storeOpen, exit, late, faults>>

-------------------------------------------------------------------------------
MainStep ==
  \/ OpenStore \/ CheckContext \/ SessionEnded \/ RetryDelay \/ Return
  \/ Dial \/ OpenChannelFails \/ OpenChannel \/ ConsumeFails \/ StartConsumer
  \/ LoopTop \/ SelectDelivery \/ SelectClosed
  \/ SettleDone \/ SettleRequeue \/ SettleFails \/ CloseSession

Exited == exit # "none" /\ UNCHANGED vars

Next ==
  \/ exit = "none" /\ (MainStep \/ Signal \/ Push \/ CancelConsumer \/ ConnectionLost)
  \/ Exited

Spec == Init /\ [][Next]_vars

(* Goroutines that can go on do, and the broker sends what it has ready to *)
(* a consumer.  Database calls of a handler return.                        *)
FairSpec ==
  /\ Spec
  /\ WF_vars(exit = "none" /\ MainStep)
  /\ WF_vars(exit = "none" /\ CancelConsumer)
  /\ WF_vars(exit = "none" /\ Push)

-------------------------------------------------------------------------------
(* Properties *)

(* A session that could not be set up or that ended for any reason leaves  *)
(* no connection to the broker behind, and the lifecycle ends with         *)
(* everything given back: no connection, no delivery taken from the queue, *)
(* no open pool, and successfully only on request.                         *)
CleanExit ==
  /\ connections = IF session = "open" THEN 1 ELSE 0
  /\ exit # "none" => session = "none" /\ unsettled = 0 /\ ~storeOpen
  /\ exit = "success" => signalled

(* A worker that is asked to stop takes at most one more delivery, the one *)
(* the select may prefer to the shutdown.                                  *)
NoNewResponsibility == late <= 1

(* A requested shutdown comes to an end, whatever the session is doing.    *)
ShutdownEnds == signalled ~> exit # "none"

(* Once faults cease, the worker empties its queue, whatever sessions were *)
(* refused or lost on the way: nothing but a shutdown request stops it.    *)
SessionsResume == storeOpen ~> (ready = 0 /\ unsettled = 0) \/ signalled
===============================================================================
