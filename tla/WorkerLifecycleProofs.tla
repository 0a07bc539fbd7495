------------------------- MODULE WorkerLifecycleProofs -------------------------
(***************************************************************************)
(* No session of a worker leaves a connection behind, its end gives        *)
(* everything back, and a shutdown request is not overrun by deliveries,   *)
(* for any number of messages and faults.                                  *)
(***************************************************************************)
EXTENDS WorkerLifecycle, TLAPS

Between == {"openStore", "check", "dial", "ended", "delay", "return"}
Consuming == {"top", "select", "handle", "closeSession"}

(* Where the main goroutine is says whether it holds a connection, and a   *)
(* delivery that is not settled belongs to the consumer of a live one.     *)
SessionInv ==
  /\ connections = IF session = "open" THEN 1 ELSE 0
  /\ main \in Between <=> session = "none"
  /\ consumer # "none" => main \in Consuming
  /\ stream = TRUE \/ unsettled = 1 => consumer # "none"
  /\ unsettled = 1 => session = "open"
  /\ session = "open" /\ stream = TRUE => unsettled = 1
  /\ session = "open" /\ main = "handle" => unsettled = 1 /\ stream = FALSE
  /\ ready + unsettled <= MaxMessages

(* The pool and the exit, and what a process that is to stop still takes:  *)
(* a delivery taken late is the last one, no select comes after it.        *)
StopInv ==
  /\ main = "openStore" => storeOpen = FALSE
  /\ exit # "none" => main = "return" /\ storeOpen = FALSE
  /\ main = "return" /\ exit \in {"none", "success"} => signalled = TRUE
  /\ late <= 1
  /\ late = 1 => signalled = TRUE /\ main \in {"handle", "top", "closeSession", "ended", "return"}

WorkerInv == TypeOK /\ SessionInv /\ StopInv

-------------------------------------------------------------------------------
(* The parts of the invariant that a step can disturb *)

LEMMA WithinBound ==
  ASSUME NEW r \in Nat, NEW u, r <= MaxMessages, u = 0
  PROVE  r \in 0..MaxMessages /\ r + u <= MaxMessages
BY BoundAssumption

LEMMA CloseConnectionKeeps ==
  ASSUME WorkerInv, CloseConnection, main \notin Between, main' = "ended"
  PROVE  /\ SessionInv'
         /\ connections' \in Nat /\ session' = "none" /\ consumer' = "none"
         /\ ready' \in 0..MaxMessages /\ unsettled' = 0 /\ stream' = FALSE
<1>1. /\ connections' = 0 /\ session' = "none" /\ consumer' = "none"
      /\ ready' = ready + unsettled /\ unsettled' = 0 /\ stream' = FALSE
  BY DEF WorkerInv, SessionInv, TypeOK, CloseConnection
<1>2. ready' \in 0..MaxMessages /\ ready' + unsettled' <= MaxMessages
  BY <1>1, BoundAssumption DEF WorkerInv, SessionInv, TypeOK
<1> QED
  BY <1>1, <1>2 DEF SessionInv, Between, Consuming

(* Steps between sessions, which touch neither link nor messages. *)
LEMMA ProcessSteps ==
  ASSUME WorkerInv, exit = "none",
         OpenStore \/ CheckContext \/ SessionEnded \/ RetryDelay \/ Return
  PROVE  WorkerInv'
<1> USE DEF WorkerInv
<1>1. /\ UNCHANGED <<signalled, link, messages, late, faults>>
      /\ main \in Between /\ main' \in Between
      /\ storeOpen' \in BOOLEAN /\ exit' \in {"none", "success", "failure"}
  BY DEF OpenStore, CheckContext, SessionEnded, RetryDelay, Return, Goto, Between, TypeOK
<1>2. TypeOK'
  BY <1>1 DEF TypeOK, Between, link, messages
<1>3. SessionInv'
  BY <1>1 DEF SessionInv, Between, Consuming, link, messages
<1>4. StopInv'
  BY <1>1 DEF OpenStore, CheckContext, SessionEnded, RetryDelay, Return, Goto, StopInv, TypeOK
<1> QED
  BY <1>2, <1>3, <1>4

LEMMA OpeningSteps ==
  ASSUME WorkerInv, exit = "none",
         Dial \/ OpenChannelFails \/ OpenChannel \/ ConsumeFails \/ StartConsumer
  PROVE  WorkerInv'
<1> USE DEF WorkerInv
<1>1. /\ UNCHANGED <<signalled, storeOpen, exit, late>>
      /\ main \in {"dial", "openChannel", "consume"}
      /\ main' \in {"openChannel", "ended", "consume", "top"}
      /\ faults' \in Nat
  BY DEF Dial, OpenChannelFails, OpenChannel, ConsumeFails, StartConsumer, Goto, Refused, Fault,
     NoFault, TypeOK
<1>2. StopInv'
  BY <1>1 DEF StopInv, TypeOK
<1>3. CASE Dial
  <2>1. SessionInv'
    BY <1>3 DEF Dial, Goto, SessionInv, TypeOK, Between, Consuming, messages
  <2>2. TypeOK'
    BY <1>1, <1>3 DEF Dial, TypeOK, messages
  <2> QED
    BY <1>2, <2>1, <2>2
<1>4. CASE OpenChannelFails \/ ConsumeFails
  <2>1. CloseConnection /\ main' = "ended" /\ main \notin Between
    BY <1>1, <1>4 DEF OpenChannelFails, ConsumeFails, Goto, Between
  <2>2. /\ SessionInv'
        /\ connections' \in Nat /\ session' = "none" /\ consumer' = "none"
        /\ ready' \in 0..MaxMessages /\ unsettled' = 0 /\ stream' = FALSE
    BY <2>1, CloseConnectionKeeps
  <2>3. TypeOK'
    <3>1. stream' \in BOOLEAN
      BY <2>2, Zenon
    <3> QED
      BY <1>1, <2>1, <2>2, <3>1 DEF TypeOK
  <2> QED
    BY <1>2, <2>2, <2>3
<1>5. CASE OpenChannel \/ StartConsumer
  <2>1. /\ UNCHANGED <<connections, session, messages>> /\ consumer' \in {consumer, "consuming"}
        /\ consumer' # "none" => main' \in Consuming
    BY <1>5 DEF OpenChannel, StartConsumer, Goto, Consuming, SessionInv, link
  <2>2. main \notin Between /\ main' \notin Between /\ main' # "handle"
    BY <1>1, <1>5 DEF OpenChannel, StartConsumer, Goto, Between
  <2>3. consumer = "none" /\ unsettled # 1 /\ stream # TRUE
    BY <1>1 DEF SessionInv, Consuming
  <2>4. SessionInv'
    BY <2>1, <2>2, <2>3 DEF SessionInv, messages
  <2>5. TypeOK'
    BY <1>1, <2>1 DEF TypeOK, messages
  <2> QED
    BY <1>2, <2>4, <2>5
<1> QED
  BY <1>3, <1>4, <1>5

LEMMA LoopSteps ==
  ASSUME WorkerInv, exit = "none",
         LoopTop \/ SelectDelivery \/ SelectClosed \/ SettleFails
  PROVE  WorkerInv'
<1> USE DEF WorkerInv
<1>1. /\ UNCHANGED <<signalled, storeOpen, exit, link, unsettled, ready, faults>>
      /\ main \in Consuming /\ main' \in Consuming
      /\ stream' = FALSE \/ stream' = stream
  BY DEF LoopTop, SelectDelivery, SelectClosed, SettleFails, Goto, Consuming, messages
<1>2. late' \in Nat
  BY DEF LoopTop, SelectDelivery, SelectClosed, SettleFails, TypeOK
<1>3. TypeOK'
  BY <1>1, <1>2 DEF TypeOK, Consuming, link
<1>4. SessionInv'
  <2>1. session = "open" /\ main' = "handle" => unsettled = 1 /\ stream' = FALSE
    BY <1>1 DEF LoopTop, SelectDelivery, SelectClosed, SettleFails, Goto, SessionInv, TypeOK
  <2> QED
    BY <1>1, <2>1 DEF SessionInv, Between, Consuming, link
<1>5. StopInv'
  <2>1. CASE LoopTop
    BY <1>1, <2>1 DEF LoopTop, Goto, StopInv, TypeOK
  <2>2. CASE SelectDelivery
    BY <1>1, <2>2 DEF SelectDelivery, Goto, StopInv, TypeOK
  <2>3. CASE SelectClosed \/ SettleFails
    BY <1>1, <2>3 DEF SelectClosed, SettleFails, Goto, StopInv, TypeOK
  <2> QED
    BY <2>1, <2>2, <2>3
<1> QED
  BY <1>3, <1>4, <1>5

LEMMA SettleSteps ==
  ASSUME WorkerInv, exit = "none", SettleDone \/ SettleRequeue \/ CloseSession
  PROVE  WorkerInv'
<1> USE DEF WorkerInv
<1>1. /\ UNCHANGED <<signalled, storeOpen, exit, late>>
      /\ faults' \in Nat
      /\ main \in {"handle", "closeSession"} /\ main' \in {"top", "closeSession", "ended"}
  BY DEF SettleDone, SettleRequeue, CloseSession, Goto, Fault, TypeOK
<1>2. StopInv'
  BY <1>1 DEF StopInv, TypeOK
<1>3. CASE CloseSession
  <2>1. CloseConnection /\ main' = "ended" /\ main \notin Between
    BY <1>3 DEF CloseSession, Goto, Between
  <2>2. /\ SessionInv'
        /\ connections' \in Nat /\ session' = "none" /\ consumer' = "none"
        /\ ready' \in 0..MaxMessages /\ unsettled' = 0 /\ stream' = FALSE
    BY <2>1, CloseConnectionKeeps
  <2>3. TypeOK'
    <3>1. stream' \in BOOLEAN
      BY <2>2, Zenon
    <3> QED
      BY <1>1, <2>1, <2>2, <3>1 DEF TypeOK
  <2> QED
    BY <1>2, <2>2, <2>3
<1>4. CASE SettleDone \/ SettleRequeue
  <2>1. /\ session = "open" /\ main = "handle" /\ main' \in {"top", "closeSession"}
        /\ unsettled' = 0 /\ ready' \in {ready, ready + 1}
        /\ UNCHANGED <<link, stream>>
    BY <1>4 DEF SettleDone, SettleRequeue, Goto
  <2>2. unsettled = 1 /\ stream = FALSE
    BY <2>1 DEF SessionInv
  <2>3. ready' \in 0..MaxMessages /\ ready' + unsettled' <= MaxMessages
    <3>1. ready \in Nat /\ ready + 1 <= MaxMessages
      BY <2>2 DEF SessionInv, TypeOK
    <3>2. ready' \in Nat /\ ready' <= MaxMessages /\ unsettled' = 0
      BY <2>1, <3>1, BoundAssumption
    <3> QED
      BY <3>2, WithinBound
  <2>4. TypeOK'
    BY <1>1, <2>1, <2>3 DEF TypeOK, link
  <2>5. SessionInv'
    BY <2>1, <2>2, <2>3 DEF SessionInv, Between, Consuming, link
  <2> QED
    BY <1>2, <2>4, <2>5
<1> QED
  BY <1>3, <1>4

LEMMA OutsideSteps ==
  ASSUME WorkerInv, exit = "none", Signal \/ Push \/ CancelConsumer \/ ConnectionLost
  PROVE  WorkerInv'
<1> USE DEF WorkerInv
<1>1. /\ UNCHANGED <<process, late>> /\ faults' \in Nat
      /\ signalled' = signalled \/ signalled' = TRUE
  BY DEF Signal, Push, CancelConsumer, ConnectionLost, Fault, TypeOK
<1>2. StopInv'
  BY <1>1 DEF StopInv, process
<1>3. CASE Signal
  BY <1>1, <1>2, <1>3 DEF Signal, TypeOK, SessionInv, process, link, messages
<1>4. CASE Push
  <2>1. /\ session = "open" /\ consumer = "consuming" /\ unsettled = 0
        /\ ready' = ready - 1 /\ unsettled' = 1 /\ stream' = TRUE
        /\ UNCHANGED <<link, signalled>>
        /\ ready' \in 0..MaxMessages
    BY <1>4, BoundAssumption DEF Push, TypeOK
  <2>2. TypeOK'
    BY <1>1, <2>1 DEF TypeOK, process, link
  <2>3. SessionInv'
    BY <1>1, <2>1, BoundAssumption DEF SessionInv, TypeOK, process, link
  <2> QED
    BY <1>2, <2>2, <2>3
<1>5. CASE CancelConsumer
  BY <1>1, <1>2, <1>5 DEF CancelConsumer, TypeOK, SessionInv, process, messages
<1>6. CASE ConnectionLost
  <2>1. /\ session = "open" /\ session' = "lost" /\ connections' = 0
        /\ ready' = ready + unsettled /\ unsettled' = 0
        /\ stream' = FALSE \/ stream' = stream
        /\ UNCHANGED <<consumer, signalled>>
    BY <1>6 DEF ConnectionLost, SessionInv
  <2>2. ready' \in 0..MaxMessages /\ ready' + unsettled' <= MaxMessages
    <3>1. ready \in Nat /\ unsettled \in Nat /\ ready + unsettled <= MaxMessages
      BY DEF SessionInv, TypeOK
    <3> QED
      BY <2>1, <3>1, BoundAssumption
  <2>3. TypeOK'
    <3>1. stream' \in BOOLEAN
      BY <2>1 DEF TypeOK
    <3> QED
      BY <1>1, <2>1, <2>2, <3>1 DEF TypeOK, process
  <2>4. SessionInv'
    BY <1>1, <2>1, <2>2 DEF SessionInv, Between, Consuming, TypeOK, process
  <2> QED
    BY <1>2, <2>3, <2>4
<1> QED
  BY <1>3, <1>4, <1>5, <1>6

-------------------------------------------------------------------------------
(* The inductive invariant holds in every reachable state. *)
THEOREM WorkerInvariant == Spec => []WorkerInv
<1>1. Init => WorkerInv
  <2> SUFFICES ASSUME Init PROVE WorkerInv
    OBVIOUS
  <2>1. TypeOK
    <3>1. signalled \in BOOLEAN /\ storeOpen \in BOOLEAN /\ stream \in BOOLEAN
      BY Zenon DEF Init
    <3> QED
      BY <3>1, BoundAssumption DEF Init, TypeOK
  <2>2. SessionInv
    BY BoundAssumption DEF Init, SessionInv, Between
  <2>3. StopInv
    BY DEF Init, StopInv
  <2> QED
    BY <2>1, <2>2, <2>3 DEF WorkerInv
<1>2. WorkerInv /\ [Next]_vars => WorkerInv'
  <2> SUFFICES ASSUME WorkerInv, [Next]_vars PROVE WorkerInv'
    OBVIOUS
  <2>1. CASE UNCHANGED vars
    BY <2>1 DEF vars, process, link, messages, WorkerInv, TypeOK, SessionInv, StopInv
  <2>2. CASE exit = "none" /\ MainStep
    BY <2>2, ProcessSteps, OpeningSteps, LoopSteps, SettleSteps DEF MainStep
  <2> QED
    BY <2>1, <2>2, OutsideSteps DEF Next, Exited
<1> QED
  BY <1>1, <1>2, PTL DEF Spec

(* Every part of the worker is where its code can be; the prefetch of one  *)
(* holds and no message is counted twice, however often sessions are lost. *)
THEOREM WorkerTypes == Spec => []TypeOK
<1>1. WorkerInv => TypeOK
  BY DEF WorkerInv
<1> QED
  BY <1>1, WorkerInvariant, PTL

(* Whatever step of a session fails, the process has the connection the    *)
(* code holds and no other, and its exit leaves nothing behind.            *)
THEOREM ExitIsClean == Spec => []CleanExit
<1>1. WorkerInv => CleanExit
  BY DEF WorkerInv, CleanExit, TypeOK, SessionInv, StopInv, Between
<1> QED
  BY <1>1, WorkerInvariant, PTL

(* At most one delivery is taken after the shutdown request.               *)
THEOREM NothingNewIsTaken == Spec => []NoNewResponsibility
<1>1. WorkerInv => NoNewResponsibility
  BY DEF WorkerInv, NoNewResponsibility, StopInv
<1> QED
  BY <1>1, WorkerInvariant, PTL
===============================================================================
