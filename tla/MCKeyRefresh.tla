------------------------------ MODULE MCKeyRefresh ------------------------------
(* A small instance of KeyRefresh.  Requests are interchangeable; so are    *)
(* signing keys.                                                            *)
EXTENDS KeyRefresh, TLC

RequestsAndKeys == Permutations(Requests) \cup Permutations(SigningKeys)

(* The behaviours in which nobody leaves a free lock alone while the clock *)
(* goes on: a tick is a second or more.  Time is then lost only behind a   *)
(* lock that another request holds.                                        *)
FreeLockIsTaken ==
  refreshMu = NoRequest => \A r \in Requests : phase[r] \notin {"lockKeys", "lockUnknown"}

PromptSpec == Init /\ [][Next /\ (Tick => FreeLockIsTaken)]_vars
===============================================================================
