------------------------------ MODULE CpuTurns ------------------------------
(***************************************************************************)
(* What the scheduler promises: the CPU is handed out in turns.  A task    *)
(* asks for a turn, each turn uses up one request of the task that gets    *)
(* it, and between two turns the CPU is idle.  A request may be withdrawn. *)
(* After shutdown the promise ends: the CPU runs down as it likes.         *)
(***************************************************************************)
EXTENDS Naturals

CONSTANTS
  Tasks,   (* who may ask                                                  *)
  First,   (* one of them: has the first turn without asking               *)
  None     (* nobody, none of them                                         *)

VARIABLES
  turn,      (* whose turn it is                                           *)
  requests,  (* how many requests of each task are unanswered              *)
  open       (* not shut down                                              *)

vars == <<turn, requests, open>>

Init ==
  /\ turn = First
  /\ requests = [t \in Tasks |-> 0]
  /\ open = TRUE

Ask(t) ==
  /\ requests' = [requests EXCEPT ![t] = @ + 1]
  /\ UNCHANGED <<turn, open>>

Withdraw(t) ==
  /\ requests[t] > 0
  /\ requests' = [requests EXCEPT ![t] = @ - 1]
  /\ UNCHANGED <<turn, open>>

Grant(t) ==
  /\ turn = None /\ requests[t] > 0
  /\ turn' = t
  /\ requests' = [requests EXCEPT ![t] = @ - 1]
  /\ UNCHANGED open

Release ==
  /\ turn # None
  /\ turn' = None
  /\ UNCHANGED <<requests, open>>

ShutDown ==
  /\ open' = FALSE
  /\ UNCHANGED <<turn, requests>>

RunDown ==
  /\ ~open
  /\ turn' \in Tasks \cup {None}
  /\ UNCHANGED <<requests, open>>

Next ==
  \/ \E t \in Tasks : Ask(t) \/ Withdraw(t) \/ Grant(t)
  \/ Release \/ ShutDown \/ RunDown

Spec == Init /\ [][Next]_vars
=============================================================================
