----------------------------- MODULE MCResources ------------------------------
(* The two components whose promise is that their callers come back, for    *)
(* TLC: the contexts of tasks, and the lock of the heap next to an emulator *)
(* that has to be parked.  They share no state: a behaviour is one of a     *)
(* part, chosen at its start, and the other part has nothing to do.         *)
EXTENDS ContextPool

CONSTANTS Goroutines, Emulator, Nobody

VARIABLES part, memMu, where, emu, hasSync

lock == INSTANCE HeapLock WITH
  Callers <- Goroutines, SyncAllocs <- FALSE, at <- where

lockVars == <<memMu, where, emu, hasSync>>

NoLock ==
  /\ memMu = Nobody /\ where = [g \in Goroutines \cup {Emulator} |-> "idle"]
  /\ emu = "off" /\ hasSync = FALSE

NoContexts ==
  /\ current = Nil /\ spare = << >> /\ got = Nil /\ collection = "ended"
  /\ at = [t \in All |-> "new"] /\ ctx = [t \in All |-> Nil]
  /\ family = [t \in All |-> t] /\ done = {}
  /\ stack = [c \in Contexts |-> Nil] /\ regs = [c \in Contexts |-> Nil]
  /\ released = [c \in Contexts |-> 0] /\ cpu = Idle /\ closed = FALSE /\ freed = "no"

ResourcesInit ==
  \/ part = "contexts" /\ Init /\ NoLock
  \/ part = "lock" /\ lock!Init /\ NoContexts

ResourcesNext ==
  \/ part = "contexts" /\ Next /\ UNCHANGED <<part, lockVars>>
  \/ part = "lock" /\ lock!Next /\ UNCHANGED <<part, vars>>

ResourcesSpec ==
  /\ ResourcesInit /\ [][ResourcesNext]_<<part, vars, lockVars>>
  /\ Fairness /\ lock!Fairness

-----------------------------------------------------------------------------
(* No meeting on the channel gives a context to two tasks, or to a task and *)
(* to collection, nor the stack of a fork to a task that is none of its     *)
(* family.                                                                  *)
NothingShared == part = "contexts" => ContextsApart /\ StacksApart

(* Guest code of a task that is not cancelled runs with the registers of    *)
(* that task, whoever had the context before.                               *)
RegistersOwn == part = "contexts" => OwnRegisters

(* A context is destroyed once, not while a task has it, and none is left   *)
(* when Close has returned and every task is closed.                        *)
EachReleased == part = "contexts" => ReleasedOnce /\ NoneLeft

(* memAlloc returns: whoever holds memMu while mapAlloc waits in            *)
(* mainThreadRun gets the emulator in the end.                              *)
AllocReturns == lock!AllocReturns
=============================================================================
