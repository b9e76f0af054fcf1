------------------------------ MODULE HeapLock -------------------------------
(***************************************************************************)
(* The lock of the heap next to the emulator.  memAlloc holds memMu while  *)
(* mapAlloc has mainThreadRun call the emulator, which waits for a parked  *)
(* guest unless a synchronous hook runs (internal/debugger/mem.go,         *)
(* task.go).  A callback of such a hook may allocate too, on the goroutine *)
(* of the emulator.                                                        *)
(***************************************************************************)
EXTENDS FiniteSets

CONSTANTS
  Callers,    (* goroutines that allocate                                  *)
  Emulator,   (* the goroutine of the emulator                             *)
  SyncAllocs, (* whether callbacks of synchronous hooks allocate           *)
  Nobody

VARIABLES
  memMu,      (* who holds the lock                                        *)
  at,         (* where every goroutine is in memAlloc                      *)
  emu,        (* what the emulator does                                    *)
  hasSync     (* a synchronous hook runs                                   *)

vars == <<memMu, at, emu, hasSync>>

All == Callers \cup {Emulator}

Init ==
  /\ memMu = Nobody
  /\ at = [g \in All |-> "idle"]
  /\ emu = "guest" /\ hasSync = FALSE

Move(g, from, to) == at[g] = from /\ at' = [at EXCEPT ![g] = to]

-----------------------------------------------------------------------------
(* memAlloc *)
MemAlloc(g) ==
  /\ g \in Callers \/ (emu = "sync" /\ SyncAllocs)
  /\ Move(g, "idle", "lock")
  /\ UNCHANGED <<memMu, emu, hasSync>>

Lock(g) ==
  /\ Move(g, "lock", "search") /\ memMu = Nobody
  /\ memMu' = g
  /\ UNCHANGED <<emu, hasSync>>

NoneFits(g) == Move(g, "search", "map") /\ UNCHANGED <<memMu, emu, hasSync>>

(* Changed: the lock is given back only when a free block fits *)
UnlockIfFits(g) ==
  /\ at[g] \in {"search", "mapped"}
  /\ at' = [at EXCEPT ![g] = "idle"]
  /\ memMu' = IF at[g] = "search" THEN Nobody ELSE memMu
  /\ UNCHANGED <<emu, hasSync>>

(* A free block fits, or one was mapped, or mapping it failed *)
Unlock(g) ==
  /\ at[g] \in {"search", "mapped"}
  /\ at' = [at EXCEPT ![g] = "idle"]
  /\ memMu' = Nobody
  /\ UNCHANGED <<emu, hasSync>>

(* mainThreadRun *)
MapsDirectly(g) == Move(g, "map", "mapped") /\ hasSync /\ UNCHANGED <<memMu, emu, hasSync>>
MapWaits(g) == Move(g, "map", "exec") /\ ~hasSync /\ UNCHANGED <<memMu, emu, hasSync>>

(* resumeTask of the parked emulator receives the call and makes it *)
ServeExec(g) ==
  /\ Move(g, "exec", "mapped") /\ emu = "parked"
  /\ UNCHANGED <<memMu, emu, hasSync>>

-----------------------------------------------------------------------------
(* The emulator: hooks of guest code *)
HookSync ==
  /\ emu = "guest"
  /\ emu' = "sync" /\ hasSync' = TRUE
  /\ UNCHANGED <<memMu, at>>

SyncReturns ==
  /\ emu = "sync" /\ at[Emulator] = "idle"
  /\ emu' = "guest" /\ hasSync' = FALSE
  /\ UNCHANGED <<memMu, at>>

HookAsync == emu = "guest" /\ emu' = "parked" /\ UNCHANGED <<memMu, at, hasSync>>
Resume == emu = "parked" /\ emu' = "guest" /\ UNCHANGED <<memMu, at, hasSync>>

Steps(g) ==
  Lock(g) \/ NoneFits(g) \/ Unlock(g) \/ MapsDirectly(g) \/ MapWaits(g) \/ ServeExec(g)

Next ==
  \/ \E g \in All : MemAlloc(g) \/ Steps(g)
  \/ HookSync \/ SyncReturns \/ HookAsync \/ Resume

(* Goroutines run, the lock and the channel serve whoever waits, callbacks  *)
(* return, and guest code comes to an asynchronous hook.                    *)
Fairness ==
  /\ \A g \in All :
       /\ SF_vars(Lock(g))
       /\ WF_vars(NoneFits(g) \/ Unlock(g)) /\ WF_vars(MapsDirectly(g) \/ MapWaits(g))
  /\ SF_vars(\E g \in All : ServeExec(g))
  /\ SF_vars(SyncReturns) /\ SF_vars(HookAsync) /\ WF_vars(Resume)

Spec == Init /\ [][Next]_vars /\ Fairness

-----------------------------------------------------------------------------
(* Properties *)

(* Every memAlloc returns: whoever holds the lock while it waits for the    *)
(* emulator gets the emulator, although it waits for nothing but a hook of  *)
(* guest code and others come in between.                                   *)
AllocReturns == \A g \in All : at[g] # "idle" ~> at[g] = "idle"
=============================================================================
