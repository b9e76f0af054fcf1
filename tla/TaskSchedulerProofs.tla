------------------------ MODULE TaskSchedulerProofs ------------------------
(***************************************************************************)
(* Proofs about TaskScheduler, for any sets of tasks and callers, any      *)
(* number of runs and reuses, and any environment: whose registers the CPU *)
(* holds; where a task is, for owners who run it once; and that the        *)
(* scheduler implements CpuTurns.                                          *)
(***************************************************************************)
EXTENDS TaskScheduler, TLAPS

(* A hook works for the current task until it suspends.                     *)
HookWorksForCurrent == epc \in {"mark", "save", "sync"} => etask = current

(* The CPU holds the current task's registers or nobody's, and those of an  *)
(* unfinished one.  "mark" is the window in which updateStatus is about to  *)
(* bring back a task that has been cancelled in the meantime.               *)
CpuHoldsCurrent ==
  /\ current # None => loaded \in {current, None}
  /\ current \in Tasks /\ (Live(current) \/ epc = "mark") => loaded = current

(* An unfinished task that is not on the CPU before its save is saved.      *)
SavedOrOnCpu ==
  \A t \in Tasks :
    Live(t) => saved[t] \/ (loaded = t /\ epc \in {"guest", "mark", "save"})

Registers ==
  /\ HookWorksForCurrent
  /\ CpuHoldsCurrent
  /\ SavedOrOnCpu

IInv == TypeOK /\ HandoffAgrees /\ Registers

-----------------------------------------------------------------------------
(* Type correctness                                                         *)

USE DEF All, Runners, Pending, Running, Done, Close

(* The debugger starts well typed.                                          *)
LEMMA TypeInit == Init => TypeOK
<1> SUFFICES ASSUME Init PROVE TypeOK
  OBVIOUS
<1>1. /\ closed \in BOOLEAN /\ hasSync \in BOOLEAN /\ emuerr \in BOOLEAN
      /\ stopping \in BOOLEAN
  BY DEF Init
<1>2. /\ current \in All \cup {None} /\ loaded \in All \cup {None}
      /\ ltask \in All \cup {None} /\ etask \in Runners \cup {None}
  BY DEF Init
<1>3. phase \in [All -> {"none", "boot", "resetting", "held", "closed"}]
  BY DEF Init
<1>4. /\ status \in [All -> Pending .. Close] /\ done \in [All -> BOOLEAN]
      /\ change \in [All -> BOOLEAN] /\ saved \in [All -> BOOLEAN]
  BY DEF Init
<1>5. /\ runs \in [All -> Nat] /\ reuse \in Nat
      /\ starting \in [All -> Nat] /\ offering \in [Runners -> Nat]
  BY DEF Init
<1>6. hpc \in [Runners -> {"recv", "fn", "cancel", "check", "offer", "gone"}]
  BY DEF Init
<1>7. cpc \in [Callers -> {"idle", "waiting", "served", "direct"}]
  BY DEF Init
<1>8. QED
  BY <1>1, <1>2, <1>3, <1>4, <1>5, <1>6, <1>7 DEF Init, TypeOK

(* Calls of the API keep the types.                                         *)
LEMMA TypeClient == TypeOK /\ Client => TypeOK'
<1> SUFFICES ASSUME TypeOK, Client PROVE TypeOK'
  OBVIOUS
<1> USE DEF TypeOK, manager, tasks, owner, life, regs, goroutines,
        emulator, loop, queue
<1>1. CASE GetMainTask
  BY <1>1 DEF GetMainTask
<1>2. CASE ResetMain
  BY <1>2 DEF ResetMain
<1>3. CASE Shutdown
  BY <1>3 DEF Shutdown
<1>4. ASSUME NEW t \in All, CreateTask(t) PROVE TypeOK'
  BY <1>4 DEF CreateTask
<1>5. ASSUME NEW t \in All, Run(t) PROVE TypeOK'
  BY <1>5 DEF Run
<1>6. ASSUME NEW t \in All, CloseTask(t) PROVE TypeOK'
  BY <1>6 DEF CloseTask
<1>7. ASSUME NEW t \in All, CancelTask(t) PROVE TypeOK'
  BY <1>7 DEF CancelTask, Cancelled
<1>8. ASSUME NEW t \in All, Deadline(t) PROVE TypeOK'
  BY <1>8 DEF Deadline
<1>9. QED
  BY <1>1, <1>2, <1>3, <1>4, <1>5, <1>6, <1>7, <1>8 DEF Client

(* The goroutines of Run keep the types: none leaves runTask twice.         *)
LEMMA TypeRuns == TypeOK /\ Runs => TypeOK'
<1> SUFFICES ASSUME TypeOK, Runs PROVE TypeOK'
  OBVIOUS
<1> USE DEF TypeOK, manager, tasks, owner, life, regs, goroutines,
        emulator, loop, queue
<1>1. ASSUME NEW t \in All, RunRefused(t) PROVE TypeOK'
  BY <1>1 DEF RunRefused, Cancelled
<1>2. ASSUME NEW t \in All, RunOffers(t) PROVE TypeOK'
  BY <1>2 DEF RunOffers
<1>3. ASSUME NEW r \in Runners, RunGivesUp(r) PROVE TypeOK'
  BY <1>3 DEF RunGivesUp
<1>4. QED
  BY <1>1, <1>2, <1>3 DEF Runs

(* The loop keeps the types: what it restores is a task.                    *)
LEMMA TypeLoop == TypeOK /\ Loop => TypeOK'
<1> SUFFICES ASSUME TypeOK, Loop PROVE TypeOK'
  OBVIOUS
<1> USE DEF TypeOK, manager, tasks, owner, life, regs, goroutines,
        emulator, loop, queue
<1>1. CASE LoopExit
  BY <1>1 DEF LoopExit
<1>2. CASE LoopClosed
  BY <1>2 DEF LoopClosed
<1>3. CASE SkipRestore
  BY <1>3 DEF SkipRestore
<1>4. CASE Restore
  BY <1>4 DEF Restore, Loads
<1>5. CASE RestoreFails
  BY <1>5 DEF RestoreFails, FailsToLoad, Cancelled
<1>6. CASE Resume
  BY <1>6 DEF Resume
<1>7. ASSUME NEW r \in Runners, DispatchRun(r) PROVE TypeOK'
  BY <1>7 DEF DispatchRun, TaskOf
<1>8. ASSUME NEW r \in Runners, DispatchHandler(r) PROVE TypeOK'
  BY <1>8 DEF DispatchHandler, TaskOf
<1>9. QED
  BY <1>1, <1>2, <1>3, <1>4, <1>5, <1>6, <1>7, <1>8 DEF Loop, Dispatch

(* Hooks keep the types: they work for a task until they suspend.           *)
LEMMA TypeEmulator == TypeOK /\ Emulator => TypeOK'
<1> SUFFICES ASSUME TypeOK, Emulator PROVE TypeOK'
  OBVIOUS
<1> USE DEF TypeOK, manager, tasks, owner, life, regs, goroutines,
        emulator, loop, queue
<1>1. ASSUME NEW kind \in {"sync", "async"}, HookEnter(kind) PROVE TypeOK'
  BY <1>1 DEF HookEnter, Live
<1>2. CASE MarkRunning
  BY <1>2 DEF MarkRunning
<1>3. CASE SaveContext
  <2>1. CASE ehook = "sync"
    BY <1>3, <2>1 DEF SaveContext
  <2>2. CASE ehook = "async"
    BY <1>3, <2>2 DEF SaveContext
  <2>3. QED
    BY <1>3, <2>1, <2>2 DEF SaveContext
<1>4. CASE SaveFails
  BY <1>4 DEF SaveFails, Cancelled
<1>5. CASE SyncWrites
  BY <1>5 DEF SyncWrites
<1>6. CASE SyncCancels
  BY <1>6 DEF SyncCancels, Cancelled
<1>7. CASE SyncReturns
  <2>1. /\ epc = "sync" /\ epc' \in {"guest", "suspending"}
        /\ hasSync' = FALSE /\ etask' = None
        /\ UNCHANGED <<closed, current, emuerr, stopping, phase, saved, runs,
                       reuse, ehook, loop, queue, hpc, cpc>>
    BY <1>7 DEF SyncReturns
  <2>2. /\ \/ UNCHANGED <<status, done>>
           \/ Cancelled(etask)
        /\ \/ UNCHANGED <<change, loaded>>
           \/ /\ change' = [change EXCEPT ![etask] = FALSE]
              /\ loaded' \in {etask, None}
    BY <1>7 DEF SyncReturns, Loads, FailsToLoad
  <2>3. etask \in All
    BY <2>1
  <2>4. status' \in [All -> Pending .. Close]
    BY <2>2, <2>3 DEF Cancelled
  <2>5. done' \in [All -> BOOLEAN]
    BY <2>2, <2>3 DEF Cancelled
  <2>6. change' \in [All -> BOOLEAN] /\ loaded' \in All \cup {None}
    BY <2>2, <2>3
  <2>7. QED
    BY <2>1, <2>4, <2>5, <2>6, ZenonT(60)
<1>8. CASE SyncPanics
  BY <1>8 DEF SyncPanics, Cancelled
<1>9. CASE Suspend
  BY <1>9, SchedulerAssumption DEF SchedulerAssumption, Suspend
<1>10. CASE SuspendClosed
  BY <1>10 DEF SuspendClosed
<1>11. CASE Deliver
  BY <1>11, SchedulerAssumption DEF Deliver
<1>12. CASE DeliverDropped
  BY <1>12 DEF DeliverDropped
<1>13. CASE EmuReturns
  BY <1>13 DEF EmuReturns, Cancelled
<1>14. CASE ReleaseMain
  BY <1>14 DEF ReleaseMain
<1>15. QED
  BY <1>1, <1>2, <1>3, <1>4, <1>5, <1>6, <1>7, <1>8, <1>9, <1>10, <1>11, <1>12, <1>13, <1>14 DEF Emulator, SyncCallback, EmuStops, EmuFails

(* The handlers of the tasks keep the types.                                *)
LEMMA TypeHandler == TypeOK /\ (BootClose \/ \E r \in Runners : Handler(r)) => TypeOK'
<1> SUFFICES ASSUME TypeOK, (BootClose \/ \E r \in Runners : Handler(r)) PROVE TypeOK'
  OBVIOUS
<1> USE DEF TypeOK, manager, tasks, owner, life, regs, goroutines,
        emulator, loop, queue
<1>1. CASE BootClose
  BY <1>1 DEF BootClose
<1>2. ASSUME NEW r \in Runners, HandlerExits(r) PROVE TypeOK'
  BY <1>2 DEF HandlerExits
<1>3. ASSUME NEW r \in Runners, CallbackWrites(r) PROVE TypeOK'
  BY <1>3 DEF CallbackWrites, TaskOf
<1>4. ASSUME NEW r \in Runners, CallbackReturns(r) PROVE TypeOK'
  BY <1>4 DEF CallbackReturns
<1>5. ASSUME NEW r \in Runners, CallbackCancels(r) PROVE TypeOK'
  <2>1. CASE Live(TaskOf(r))
    BY <1>5, <2>1 DEF CallbackCancels
  <2>2. CASE ~Live(TaskOf(r))
    <3>1. done' \in [All -> BOOLEAN]
      BY <1>5, <2>2 DEF CallbackCancels, TaskOf
    <3>2. QED
      BY <1>5, <2>2, <3>1 DEF CallbackCancels
  <2>3. QED
    BY <2>1, <2>2
<1>6. ASSUME NEW r \in Runners, CancelWrites(r) PROVE TypeOK'
  BY <1>6 DEF CancelWrites, TaskOf
<1>7. ASSUME NEW r \in Runners, CallbackPanics(r) PROVE TypeOK'
  BY <1>7 DEF CallbackPanics, Cancelled, TaskOf
<1>8. ASSUME NEW r \in Runners, Requeue(r) PROVE TypeOK'
  BY <1>8 DEF Requeue
<1>9. ASSUME NEW r \in Runners, RequeueRefused(r) PROVE TypeOK'
  BY <1>9 DEF RequeueRefused, Cancelled, TaskOf
<1>10. ASSUME NEW r \in Runners, HandleReturns(r) PROVE TypeOK'
  BY <1>10 DEF HandleReturns
<1>11. QED
  BY <1>1, <1>2, <1>3, <1>4, <1>5, <1>6, <1>7, <1>8, <1>9, <1>10 DEF Handler

(* mainThreadRun keeps the types.                                           *)
LEMMA TypeCaller == TypeOK /\ (\E c \in Callers : Caller(c)) => TypeOK'
<1> SUFFICES ASSUME TypeOK, (\E c \in Callers : Caller(c)) PROVE TypeOK'
  OBVIOUS
<1> USE DEF TypeOK, manager, tasks, owner, life, regs, goroutines,
        emulator, loop, queue
<1>1. ASSUME NEW c \in Callers, CallMainThread(c) PROVE TypeOK'
  BY <1>1 DEF CallMainThread
<1>2. ASSUME NEW c \in Callers, CallerClosed(c) PROVE TypeOK'
  BY <1>2 DEF CallerClosed
<1>3. ASSUME NEW c \in Callers, ServeExec(c) PROVE TypeOK'
  BY <1>3 DEF ServeExec
<1>4. ASSUME NEW c \in Callers, ExecReturns(c) PROVE TypeOK'
  BY <1>4 DEF ExecReturns
<1>5. ASSUME NEW c \in Callers, DirectReturns(c) PROVE TypeOK'
  BY <1>5 DEF DirectReturns
<1>6. QED
  BY <1>1, <1>2, <1>3, <1>4, <1>5 DEF Caller

(* Every step keeps the types.                                              *)
LEMMA TypeStep == TypeOK /\ [Next]_vars => TypeOK'
<1> SUFFICES ASSUME TypeOK, [Next]_vars PROVE TypeOK'
  OBVIOUS
<1>1. CASE UNCHANGED vars
  BY <1>1 DEF TypeOK, vars, manager, tasks, owner, life, regs, goroutines,
        emulator, loop, queue
<1>2. CASE Next
  BY <1>2, <1>1, TypeClient, TypeRuns, TypeLoop, TypeEmulator, TypeHandler,
     TypeCaller DEF Next, Terminated
<1>3. QED
  BY <1>1, <1>2

(* The variables always hold values of their types.                         *)
THEOREM TypeCorrect == Spec => []TypeOK
BY TypeInit, TypeStep, PTL DEF Spec

-----------------------------------------------------------------------------
(* The handoff between emulator and loop                                    *)

(* Only the loop, hooks and mainThreadRun move either side of the handoff.  *)
LEMMA HandoffFrame ==
  Client \/ Runs \/ BootClose \/ (\E r \in Runners : Handler(r))
    => UNCHANGED <<epc, lpc>>
<1> USE DEF goroutines, emulator, loop
<1>1. Client => UNCHANGED <<epc, lpc>>
  BY DEF Client, GetMainTask, ResetMain, Shutdown, CreateTask, Run, CloseTask,
         CancelTask, Deadline
<1>2. Runs => UNCHANGED <<epc, lpc>>
  BY DEF Runs, RunRefused, RunOffers, RunGivesUp
<1>3. BootClose => UNCHANGED <<epc, lpc>>
  BY DEF BootClose
<1>4. ASSUME NEW r \in Runners, Handler(r) PROVE UNCHANGED <<epc, lpc>>
  BY <1>4 DEF Handler, HandlerExits, CallbackWrites, CallbackReturns,
     CallbackCancels, CancelWrites, CallbackPanics, Requeue, RequeueRefused,
     HandleReturns
<1>5. QED
  BY <1>1, <1>2, <1>3, <1>4

(* Every step keeps the two sides of the handoff together.                  *)
LEMMA HandoffStep ==
  TypeOK /\ HandoffAgrees /\ [Next]_vars => HandoffAgrees'
<1> SUFFICES ASSUME TypeOK, HandoffAgrees, [Next]_vars PROVE HandoffAgrees'
  OBVIOUS
<1> USE DEF HandoffAgrees, goroutines, emulator, loop
<1>1. CASE UNCHANGED <<epc, lpc>>
  BY <1>1
<1>2. CASE Loop
  <2>1. CASE LoopExit \/ LoopClosed \/ SkipRestore \/ Resume
    BY <2>1 DEF LoopExit, LoopClosed, SkipRestore, Resume
  <2>2. CASE Restore \/ RestoreFails
    BY <2>2 DEF Restore, RestoreFails
  <2>3. ASSUME NEW t \in All, Dispatch(t) PROVE HandoffAgrees'
    BY <2>3 DEF Dispatch, DispatchRun, DispatchHandler
  <2>4. QED
    BY <1>2, <2>1, <2>2, <2>3 DEF Loop
<1>3. CASE Emulator
  <2>1. ASSUME NEW kind \in {"sync", "async"}, HookEnter(kind)
        PROVE  HandoffAgrees'
    BY <2>1 DEF HookEnter
  <2>2. CASE MarkRunning \/ SaveContext \/ SaveFails
    BY <2>2 DEF MarkRunning, SaveContext, SaveFails
  <2>3. CASE SyncCallback
    BY <2>3 DEF SyncCallback, SyncWrites, SyncCancels, SyncReturns, SyncPanics
  <2>4. CASE Suspend \/ SuspendClosed
    BY <2>4 DEF Suspend, SuspendClosed
  <2>5. CASE Deliver \/ DeliverDropped
    BY <2>5 DEF Deliver, DeliverDropped
  <2>6. CASE EmuReturns \/ ReleaseMain
    BY <2>6 DEF EmuReturns, ReleaseMain
  <2>7. QED
    BY <1>3, <2>1, <2>2, <2>3, <2>4, <2>5, <2>6 DEF Emulator, EmuStops, EmuFails
<1>4. ASSUME NEW c \in Callers, Caller(c) PROVE HandoffAgrees'
  BY <1>4 DEF Caller, CallMainThread, CallerClosed, ServeExec, ExecReturns,
     DirectReturns
<1>5. QED
  BY <1>1, <1>2, <1>3, <1>4, HandoffFrame DEF Next, Terminated, vars

(* suspend and resume pair up in every behaviour: the loop never resumes a  *)
(* running emulator, and the emulator never parks with nobody to resume it. *)
THEOREM HandoffCorrect == Spec => []HandoffAgrees
<1>1. Init => HandoffAgrees
  BY DEF Init, HandoffAgrees
<1>2. QED
  BY <1>1, TypeCorrect, HandoffStep, PTL DEF Spec

-----------------------------------------------------------------------------
(* The registers                                                            *)

(* What most steps do: no register moves, no finished task comes back, and  *)
(* the emulator goes on outside the part of a hook that handles registers.  *)
Quiet ==
  /\ UNCHANGED <<current, saved, loaded>>
  /\ \A t \in Tasks : Live(t)' => Live(t)
  /\ \/ UNCHANGED <<epc, etask>>
     \/ epc \notin {"guest", "mark", "save"} /\ epc' \notin {"mark", "save", "sync"}

(* A quiet step keeps every register where it has to be.                    *)
LEMMA QuietKeepsRegisters == Registers /\ Quiet => Registers'
BY DEF Registers, Quiet, HookWorksForCurrent, CpuHoldsCurrent, SavedOrOnCpu

(* CancelCause only takes tasks off the unfinished ones.                    *)
LEMMA CancelIsQuiet ==
  ASSUME TypeOK, NEW t \in All, Cancelled(t)
  PROVE  \A u \in Tasks : Live(u)' => Live(u) /\ u # t
<1> SUFFICES ASSUME NEW u \in Tasks, Live(u)' PROVE Live(u) /\ u # t
  OBVIOUS
<1>1. status'[u] = IF u = t /\ status[t] < 2 THEN 2 ELSE status[u]
  BY DEF TypeOK, Cancelled
<1>2. status[u] \in 0 .. 3
  BY DEF TypeOK
<1>3. QED
  BY <1>1, <1>2 DEF Live

(* The API moves no registers, but for the reset of the main task.          *)
LEMMA QuietClient == TypeOK /\ Client => ResetMain \/ Quiet
<1> SUFFICES ASSUME TypeOK, Client, ~ResetMain PROVE Quiet
  OBVIOUS
<1> USE DEF Quiet, manager, owner, life, regs, tasks, goroutines, emulator
<1>1. CASE GetMainTask
  BY <1>1, SchedulerAssumption DEF SchedulerAssumption, GetMainTask, TypeOK, Live
<1>2. CASE Shutdown
  BY <1>2 DEF Shutdown, tasks, Live
<1>3. ASSUME NEW t \in All, CreateTask(t) \/ Run(t) \/ Deadline(t) PROVE Quiet
  BY <1>3 DEF CreateTask, Run, Deadline, Live
<1>4. ASSUME NEW t \in All, CloseTask(t) PROVE Quiet
  BY <1>4 DEF CloseTask, TypeOK, Live
<1>5. ASSUME NEW t \in All, CancelTask(t) PROVE Quiet
  BY <1>5, CancelIsQuiet DEF CancelTask
<1>6. QED
  BY <1>1, <1>2, <1>3, <1>4, <1>5 DEF Client

(* The goroutines of Run move no registers.                                 *)
LEMMA QuietRuns == TypeOK /\ Runs => Quiet
<1> SUFFICES ASSUME TypeOK, Runs PROVE Quiet
  OBVIOUS
<1> USE DEF Quiet, manager, owner, life, regs, tasks, goroutines, emulator
<1>1. ASSUME NEW t \in All, RunRefused(t) PROVE Quiet
  BY <1>1, CancelIsQuiet DEF RunRefused
<1>2. ASSUME NEW t \in All, RunOffers(t) PROVE Quiet
  BY <1>2 DEF RunOffers, tasks, Live
<1>3. ASSUME NEW r \in Runners, RunGivesUp(r) PROVE Quiet
  BY <1>3 DEF RunGivesUp, tasks, Live
<1>4. QED
  BY <1>1, <1>2, <1>3 DEF Runs

(* The handlers move no registers: they write to saved contexts.            *)
LEMMA QuietHandler ==
  TypeOK /\ (BootClose \/ \E r \in Runners : Handler(r)) => Quiet
<1> SUFFICES ASSUME TypeOK, BootClose \/ \E r \in Runners : Handler(r)
             PROVE  Quiet
  OBVIOUS
<1> USE DEF Quiet, manager, owner, life, regs, tasks, goroutines, emulator
<1>1. CASE BootClose
  BY <1>1 DEF BootClose, TypeOK, Live
<1>2. ASSUME NEW r \in Runners,
             HandlerExits(r) \/ CallbackReturns(r) \/ Requeue(r) \/ HandleReturns(r)
      PROVE  Quiet
  BY <1>2 DEF HandlerExits, CallbackReturns, Requeue, HandleReturns, tasks, Live
<1>3. ASSUME NEW r \in Runners, CallbackWrites(r) \/ CallbackCancels(r) PROVE Quiet
  BY <1>3 DEF CallbackWrites, CallbackCancels, Live
<1>4. ASSUME NEW r \in Runners, CancelWrites(r) PROVE Quiet
  BY <1>4 DEF CancelWrites, TypeOK, TaskOf, Live
<1>5. ASSUME NEW r \in Runners, CallbackPanics(r) \/ RequeueRefused(r) PROVE Quiet
  <2>1. TaskOf(r) \in All
    BY DEF TaskOf
  <2>2. QED
    BY <1>5, <2>1, CancelIsQuiet DEF CallbackPanics, RequeueRefused
<1>6. QED
  BY <1>1, <1>2, <1>3, <1>4, <1>5 DEF Handler

(* mainThreadRun moves no registers.                                        *)
LEMMA QuietCaller == (\E c \in Callers : Caller(c)) => Quiet
BY DEF Caller, CallMainThread, CallerClosed, ServeExec, ExecReturns,
   DirectReturns, Quiet, manager, owner, life, regs, tasks,
   goroutines, emulator, Live

(* The reset of the main task leaves the other tasks' registers alone.      *)
LEMMA RegistersReset == TypeOK /\ Registers /\ ResetMain => Registers'
<1> SUFFICES ASSUME TypeOK, Registers, ResetMain PROVE Registers'
  OBVIOUS
<1>1. /\ \A t \in Tasks : saved'[t] = saved[t] /\ Live(t)' = Live(t)
      /\ loaded' = IF loaded = Main THEN None ELSE loaded
      /\ UNCHANGED <<current, epc>>
      /\ epc # "deliver" => etask' = etask
  BY SchedulerAssumption DEF SchedulerAssumption, ResetMain, TypeOK, manager, Live,
     owner, regs, goroutines, emulator
<1>2. QED
  BY <1>1, SchedulerAssumption DEF SchedulerAssumption, Registers,
     HookWorksForCurrent, CpuHoldsCurrent, SavedOrOnCpu

(* The loop restores a context while the emulator is parked, so every       *)
(* unfinished task is saved, the one it leaves and the one it takes.        *)
LEMMA RegistersLoop ==
  TypeOK /\ HandoffAgrees /\ Registers /\ Loop => Registers'
<1> SUFFICES ASSUME TypeOK, HandoffAgrees, Registers, Loop PROVE Registers'
  OBVIOUS
<1> USE DEF manager, owner, life, regs, tasks, goroutines, emulator
<1>1. CASE LoopExit \/ LoopClosed \/ SkipRestore \/ Resume
  <2>1. Quiet
    BY <1>1 DEF LoopExit, LoopClosed, SkipRestore, Resume, Quiet, tasks, Live
  <2>2. QED
    BY <2>1, QuietKeepsRegisters
<1>2. ASSUME NEW t \in All, Dispatch(t) PROVE Registers'
  <2>1. Quiet
    BY <1>2 DEF Dispatch, DispatchRun, DispatchHandler, Quiet, tasks, Live
  <2>2. QED
    BY <2>1, QuietKeepsRegisters
<1>3. CASE Restore \/ RestoreFails
  <2>1. ltask \in All /\ epc \in {"deliver", "parked", "exec"}
    BY <1>3 DEF Restore, RestoreFails, HandoffAgrees, TypeOK
  <2>2. \A t \in Tasks : Live(t) => saved[t]
    BY <2>1 DEF Registers, SavedOrOnCpu
  <2>3. CASE Restore
    <3>1. /\ current' = ltask /\ UNCHANGED <<epc, etask, saved, status>>
          /\ loaded' = IF saved[ltask] THEN ltask ELSE None
      BY <2>3 DEF Restore, Loads
    <3>2. QED
      BY <2>1, <2>2, <3>1 DEF Registers, HookWorksForCurrent, CpuHoldsCurrent,
         SavedOrOnCpu, Live
  <2>4. CASE RestoreFails
    <3>1. /\ current' = ltask /\ UNCHANGED <<epc, etask, saved>>
          /\ loaded' = None /\ Cancelled(ltask)
      BY <2>4 DEF RestoreFails, FailsToLoad
    <3>2. \A u \in Tasks : Live(u)' => Live(u) /\ u # ltask
      BY <2>1, <3>1, CancelIsQuiet
    <3>3. QED
      BY <2>1, <2>2, <3>1, <3>2 DEF Registers, HookWorksForCurrent,
         CpuHoldsCurrent, SavedOrOnCpu
  <2>5. QED
    BY <1>3, <2>3, <2>4
<1>4. QED
  BY <1>1, <1>2, <1>3 DEF Loop

(* A hook saves the registers of its task before it gives up the CPU.       *)
LEMMA RegistersEmulator ==
  TypeOK /\ Registers /\ Emulator => Registers'
<1> SUFFICES ASSUME TypeOK, Registers, Emulator PROVE Registers'
  OBVIOUS
<1> USE DEF manager, owner, life, regs, tasks, goroutines, emulator
<1>1. ASSUME NEW kind \in {"sync", "async"}, HookEnter(kind) PROVE Registers'
  <2>1. /\ \A t \in Tasks : saved'[t] <=> saved[t] /\ t # loaded
        /\ UNCHANGED <<status, loaded, current>>
        /\ epc = "guest" /\ current \in All
        /\ \/ Live(current) /\ etask' = current /\ epc' \in {"mark", "save"}
           \/ ~Live(current) /\ epc' = "suspending"
    BY <1>1 DEF HookEnter, TypeOK
  <2>2. QED
    BY <2>1, SchedulerAssumption DEF SchedulerAssumption, Registers,
       HookWorksForCurrent, CpuHoldsCurrent, SavedOrOnCpu, Live
<1>2. CASE MarkRunning
  <2>1. \A t \in Tasks : t # etask => Live(t)' = Live(t)
    BY <1>2 DEF MarkRunning, TypeOK, Live
  <2>2. /\ UNCHANGED <<saved, loaded, current, etask>>
        /\ epc = "mark" /\ epc' = "save"
    BY <1>2 DEF MarkRunning
  <2>3. QED
    BY <2>1, <2>2 DEF Registers, HookWorksForCurrent, CpuHoldsCurrent, SavedOrOnCpu
<1>3. CASE SaveContext
  <2>1. /\ UNCHANGED <<status, loaded, current, etask>>
        /\ epc = "save" /\ epc' \in {"sync", "suspending"}
        /\ saved' = [saved EXCEPT ![etask] = (loaded = etask)]
    BY <1>3 DEF SaveContext
  <2>2. /\ \A t \in All : saved'[t] = IF t = etask THEN loaded = etask ELSE saved[t]
        /\ etask = current /\ etask \in All
    BY <2>1 DEF TypeOK, Registers, HookWorksForCurrent
  <2>3. ASSUME NEW t \in Tasks, Live(t) PROVE saved'[t]
    BY <2>1, <2>2, <2>3, SchedulerAssumption DEF SchedulerAssumption, Registers,
       CpuHoldsCurrent, SavedOrOnCpu
  <2>4. QED
    BY <2>1, <2>2, <2>3 DEF Registers, HookWorksForCurrent, CpuHoldsCurrent,
       SavedOrOnCpu, Live
<1>4. CASE SaveFails
  <2>1. /\ UNCHANGED <<saved, loaded, current>>
        /\ epc = "save" /\ epc' = "suspending" /\ Cancelled(etask)
    BY <1>4 DEF SaveFails
  <2>2. etask \in All /\ etask = current
    BY <2>1 DEF TypeOK, Registers, HookWorksForCurrent
  <2>3. \A t \in Tasks : Live(t)' => Live(t) /\ t # etask
    BY <2>1, <2>2, CancelIsQuiet
  <2>4. QED
    BY <2>1, <2>2, <2>3, SchedulerAssumption DEF SchedulerAssumption, Registers,
       HookWorksForCurrent, CpuHoldsCurrent, SavedOrOnCpu
<1>5. CASE SyncCallback
  <2>1. CASE SyncWrites
    <3>1. Quiet
      BY <2>1 DEF SyncWrites, Quiet, Live
    <3>2. QED
      BY <3>1, QuietKeepsRegisters
  <2>2. CASE SyncCancels \/ SyncPanics
    <3>1. etask \in All
      BY <2>2 DEF SyncCancels, SyncPanics, TypeOK
    <3>2. Quiet
      BY <2>2, <3>1, CancelIsQuiet DEF SyncCancels, SyncPanics, Quiet
    <3>3. QED
      BY <3>2, QuietKeepsRegisters
  <2>3. CASE SyncReturns
    <3>1. /\ epc = "sync" /\ etask \in All /\ UNCHANGED <<saved, current>>
          /\ epc' \in {"guest", "suspending"}
      BY <2>3 DEF SyncReturns, TypeOK
    <3>2. \/ UNCHANGED <<status, loaded>>
          \/ UNCHANGED status /\ loaded' = IF saved[etask] THEN etask ELSE None
          \/ loaded' = None /\ Cancelled(etask)
      BY <2>3 DEF SyncReturns, Loads, FailsToLoad
    <3>3. /\ etask = current /\ loaded \in {current, None}
          /\ \A t \in Tasks : Live(t) => saved[t]
          /\ current \in Tasks /\ Live(current) => loaded = current
      BY <3>1, SchedulerAssumption DEF SchedulerAssumption, Registers,
         HookWorksForCurrent, CpuHoldsCurrent, SavedOrOnCpu
    <3>4. CASE UNCHANGED <<status, loaded>>
      BY <3>1, <3>3, <3>4 DEF Registers, HookWorksForCurrent, CpuHoldsCurrent,
         SavedOrOnCpu, Live
    <3>5. CASE UNCHANGED status /\ loaded' = IF saved[etask] THEN etask ELSE None
      BY <3>1, <3>3, <3>5 DEF Registers, HookWorksForCurrent, CpuHoldsCurrent,
         SavedOrOnCpu, Live
    <3>6. CASE loaded' = None /\ Cancelled(etask)
      <4>1. \A t \in Tasks : Live(t)' => Live(t) /\ t # etask
        BY <3>1, <3>6, CancelIsQuiet
      <4>2. QED
        BY <3>1, <3>3, <3>6, <4>1 DEF Registers, HookWorksForCurrent,
           CpuHoldsCurrent, SavedOrOnCpu
    <3>7. QED
      BY <3>2, <3>4, <3>5, <3>6
  <2>4. QED
    BY <1>5, <2>1, <2>2, <2>3 DEF SyncCallback
<1>6. CASE Suspend \/ SuspendClosed \/ Deliver \/ DeliverDropped
  <2>1. Quiet
    BY <1>6 DEF Suspend, SuspendClosed, Deliver, DeliverDropped, Quiet, tasks, Live
  <2>2. QED
    BY <2>1, QuietKeepsRegisters
<1>7. CASE EmuReturns
  <2>1. /\ epc = "guest" /\ current \in All /\ Cancelled(current)
        /\ current' = None /\ epc' = "exiting" /\ UNCHANGED <<saved, loaded>>
    BY <1>7 DEF EmuReturns, TypeOK
  <2>2. \A t \in Tasks : Live(t)' => Live(t) /\ t # current
    BY <2>1, CancelIsQuiet
  <2>3. QED
    BY <2>1, <2>2, SchedulerAssumption DEF SchedulerAssumption, Registers,
       HookWorksForCurrent, CpuHoldsCurrent, SavedOrOnCpu
<1>8. CASE ReleaseMain
  <2>1. Quiet
    BY <1>8 DEF ReleaseMain, Quiet, TypeOK, Live
  <2>2. QED
    BY <2>1, QuietKeepsRegisters
<1>9. QED
  BY <1>1, <1>2, <1>3, <1>4, <1>5, <1>6, <1>7, <1>8
     DEF Emulator, EmuStops, EmuFails

(* The inductive invariant holds when the emulator starts.                  *)
LEMMA IInvInit == Init => IInv
<1>1. Init => HandoffAgrees
  BY DEF Init, HandoffAgrees
<1>2. Init => Registers
  BY SchedulerAssumption DEF SchedulerAssumption, Init, Registers,
     HookWorksForCurrent, CpuHoldsCurrent, SavedOrOnCpu
<1>3. QED
  BY <1>1, <1>2, TypeInit DEF IInv

(* Every step keeps the inductive invariant.                                *)
LEMMA IInvStep == IInv /\ [Next]_vars => IInv'
<1> SUFFICES ASSUME IInv, [Next]_vars PROVE IInv'
  OBVIOUS
<1> USE DEF IInv
<1>1. TypeOK' /\ HandoffAgrees'
  BY TypeStep, HandoffStep
<1>2. Registers'
  <2>1. CASE Client
    BY <2>1, QuietClient, RegistersReset, QuietKeepsRegisters
  <2>2. CASE Runs \/ BootClose \/ \E r \in Runners : Handler(r)
    BY <2>2, QuietRuns, QuietHandler, QuietKeepsRegisters
  <2>3. CASE Loop
    BY <2>3, RegistersLoop
  <2>4. CASE Emulator
    BY <2>4, RegistersEmulator
  <2>5. CASE \E c \in Callers : Caller(c)
    BY <2>5, QuietCaller, QuietKeepsRegisters
  <2>6. CASE UNCHANGED vars
    BY <2>6 DEF vars, manager, tasks, life, regs, goroutines, emulator, Registers, HookWorksForCurrent,
       CpuHoldsCurrent, SavedOrOnCpu, Live
  <2>7. QED
    BY <2>1, <2>2, <2>3, <2>4, <2>5, <2>6 DEF Next, Terminated
<1>3. QED
  BY <1>1, <1>2

(* The inductive invariant holds in every behaviour.                        *)
THEOREM Invariance == Spec => []IInv
BY IInvInit, IInvStep, PTL DEF Spec

(* Guest code of an unfinished task runs on that task's registers, whatever *)
(* the other tasks, the owners, failures and shutdown do: the loop restores *)
(* on every switch and hooks save before every suspend.                     *)
THEOREM GuestRunsAsCurrentAlways == Spec => []GuestRunsAsCurrent
<1>1. IInv => GuestRunsAsCurrent
  BY DEF IInv, Registers, CpuHoldsCurrent, GuestRunsAsCurrent
<1>2. QED
  BY <1>1, Invariance, PTL

(* The registers an unfinished task has computed are never lost: they are   *)
(* in its context or on the CPU.                                            *)
THEOREM ProgressKeptAlways == Spec => []ProgressKept
<1>1. IInv => ProgressKept
  BY DEF IInv, Registers, SavedOrOnCpu, ProgressKept
<1>2. QED
  BY <1>1, Invariance, PTL

-----------------------------------------------------------------------------
(***************************************************************************)
(* For owners who run a task once: a task is in one place, what was        *)
(* written to its registers reaches the CPU, and its status only advances. *)
(***************************************************************************)

(* A hook that suspends has a callback for the current task or none; a      *)
(* guest that runs and an emulator that is parked have none.                *)
HooksHold ==
  /\ epc \in {"guest", "parked", "exec"} => etask = None
  /\ epc = "suspending" => etask \in {current, None}

(* What the loop resumes is the current task *)
LoopHolds == lpc = "resume" /\ ~closed => ltask = current

(* Every place a task is in goes back to a call of Run.                     *)
PlacesCounted ==
  \A t \in Tasks : runs[t] <= MaxRuns /\ (~closed => Places(t) <= runs[t])

(* The registers of the current task have been restored since they were     *)
(* written, also in the window of updateStatus, and before the resume.      *)
Applied ==
  ~closed =>
    /\ lpc = "resume" /\ ltask \in Tasks => ~change[ltask]
    /\ OnCpu /\ epc # "sync" /\ current \in Tasks /\ (Live(current) \/ epc = "mark")
         => ~change[current]

Hold == IInv /\ HooksHold /\ LoopHolds

-----------------------------------------------------------------------------
(* Who holds a task                                                         *)

(* Steps of the API, of runs and of handlers move neither emulator nor loop.*)
LEMMA HoldFrame ==
  ASSUME Client \/ Runs \/ BootClose \/ (\E r \in Runners : Handler(r))
  PROVE  /\ UNCHANGED <<epc, lpc, ltask, current>>
         /\ etask' = etask \/ epc = "deliver"
         /\ closed => closed'
<1> USE DEF manager, goroutines, emulator, loop
<1>1. CASE Client
  BY <1>1 DEF Client, GetMainTask, ResetMain, Shutdown, CreateTask, Run, CloseTask,
         CancelTask, Deadline
<1>2. CASE Runs
  BY <1>2 DEF Runs, RunRefused, RunOffers, RunGivesUp
<1>3. CASE BootClose
  BY <1>3 DEF BootClose
<1>4. ASSUME NEW r \in Runners, Handler(r)
      PROVE  UNCHANGED <<epc, lpc, ltask, current, etask, closed>>
  BY <1>4 DEF Handler, HandlerExits, CallbackWrites, CallbackReturns,
     CallbackCancels, CancelWrites, CallbackPanics, Requeue, RequeueRefused,
     HandleReturns
<1>5. QED
  BY <1>1, <1>2, <1>3, <1>4

(* The loop makes the task current before it resumes the emulator.          *)
LEMMA HoldLoop ==
  ASSUME Hold, Loop
  PROVE  HooksHold' /\ LoopHolds'
<1> USE DEF Hold, IInv, HandoffAgrees, HooksHold, LoopHolds, manager, goroutines,
        emulator, loop
<1>1. CASE LoopExit \/ LoopClosed
  BY <1>1 DEF LoopExit, LoopClosed
<1>2. CASE SkipRestore \/ Restore
  BY <1>2 DEF SkipRestore, Restore, NeedsRestore
<1>3. CASE RestoreFails \/ Resume
  BY <1>3 DEF RestoreFails, Resume
<1>4. ASSUME NEW t \in All, Dispatch(t) PROVE HooksHold' /\ LoopHolds'
  BY <1>4 DEF Dispatch, DispatchRun, DispatchHandler
<1>5. QED
  BY <1>1, <1>2, <1>3, <1>4 DEF Loop

(* Hooks take the current task and let go of it before the guest goes on.   *)
LEMMA HoldEmulator ==
  ASSUME Hold, Emulator
  PROVE  HooksHold' /\ LoopHolds'
<1> USE DEF Hold, IInv, Registers, HookWorksForCurrent, HandoffAgrees, HooksHold,
        LoopHolds, manager, goroutines, emulator, loop
<1>1. ASSUME NEW kind \in {"sync", "async"}, HookEnter(kind)
      PROVE  HooksHold' /\ LoopHolds'
  BY <1>1 DEF HookEnter
<1>2. CASE MarkRunning \/ SaveContext \/ SaveFails
  BY <1>2 DEF MarkRunning, SaveContext, SaveFails
<1>3. CASE SyncCallback
  BY <1>3 DEF SyncCallback, SyncWrites, SyncCancels, SyncReturns, SyncPanics
<1>4. CASE Suspend \/ SuspendClosed
  BY <1>4 DEF Suspend, SuspendClosed
<1>5. CASE Deliver \/ DeliverDropped
  BY <1>5 DEF Deliver, DeliverDropped
<1>6. CASE EmuReturns \/ ReleaseMain
  BY <1>6 DEF EmuReturns, ReleaseMain
<1>7. QED
  BY <1>1, <1>2, <1>3, <1>4, <1>5, <1>6 DEF Emulator, EmuStops, EmuFails

LEMMA HoldStep ==
  ASSUME Hold, [Next]_vars
  PROVE  Hold'
<1>1. IInv'
  BY IInvStep DEF Hold
<1>2. HooksHold' /\ LoopHolds'
  <2>1. CASE Client \/ Runs \/ BootClose \/ (\E r \in Runners : Handler(r))
    BY <2>1, HoldFrame DEF Hold, HooksHold, LoopHolds
  <2>2. CASE \E c \in Callers : Caller(c)
    BY <2>2 DEF Caller, CallMainThread, CallerClosed, ServeExec, ExecReturns,
       DirectReturns, manager, emulator, loop, Hold, HooksHold, LoopHolds
  <2>3. CASE UNCHANGED vars
    BY <2>3 DEF vars, manager, goroutines, emulator, loop, Hold, HooksHold, LoopHolds
  <2>4. QED
    BY <2>1, <2>2, <2>3, HoldLoop, HoldEmulator DEF Next, Terminated
<1>3. QED
  BY <1>1, <1>2 DEF Hold

-----------------------------------------------------------------------------
(* Places                                                                   *)

AtHandler(t) == hpc[t] \in {"fn", "cancel", "check", "offer"}
AtEmulator(t) == (OnCpu /\ current = t) \/ (epc = "deliver" /\ etask = t)

(* A step that brings t nowhere it was not before *)
Stays(t) ==
  /\ starting'[t] <= starting[t] /\ offering'[t] <= offering[t]
  /\ ltask' = t => ltask = t
  /\ AtHandler(t)' => AtHandler(t)
  /\ AtEmulator(t)' => AtEmulator(t)

(* The number of places is that of runs, and of goroutines that hold t.     *)
LEMMA PlacesAre ==
  ASSUME TypeOK, NEW t \in Tasks
  PROVE  /\ starting[t] \in Nat /\ offering[t] \in Nat
         /\ Places(t) = starting[t] + offering[t] + One(ltask = t)
                          + One(AtHandler(t)) + One(AtEmulator(t))
BY DEF TypeOK, Places, AtHandler, AtEmulator

(* A task that stays is in no more places than before.                      *)
LEMMA StaysPut ==
  ASSUME TypeOK, TypeOK', NEW t \in Tasks, Stays(t)
  PROVE  Places(t)' <= Places(t)
<1>1. /\ starting[t] \in Nat /\ offering[t] \in Nat
      /\ starting'[t] \in Nat /\ offering'[t] \in Nat
  BY DEF TypeOK
<1>2. Places(t) = starting[t] + offering[t] + One(ltask = t)
                    + One(AtHandler(t)) + One(AtEmulator(t))
  BY PlacesAre
<1>3. Places(t)' = starting'[t] + offering'[t] + One(ltask' = t)
                     + One(AtHandler(t)') + One(AtEmulator(t)')
  BY DEF Places, AtHandler, AtEmulator
<1>4. One(ltask' = t) <= One(ltask = t)
  BY DEF Stays, One
<1>5. One(AtHandler(t)') <= One(AtHandler(t))
  BY DEF Stays, One
<1>6. One(AtEmulator(t)') <= One(AtEmulator(t))
  BY DEF Stays, One
<1>7. \A b \in BOOLEAN : One(b) \in {0, 1}
  BY DEF One
<1>8. QED
  BY <1>1, <1>2, <1>3, <1>4, <1>5, <1>6, <1>7 DEF Stays, One

(* Owners bring a task to a place by Run only, which is counted.            *)
LEMMA PlacesClient ==
  ASSUME Hold, TypeOK', NEW t \in Tasks, Client
  PROVE  \/ runs'[t] = runs[t] /\ Places(t)' <= Places(t)
         \/ /\ runs[t] < MaxRuns /\ runs'[t] = runs[t] + 1
            /\ Places(t)' = Places(t) + 1
<1> USE DEF Hold, IInv, manager, tasks, owner, goroutines, emulator, loop, queue
<1>1. t \in All /\ t # Main /\ t # Stale /\ TypeOK
  BY SchedulerAssumption DEF SchedulerAssumption
<1>2. CASE GetMainTask \/ Shutdown
  <2>1. runs'[t] = runs[t] /\ Stays(t)
    BY <1>1, <1>2 DEF TypeOK, GetMainTask, Shutdown, Stays, AtHandler, AtEmulator, OnCpu
  <2>2. QED
    BY <1>1, <2>1, StaysPut
<1>3. CASE ResetMain
  <2>1. runs'[t] = runs[t] /\ Stays(t)
    BY <1>1, <1>3 DEF TypeOK, ResetMain, Stays, AtHandler, AtEmulator, OnCpu
  <2>2. QED
    BY <1>1, <2>1, StaysPut
<1>4. ASSUME NEW u \in All,
             CreateTask(u) \/ CloseTask(u) \/ CancelTask(u) \/ Deadline(u)
      PROVE  runs'[t] = runs[t] /\ Places(t)' <= Places(t)
  <2>1. runs'[t] = runs[t] /\ Stays(t)
    BY <1>1, <1>4 DEF TypeOK, CreateTask, CloseTask, CancelTask, Deadline, Stays,
       AtHandler, AtEmulator, OnCpu
  <2>2. QED
    BY <1>1, <2>1, StaysPut
<1>5. ASSUME NEW u \in All \ {t}, Run(u)
      PROVE  runs'[t] = runs[t] /\ Places(t)' <= Places(t)
  <2>1. runs'[t] = runs[t] /\ Stays(t)
    BY <1>1, <1>5 DEF TypeOK, Run, Stays, AtHandler, AtEmulator, OnCpu
  <2>2. QED
    BY <1>1, <2>1, StaysPut
<1>6. CASE Run(t)
  <2>1. /\ runs[t] < MaxRuns /\ runs'[t] = runs[t] + 1
        /\ starting[t] \in Nat /\ starting'[t] = starting[t] + 1
        /\ UNCHANGED <<current, epc, etask, ltask, offering, hpc>>
    BY <1>1, <1>6 DEF TypeOK, Run
  <2>2. One(FALSE) = 0 /\ One(TRUE) = 1 /\ offering[t] \in Nat
    BY <1>1 DEF One, TypeOK
  <2>3. Places(t)' = Places(t) + 1
    BY <2>1, <2>2 DEF Places, OnCpu, One
  <2>4. QED
    BY <2>1, <2>3
<1>7. QED
  BY <1>2, <1>3, <1>4, <1>5, <1>6 DEF Client

(* A run that enters the select of runTask is in that place instead; a run  *)
(* that leaves is in none.                                                  *)
LEMMA PlacesRuns ==
  ASSUME Hold, TypeOK', NEW t \in Tasks, Runs
  PROVE  runs'[t] = runs[t] /\ Places(t)' <= Places(t)
<1> USE DEF Hold, IInv, manager, tasks, owner, goroutines, emulator, loop, queue
<1>1. t \in All /\ TypeOK
  OBVIOUS
<1>2. ASSUME NEW u \in All, RunRefused(u)
      PROVE  runs'[t] = runs[t] /\ Places(t)' <= Places(t)
  <2>1. runs'[t] = runs[t] /\ Stays(t)
    BY <1>1, <1>2 DEF TypeOK, RunRefused, Stays, AtHandler, AtEmulator, OnCpu
  <2>2. QED
    BY <1>1, <2>1, StaysPut
<1>3. ASSUME NEW r \in Runners, RunGivesUp(r)
      PROVE  runs'[t] = runs[t] /\ Places(t)' <= Places(t)
  <2>1. runs'[t] = runs[t] /\ Stays(t)
    BY <1>1, <1>3 DEF TypeOK, RunGivesUp, Stays, AtHandler, AtEmulator, OnCpu
  <2>2. QED
    BY <1>1, <2>1, StaysPut
<1>4. ASSUME NEW u \in All \ {t}, RunOffers(u)
      PROVE  runs'[t] = runs[t] /\ Places(t)' <= Places(t)
  <2>1. runs'[t] = runs[t] /\ Stays(t)
    BY <1>1, <1>4 DEF TypeOK, RunOffers, Stays, AtHandler, AtEmulator, OnCpu
  <2>2. QED
    BY <1>1, <2>1, StaysPut
<1>5. CASE RunOffers(t)
  <2>1. /\ starting[t] \in Nat /\ starting'[t] = starting[t] - 1
        /\ offering[t] \in Nat /\ offering'[t] = offering[t] + 1
        /\ UNCHANGED <<runs, current, epc, etask, ltask, hpc>>
    BY <1>1, <1>5 DEF TypeOK, RunOffers
  <2>2. Places(t)' = Places(t)
    BY <2>1 DEF Places, OnCpu, One
  <2>3. QED
    BY <2>1, <2>2, <1>1, PlacesAre DEF One
<1>6. QED
  BY <1>2, <1>3, <1>4, <1>5 DEF Runs

(* The loop takes a task out of the queue and passes it to the CPU.         *)
LEMMA PlacesLoop ==
  ASSUME Hold, ~closed, TypeOK', NEW t \in Tasks, Loop
  PROVE  runs'[t] = runs[t] /\ Places(t)' <= Places(t)
<1> USE DEF Hold, IInv, manager, tasks, owner, goroutines, emulator, loop, queue
<1>1. /\ t \in All /\ t # Main /\ t # Stale /\ t # None /\ TypeOK
      /\ \A r \in Runners : TaskOf(r) = t => r = t
  BY SchedulerAssumption DEF SchedulerAssumption, TaskOf
<1>2. CASE LoopExit \/ LoopClosed \/ SkipRestore \/ Restore \/ RestoreFails
  <2>1. runs' = runs /\ UNCHANGED <<epc, etask, starting, offering, hpc>>
        /\ ltask' \in {ltask, None} /\ (current' = current \/ lpc = "restore")
    BY <1>2 DEF LoopExit, LoopClosed, SkipRestore, Restore, RestoreFails
  <2>2. Stays(t)
    BY <1>1, <2>1 DEF TypeOK, Stays, AtHandler, AtEmulator, OnCpu, HandoffAgrees
  <2>3. QED
    BY <1>1, <2>1, <2>2, StaysPut
<1>3. ASSUME NEW r \in Runners, DispatchRun(r) \/ DispatchHandler(r), r # t
      PROVE  runs'[t] = runs[t] /\ Places(t)' <= Places(t)
  <2>1. runs'[t] = runs[t] /\ Stays(t)
    BY <1>1, <1>3 DEF TypeOK, DispatchRun, DispatchHandler, Stays, AtHandler, AtEmulator,
       OnCpu
  <2>2. QED
    BY <1>1, <2>1, StaysPut
<1>4. CASE DispatchRun(t)
  <2>1. /\ offering[t] \in Nat /\ offering'[t] = offering[t] - 1 /\ ltask' = t
        /\ UNCHANGED <<runs, starting, current, epc, etask, hpc>>
        /\ starting[t] \in Nat
    BY <1>1, <1>4 DEF TypeOK, DispatchRun, TaskOf
  <2>2. Places(t)' <= Places(t)
    BY <2>1 DEF Places, OnCpu, One
  <2>3. QED
    BY <2>1, <2>2
<1>5. CASE DispatchHandler(t)
  <2>1. /\ hpc[t] = "offer" /\ hpc'[t] = "recv" /\ ltask' = t
        /\ UNCHANGED <<runs, starting, offering, current, epc, etask>>
        /\ starting[t] \in Nat /\ offering[t] \in Nat
    BY <1>1, <1>5 DEF TypeOK, DispatchHandler, TaskOf
  <2>2. Places(t)' <= Places(t)
    BY <2>1 DEF Places, OnCpu, One
  <2>3. QED
    BY <2>1, <2>2
<1>6. CASE Resume
  <2>1. /\ epc = "parked" /\ epc' = "guest" /\ ltask' = None /\ ltask = current
        /\ UNCHANGED <<runs, starting, offering, current, etask, hpc>>
        /\ starting[t] \in Nat /\ offering[t] \in Nat
    BY <1>1, <1>6 DEF TypeOK, Resume, LoopHolds
  <2>2. Places(t)' <= Places(t)
    BY <1>1, <2>1 DEF Places, OnCpu, One
  <2>3. QED
    BY <2>1, <2>2
<1>7. ASSUME NEW u \in All, Dispatch(u)
      PROVE  runs'[t] = runs[t] /\ Places(t)' <= Places(t)
  BY <1>3, <1>4, <1>5, <1>7 DEF Dispatch
<1>8. QED
  BY <1>2, <1>6, <1>7 DEF Loop

(* A hook keeps the current task and passes it to its handler.              *)
LEMMA PlacesEmulator ==
  ASSUME Hold, TypeOK', NEW t \in Tasks, Emulator
  PROVE  runs'[t] = runs[t] /\ Places(t)' <= Places(t)
<1> USE DEF Hold, IInv, manager, tasks, owner, goroutines, emulator, loop, queue
<1>1. t \in All /\ t # None /\ TypeOK
  BY SchedulerAssumption DEF SchedulerAssumption
<1>2. CASE Deliver
  <2>1. CASE etask = t
    <3>1. /\ epc = "deliver" /\ epc' = "parked" /\ hpc[t] = "recv" /\ hpc'[t] = "fn"
          /\ UNCHANGED <<runs, starting, offering, current, ltask>>
          /\ starting[t] \in Nat /\ offering[t] \in Nat
      BY <1>1, <1>2, <2>1 DEF TypeOK, Deliver
    <3>2. Places(t)' <= Places(t)
      BY <2>1, <3>1 DEF Places, OnCpu, One
    <3>3. QED
      BY <3>1, <3>2
  <2>2. CASE etask # t
    <3>1. runs'[t] = runs[t] /\ Stays(t)
      BY <1>1, <1>2, <2>2 DEF TypeOK, Deliver, Stays, AtHandler, AtEmulator, OnCpu
    <3>2. QED
      BY <1>1, <3>1, StaysPut
  <2>3. QED
    BY <2>1, <2>2
<1>3. ASSUME ~Deliver
      PROVE  /\ UNCHANGED <<runs, starting, offering, ltask, hpc>>
             /\ AtEmulator(t)' => AtEmulator(t)
  <2>1. ASSUME NEW kind \in {"sync", "async"}, HookEnter(kind)
        PROVE  /\ UNCHANGED <<runs, starting, offering, ltask, hpc>>
               /\ AtEmulator(t)' => AtEmulator(t)
    BY <2>1 DEF HookEnter, AtEmulator, OnCpu
  <2>2. CASE MarkRunning \/ SaveContext \/ SaveFails
    BY <2>2 DEF MarkRunning, SaveContext, SaveFails, AtEmulator, OnCpu
  <2>3. CASE SyncCallback
    BY <2>3 DEF SyncCallback, SyncWrites, SyncCancels, SyncReturns, SyncPanics,
       AtEmulator, OnCpu
  <2>4. CASE Suspend \/ SuspendClosed
    BY <1>1, <2>4 DEF Suspend, SuspendClosed, AtEmulator, OnCpu, HooksHold
  <2>5. CASE DeliverDropped
    BY <2>5 DEF DeliverDropped, AtEmulator, OnCpu
  <2>6. CASE EmuReturns \/ ReleaseMain
    BY <2>6 DEF EmuReturns, ReleaseMain, AtEmulator, OnCpu
  <2>7. QED
    BY <1>3, <2>1, <2>2, <2>3, <2>4, <2>5, <2>6 DEF Emulator, EmuStops, EmuFails
<1>4. CASE ~Deliver
  <2>1. runs'[t] = runs[t] /\ Stays(t)
    BY <1>1, <1>3, <1>4 DEF TypeOK, Stays, AtHandler
  <2>2. QED
    BY <1>1, <2>1, StaysPut
<1>5. QED
  BY <1>2, <1>4

(* A handler that has a task keeps it until it lets go of it.               *)
LEMMA PlacesHandler ==
  ASSUME Hold, TypeOK', NEW t \in Tasks, BootClose \/ \E r \in Runners : Handler(r)
  PROVE  runs'[t] = runs[t] /\ Places(t)' <= Places(t)
<1> USE DEF Hold, IInv, manager, tasks, owner, goroutines, emulator, loop, queue
<1>1. t \in All /\ TypeOK
  OBVIOUS
<1>2. CASE BootClose
  <2>1. runs'[t] = runs[t] /\ Stays(t)
    BY <1>1, <1>2 DEF TypeOK, BootClose, Stays, AtHandler, AtEmulator, OnCpu
  <2>2. QED
    BY <1>1, <2>1, StaysPut
<1>3. ASSUME NEW r \in Runners, Handler(r)
      PROVE  runs'[t] = runs[t] /\ Places(t)' <= Places(t)
  <2>1. /\ UNCHANGED <<runs, starting, offering, ltask, epc, etask, current>>
        /\ AtHandler(t)' => AtHandler(t)
    <3>1. CASE HandlerExits(r) \/ CallbackWrites(r) \/ CallbackReturns(r)
      BY <1>1, <3>1 DEF TypeOK, HandlerExits, CallbackWrites, CallbackReturns, InCallback, AtHandler
    <3>2. CASE CallbackCancels(r) \/ CancelWrites(r) \/ CallbackPanics(r)
      BY <1>1, <3>2 DEF TypeOK, CallbackCancels, CancelWrites, CallbackPanics, InCallback, AtHandler
    <3>3. CASE Requeue(r) \/ RequeueRefused(r) \/ HandleReturns(r)
      BY <1>1, <3>3 DEF TypeOK, Requeue, RequeueRefused, HandleReturns, AtHandler
    <3>4. QED
      BY <1>3, <3>1, <3>2, <3>3 DEF Handler
  <2>2. Stays(t)
    BY <1>1, <2>1 DEF TypeOK, Stays, AtEmulator, OnCpu
  <2>3. QED
    BY <1>1, <2>1, <2>2, StaysPut
<1>4. QED
  BY <1>2, <1>3

(* Shutdown is for good.                                                    *)
LEMMA ClosedStays ==
  ASSUME [Next]_vars, closed
  PROVE  closed'
<1> USE DEF manager, tasks
<1>1. CASE Client \/ Runs \/ BootClose \/ (\E r \in Runners : Handler(r))
  BY <1>1, HoldFrame
<1>2. CASE Loop
  BY <1>2 DEF Loop, LoopExit, LoopClosed, SkipRestore, Restore, RestoreFails,
     Resume, Dispatch, DispatchRun, DispatchHandler
<1>3. CASE Emulator
  BY <1>3 DEF Emulator, SyncCallback, HookEnter, MarkRunning, SaveContext, SaveFails,
     SyncWrites, SyncCancels, SyncReturns, SyncPanics, Suspend, SuspendClosed,
     Deliver, DeliverDropped, EmuStops, EmuFails, EmuReturns, ReleaseMain
<1>4. CASE \E c \in Callers : Caller(c)
  BY <1>4 DEF Caller, CallMainThread, CallerClosed, ServeExec, ExecReturns,
     DirectReturns
<1>5. CASE UNCHANGED vars
  BY <1>5 DEF vars
<1>6. QED
  BY <1>1, <1>2, <1>3, <1>4, <1>5 DEF Next, Terminated

(* What is offered to mainThreadRun moves no task.                          *)
LEMMA PlacesCaller ==
  ASSUME Hold, TypeOK', NEW t \in Tasks,
         UNCHANGED vars \/ \E c \in Callers : Caller(c)
  PROVE  runs'[t] = runs[t] /\ Places(t)' <= Places(t)
<1> USE DEF Hold, IInv, manager, tasks, owner, goroutines, emulator, loop, queue
<1>1. runs' = runs /\ Stays(t)
  <2>1. /\ UNCHANGED <<runs, starting, offering, ltask, hpc, etask, current>>
        /\ epc' = epc \/ (epc \in {"parked", "exec"} /\ epc' \in {"parked", "exec"})
    BY DEF Caller, CallMainThread, CallerClosed, ServeExec, ExecReturns,
       DirectReturns, vars
  <2>2. starting[t] \in Nat /\ offering[t] \in Nat
    BY DEF TypeOK
  <2>3. QED
    BY <2>1, <2>2 DEF Stays, AtHandler, AtEmulator, OnCpu
<1>2. QED
  BY <1>1, StaysPut

(* No step brings a task to a place without a call of Run for it.           *)
LEMMA PlacesStep ==
  ASSUME Hold, PlacesCounted, [Next]_vars
  PROVE  PlacesCounted'
<1> SUFFICES ASSUME NEW t \in Tasks
             PROVE  runs'[t] <= MaxRuns /\ (~closed' => Places(t)' <= runs'[t])
  BY DEF PlacesCounted
<1>1. TypeOK /\ TypeOK'
  BY TypeStep DEF Hold, IInv
<1>2. /\ runs[t] \in Nat /\ runs'[t] \in Nat /\ MaxRuns \in Nat
      /\ Places(t) \in Nat /\ Places(t)' \in Nat
  BY <1>1, SchedulerAssumption DEF SchedulerAssumption, TypeOK, Places, One
<1>3. runs[t] <= MaxRuns /\ (~closed => Places(t) <= runs[t])
  BY DEF PlacesCounted
<1>4. ~closed' => ~closed
  BY ClosedStays
<1>5. CASE Client
  BY <1>1, <1>2, <1>3, <1>4, <1>5, PlacesClient
<1>6. CASE Loop
  <2>1. runs' = runs
    BY <1>6 DEF Loop, LoopExit, LoopClosed, SkipRestore, Restore, RestoreFails,
       Resume, Dispatch, DispatchRun, DispatchHandler, tasks, owner
  <2>2. ~closed => Places(t)' <= Places(t)
    BY <1>1, <1>6, PlacesLoop
  <2>3. QED
    BY <1>2, <1>3, <1>4, <2>1, <2>2
<1>7. CASE ~Client /\ ~Loop
  <2>1. runs'[t] = runs[t] /\ Places(t)' <= Places(t)
    BY <1>1, <1>7, PlacesRuns, PlacesEmulator, PlacesHandler, PlacesCaller
       DEF Next, Terminated
  <2>2. QED
    BY <1>2, <1>3, <1>4, <2>1
<1>8. QED
  BY <1>5, <1>6, <1>7

(* At the start no task has been created, so none is anywhere.              *)
LEMMA PlacesInit ==
  ASSUME Init
  PROVE  Hold /\ PlacesCounted
<1>1. Hold
  BY IInvInit DEF Hold, HooksHold, LoopHolds, Init
<1>2. ASSUME NEW t \in Tasks PROVE runs[t] <= MaxRuns /\ Places(t) <= runs[t]
  <2>1. Places(t) = 0 /\ runs[t] = 0 /\ MaxRuns \in Nat
    BY SchedulerAssumption DEF SchedulerAssumption, Init, Places, One, OnCpu
  <2>2. QED
    BY <2>1
<1>3. QED
  BY <1>1, <1>2 DEF PlacesCounted

(* A task of an owner who calls Run once is in one place at a time until    *)
(* shutdown: queued by Run or by its handler, with the handler, taken by    *)
(* the loop, or on the CPU.  The handoffs over dispatch, resume and async   *)
(* pass it on and never copy it.                                            *)
THEOREM OnePlaceAlways ==
  ASSUME MaxRuns <= 1
  PROVE  Spec => []OnePlace
<1>1. Hold /\ PlacesCounted => OnePlace
  <2>1. ASSUME Hold, PlacesCounted, NEW t \in Tasks, ~closed PROVE Places(t) <= 1
    <3>1. TypeOK
      BY <2>1 DEF Hold, IInv
    <3>2. Places(t) \in Nat /\ runs[t] \in Nat /\ MaxRuns \in Nat
      BY <3>1, SchedulerAssumption DEF SchedulerAssumption, TypeOK, Places, One
    <3>3. QED
      BY <2>1, <3>2 DEF PlacesCounted
  <2>2. QED
    BY <2>1 DEF OnePlace
<1>2. QED
  BY <1>1, PlacesInit, HoldStep, PlacesStep, PTL DEF Spec

-----------------------------------------------------------------------------
(* What was written to the registers of a task                              *)

(* Steps that write to no task's registers and revive none                  *)
LEMMA AppliedFrame ==
  ASSUME Applied, UNCHANGED <<epc, lpc, ltask, current>>, closed => closed',
         \A t \in Tasks : (Live(t)' => Live(t)) /\ (change'[t] => change[t])
  PROVE  Applied'
BY DEF Applied, OnCpu

(* A callback has its task for itself: nobody resumes it in the meantime.   *)
LEMMA AppliedWrites ==
  ASSUME MaxRuns <= 1, Hold, PlacesCounted, Applied,
         NEW r \in Runners, CallbackWrites(r)
  PROVE  Applied'
<1> USE DEF Hold, IInv, manager, life, goroutines, emulator, loop
<1>1. UNCHANGED <<epc, lpc, ltask, current, closed, status>>
  BY DEF CallbackWrites
<1>2. CASE r \notin Tasks
  <2>1. \A t \in Tasks : change'[t] = change[t]
    BY <1>2, SchedulerAssumption DEF SchedulerAssumption, TypeOK, CallbackWrites, TaskOf
  <2>2. QED
    BY <1>1, <2>1, AppliedFrame DEF Live
<1>3. CASE r \in Tasks /\ ~closed
  <2>1. Places(r) <= 1
    <3>1. Places(r) \in Nat /\ runs[r] \in Nat /\ MaxRuns \in Nat
      BY <1>3, SchedulerAssumption DEF SchedulerAssumption, TypeOK, Places, One
    <3>2. QED
      BY <1>3, <3>1 DEF PlacesCounted
  <2>2. AtHandler(r)
    BY DEF CallbackWrites, InCallback, AtHandler
  <2>3. ltask # r /\ ~(OnCpu /\ current = r)
    <3>1. /\ starting[r] \in Nat /\ offering[r] \in Nat
          /\ Places(r) = starting[r] + offering[r] + One(ltask = r)
                           + One(AtHandler(r)) + One(AtEmulator(r))
      BY <1>3, PlacesAre
    <3>2. QED
      BY <2>1, <2>2, <3>1 DEF One, AtEmulator
  <2>4. \A t \in Tasks : t # r => change'[t] = change[t]
    BY <1>3, SchedulerAssumption DEF SchedulerAssumption, TypeOK, CallbackWrites, TaskOf
  <2>5. QED
    BY <1>1, <2>3, <2>4 DEF Applied, OnCpu, Live
<1>4. QED
  BY <1>1, <1>2, <1>3 DEF Applied

(* The API, the runs and the handlers outside of callbacks write to no      *)
(* task's registers, but for the reset of the main task.                    *)
LEMMA AppliedOutside ==
  ASSUME Hold, Applied,
         Client \/ Runs \/ BootClose \/ (\E r \in Runners : Handler(r)),
         \A r \in Runners : ~CallbackWrites(r)
  PROVE  Applied'
<1> USE DEF Hold, IInv, regs, tasks
<1>1. UNCHANGED <<epc, lpc, ltask, current>> /\ (closed => closed')
  BY HoldFrame
<1>2. \A t \in Tasks : Live(t)' => Live(t)
  <2>1. ResetMain => status' = status
    BY DEF ResetMain
  <2>2. QED
    BY <2>1, QuietClient, QuietRuns, QuietHandler DEF Quiet, Live
<1>3. \A t \in Tasks : change'[t] => change[t]
  <2>1. CASE ResetMain
    BY <2>1, SchedulerAssumption DEF SchedulerAssumption, ResetMain, TypeOK
  <2>2. CASE ~ResetMain
    <3>1. change' = change
      <4>1. CASE Client
        BY <2>2, <4>1 DEF Client, GetMainTask, Shutdown, CreateTask, Run, CloseTask,
           CancelTask, Deadline
      <4>2. CASE Runs \/ BootClose
        BY <4>2 DEF Runs, RunRefused, RunOffers, RunGivesUp, BootClose
      <4>3. ASSUME NEW r \in Runners, Handler(r) PROVE change' = change
        BY <4>3 DEF Handler, HandlerExits, CallbackReturns, CallbackCancels,
           CancelWrites, CallbackPanics, Requeue, RequeueRefused, HandleReturns
      <4>4. QED
        BY <4>1, <4>2, <4>3
    <3>2. QED
      BY <3>1
  <2>3. QED
    BY <2>1, <2>2
<1>4. QED
  BY <1>1, <1>2, <1>3, AppliedFrame

(* The loop restores what was written before it resumes the emulator.       *)
LEMMA AppliedLoop ==
  ASSUME Hold, Applied, Loop
  PROVE  Applied'
<1> USE DEF Hold, IInv, HandoffAgrees, LoopHolds, Applied, OnCpu, manager, life, regs,
        tasks, goroutines, emulator, loop, Live
<1>1. CASE LoopExit \/ LoopClosed
  BY <1>1 DEF LoopExit, LoopClosed
<1>2. CASE SkipRestore
  BY <1>2 DEF SkipRestore, NeedsRestore
<1>3. CASE Restore
  BY <1>3 DEF Restore, Loads, TypeOK
<1>4. CASE RestoreFails
  BY <1>4 DEF RestoreFails
<1>5. CASE Resume
  BY <1>5 DEF Resume
<1>6. ASSUME NEW t \in All, Dispatch(t) PROVE Applied'
  BY <1>6 DEF Dispatch, DispatchRun, DispatchHandler
<1>7. QED
  BY <1>1, <1>2, <1>3, <1>4, <1>5, <1>6 DEF Loop

(* A synchronous hook restores what its callback wrote before the guest     *)
(* goes on.                                                                 *)
LEMMA AppliedEmulator ==
  ASSUME Hold, Applied, Emulator
  PROVE  Applied'
<1> USE DEF Hold, IInv, Registers, HookWorksForCurrent, Applied, OnCpu, manager, life,
        regs, tasks, goroutines, emulator, loop
<1>1. ASSUME NEW kind \in {"sync", "async"}, HookEnter(kind) PROVE Applied'
  BY <1>1 DEF HookEnter, Live
<1>2. CASE MarkRunning
  BY <1>2 DEF MarkRunning
<1>3. CASE SaveContext
  BY <1>3 DEF SaveContext, Live
<1>4. CASE SaveFails
  <2>1. etask \in All /\ etask = current /\ Cancelled(etask)
    BY <1>4 DEF SaveFails, TypeOK
  <2>2. \A t \in Tasks : Live(t)' => Live(t) /\ t # etask
    BY <2>1, CancelIsQuiet
  <2>3. QED
    BY <1>4, <2>1, <2>2 DEF SaveFails
<1>5. CASE SyncWrites
  BY <1>5 DEF SyncWrites, HandoffAgrees
<1>6. CASE SyncCancels \/ SyncPanics
  <2>1. etask \in All /\ etask = current /\ Cancelled(etask) /\ epc = "sync"
    BY <1>6 DEF SyncCancels, SyncPanics, TypeOK
  <2>2. \A t \in Tasks : Live(t)' => Live(t) /\ t # etask
    BY <2>1, CancelIsQuiet
  <2>3. QED
    BY <1>6, <2>1, <2>2 DEF SyncCancels, SyncPanics
<1>7. CASE SyncReturns
  <2>1. /\ epc = "sync" /\ etask \in All /\ etask = current
        /\ UNCHANGED <<current, lpc, ltask, closed>>
        /\ lpc # "resume" /\ epc' # "mark"
    BY <1>7 DEF SyncReturns, TypeOK, HandoffAgrees
  <2>2. \/ UNCHANGED <<status, change>> /\ (~Live(etask) \/ ~change[etask])
        \/ change'[etask] = FALSE
    BY <1>7, <2>1 DEF SyncReturns, Loads, FailsToLoad, TypeOK
  <2>3. QED
    BY <2>1, <2>2 DEF Live
<1>8. CASE Suspend \/ SuspendClosed \/ Deliver \/ DeliverDropped
  BY <1>8 DEF Suspend, SuspendClosed, Deliver, DeliverDropped, Live
<1>9. CASE EmuReturns \/ ReleaseMain
  BY <1>9 DEF EmuReturns, ReleaseMain, HandoffAgrees
<1>10. QED
  BY <1>1, <1>2, <1>3, <1>4, <1>5, <1>6, <1>7, <1>8, <1>9
     DEF Emulator, SyncCallback, EmuStops, EmuFails

(* Every step keeps what was written restored.                              *)
LEMMA AppliedStep ==
  ASSUME MaxRuns <= 1, Hold, PlacesCounted, Applied, [Next]_vars
  PROVE  Applied'
<1>1. CASE \E r \in Runners : CallbackWrites(r)
  BY <1>1, AppliedWrites
<1>2. CASE /\ Client \/ Runs \/ BootClose \/ (\E r \in Runners : Handler(r))
           /\ \A r \in Runners : ~CallbackWrites(r)
  BY <1>2, AppliedOutside
<1>3. CASE Loop \/ Emulator
  BY <1>3, AppliedLoop, AppliedEmulator
<1>4. CASE \E c \in Callers : Caller(c)
  BY <1>4 DEF Caller, CallMainThread, CallerClosed, ServeExec, ExecReturns,
     DirectReturns, Applied, OnCpu, Live, manager, tasks, life, regs, emulator, loop
<1>5. CASE UNCHANGED vars
  BY <1>5 DEF vars, Applied, OnCpu, Live, manager, tasks, life, regs, goroutines,
     emulator, loop
<1>6. QED
  BY <1>1, <1>2, <1>3, <1>4, <1>5 DEF Next, Terminated

(* What an asynchronous callback writes to the registers of a task (of an   *)
(* owner who calls Run once) is in the CPU before the guest goes on as the  *)
(* task, whichever way the loop comes to it: it is queued again after its   *)
(* callback only, and the loop looks at isChange after it has taken it.     *)
THEOREM RegisterWritesAppliedAlways ==
  ASSUME MaxRuns <= 1
  PROVE  Spec => []RegisterWritesApplied
<1>1. Init => Applied
  BY SchedulerAssumption DEF SchedulerAssumption, Init, Applied, OnCpu
<1>2. Applied => RegisterWritesApplied
  BY DEF Applied, RegisterWritesApplied
<1>3. QED
  BY <1>1, <1>2, PlacesInit, HoldStep, PlacesStep, AppliedStep, PTL DEF Spec

-----------------------------------------------------------------------------
(* The status of a task                                                     *)

(* Owners who wait for the end of a task before they close it, run it once  *)
(* and end no context, and a debugger that is not closed under them         *)
PatientOwners ==
  MaxRuns <= 1 /\ Env \cap {"cancel", "deadline", "earlyClose", "shutdown"} = {}

(* updateStatus has compared the status and is about to write it: Done by   *)
(* the handler, Running by the first hook.                                  *)
Late(t) == hpc[t] = "cancel" \/ (epc = "mark" /\ etask = t)

(* What it has compared still holds, and a context ends with its task.      *)
Settled ==
  /\ ~closed
  /\ \A t \in Tasks : (done[t] => ~Live(t)) /\ (Late(t) => Live(t))

(* Whoever is about to write the status is the only one that has the task.  *)
Alone(t) ==
  Late(t) => /\ starting[t] = 0 /\ ltask # t
             /\ hpc[t] = "cancel" => ~(OnCpu /\ current = t)
             /\ epc = "mark" /\ etask = t => ~AtHandler(t)

Advances(t) ==
  /\ status'[t] >= status[t]
  /\ done'[t] => ~Live(t)'
  /\ Late(t)' => Live(t)'

(* Nothing else closes the debugger.                                        *)
LEMMA OnlyShutdownCloses ==
  ASSUME [Next]_vars, "shutdown" \notin Env, ~closed
  PROVE  ~closed'
<1> USE DEF manager, tasks, goroutines
<1>1. CASE Client
  BY <1>1 DEF Client, GetMainTask, ResetMain, Shutdown, CreateTask, Run, CloseTask,
         CancelTask, Deadline
<1>2. CASE Runs
  BY <1>2 DEF Runs, RunRefused, RunOffers, RunGivesUp
<1>3. CASE BootClose \/ \E r \in Runners : Handler(r)
  BY <1>3 DEF BootClose, Handler, HandlerExits, CallbackWrites, CallbackReturns,
     CallbackCancels, CancelWrites, CallbackPanics, Requeue, RequeueRefused,
     HandleReturns
<1>4. CASE Loop
  BY <1>4 DEF Loop, LoopExit, LoopClosed, SkipRestore, Restore, RestoreFails,
     Resume, Dispatch, DispatchRun, DispatchHandler
<1>5. CASE Emulator
  BY <1>5 DEF Emulator, SyncCallback, HookEnter, MarkRunning, SaveContext, SaveFails,
     SyncWrites, SyncCancels, SyncReturns, SyncPanics, Suspend, SuspendClosed,
     Deliver, DeliverDropped, EmuStops, EmuFails, EmuReturns, ReleaseMain
<1>6. CASE \E c \in Callers : Caller(c)
  BY <1>6 DEF Caller, CallMainThread, CallerClosed, ServeExec, ExecReturns,
     DirectReturns
<1>7. CASE UNCHANGED vars
  BY <1>7 DEF vars
<1>8. QED
  BY <1>1, <1>2, <1>3, <1>4, <1>5, <1>6, <1>7 DEF Next, Terminated

(* A goroutine that has a task has it alone.                                *)
LEMMA LateIsAlone ==
  ASSUME PatientOwners, Hold, PlacesCounted, Settled, NEW t \in Tasks
  PROVE  Alone(t)
<1>1. TypeOK /\ HookWorksForCurrent
  BY DEF Hold, IInv, Registers
<1>2. PICK p \in Nat, q \in Nat, a \in Nat, b \in Nat, c \in Nat :
        /\ p = starting[t] /\ q = offering[t]
        /\ a = One(ltask = t) /\ b = One(AtHandler(t)) /\ c = One(AtEmulator(t))
        /\ Places(t) = p + q + a + b + c
  BY <1>1, PlacesAre DEF One
<1>3. p + q + a + b + c <= 1
  <2>1. Places(t) <= runs[t] /\ runs[t] <= MaxRuns /\ MaxRuns <= 1
    BY DEF PlacesCounted, Settled, PatientOwners
  <2>2. runs[t] \in Nat /\ MaxRuns \in Nat
    BY <1>1, SchedulerAssumption DEF SchedulerAssumption, TypeOK
  <2>3. QED
    BY <1>2, <2>1, <2>2
<1>4. /\ b = 1 \/ c = 1 => p = 0 /\ a = 0
      /\ ~(b = 1 /\ c = 1)
  BY <1>3
<1>5. /\ AtHandler(t) <=> b = 1
      /\ AtEmulator(t) <=> c = 1
      /\ ltask = t <=> a = 1
  BY <1>2 DEF One
<1>6. hpc[t] = "cancel" => AtHandler(t)
  BY DEF AtHandler
<1>7. /\ OnCpu /\ current = t => AtEmulator(t)
      /\ epc = "mark" /\ etask = t => AtEmulator(t)
  BY <1>1 DEF AtEmulator, OnCpu, HookWorksForCurrent
<1>8. QED
  BY <1>2, <1>4, <1>5, <1>6, <1>7 DEF Alone, Late

(* A step that leaves t's status, context and writers alone.                *)
LEMMA AdvancesFrame ==
  ASSUME TypeOK, Settled, NEW t \in Tasks,
         status'[t] = status[t], done'[t] = done[t], Late(t)' => Late(t)
  PROVE  Advances(t)
<1>1. status[t] \in Nat
  BY DEF TypeOK
<1>2. QED
  BY <1>1 DEF Settled, Advances, Live

(* CancelCause takes t off the unfinished ones when no one else has it.     *)
LEMMA AdvancesCancel ==
  ASSUME TypeOK, Settled, NEW t \in Tasks, NEW u \in All, Cancelled(u),
         Late(t)' => Late(t) /\ u # t
  PROVE  Advances(t)
<1>1. t \in All /\ status[t] \in 0 .. 3 /\ status \in [All -> 0 .. 3] /\ done \in [All -> BOOLEAN]
  BY DEF TypeOK
<1>2. CASE u = t
  BY <1>1, <1>2 DEF Cancelled, Advances, Live
<1>3. CASE u # t
  <2>1. status'[t] = status[t] /\ done'[t] = done[t]
    BY <1>1, <1>3 DEF Cancelled
  <2>2. QED
    BY <2>1, AdvancesFrame
<1>4. QED
  BY <1>2, <1>3

LEMMA AdvancesClient ==
  ASSUME PatientOwners, TypeOK, Settled, NEW t \in Tasks, Alone(t), Client
  PROVE  Advances(t)
<1> USE DEF manager, tasks, owner, life, goroutines, emulator
<1>1. t \in All /\ t # Main /\ status[t] \in 0 .. 3 /\ ~closed
  BY SchedulerAssumption DEF SchedulerAssumption, TypeOK, Settled
<1>2. CASE GetMainTask
  BY <1>1, <1>2, AdvancesFrame DEF GetMainTask, TypeOK, Late
<1>3. CASE ResetMain
  <2>1. status'[t] = status[t] /\ done'[t] = done[t] /\ (Late(t)' => Late(t)) /\ closed' = closed
    BY <1>1, <1>3, SchedulerAssumption DEF SchedulerAssumption, ResetMain, TypeOK, Late
  <2>2. QED
    BY <1>1, <2>1, AdvancesFrame
<1>4. ASSUME NEW u \in All, CreateTask(u) \/ Run(u)
      PROVE  Advances(t)
  BY <1>1, <1>4, AdvancesFrame DEF CreateTask, Run, TypeOK, Late
<1>5. ASSUME NEW u \in All, CloseTask(u)
      PROVE  Advances(t)
  <2>1. /\ done[u] /\ closed' = closed
        /\ status' = [status EXCEPT ![u] = 3] /\ done' = [done EXCEPT ![u] = TRUE]
        /\ UNCHANGED <<epc, etask, hpc>>
    BY <1>1, <1>5 DEF CloseTask, PatientOwners
  <2>2. CASE u = t
    BY <1>1, <2>1, <2>2 DEF TypeOK, Settled, Advances, Live, Late
  <2>3. CASE u # t
    BY <1>1, <2>1, <2>3, AdvancesFrame DEF TypeOK, Late
  <2>4. QED
    BY <2>2, <2>3
<1>6. QED
  BY <1>2, <1>3, <1>4, <1>5 DEF Client, Shutdown, CancelTask, Deadline, PatientOwners

LEMMA AdvancesRuns ==
  ASSUME TypeOK, Settled, NEW t \in Tasks, Alone(t), Runs
  PROVE  Advances(t)
<1> USE DEF manager, tasks, owner, life, goroutines, emulator
<1>1. ~closed
  BY DEF Settled
<1>2. ASSUME NEW u \in All, RunRefused(u)
      PROVE  Advances(t)
  <2>1. Cancelled(u) /\ starting[u] > 0 /\ UNCHANGED <<closed, epc, etask, hpc>>
    BY <1>2 DEF RunRefused
  <2>2. Late(t)' => Late(t) /\ u # t
    BY <2>1 DEF Late, Alone
  <2>3. QED
    BY <1>1, <2>1, <2>2, AdvancesCancel
<1>3. ASSUME NEW u \in Runners, RunGivesUp(u) \/ (u \in All /\ RunOffers(u))
      PROVE  Advances(t)
  BY <1>1, <1>3, AdvancesFrame DEF RunGivesUp, RunOffers, Late
<1>4. QED
  BY <1>2, <1>3 DEF Runs

LEMMA AdvancesLoop ==
  ASSUME TypeOK, HandoffAgrees, Settled, NEW t \in Tasks, Alone(t), Loop
  PROVE  Advances(t)
<1> USE DEF manager, tasks, owner, life, goroutines, emulator
<1>1. ~closed
  BY DEF Settled
<1>2. CASE RestoreFails
  <2>1. /\ Cancelled(ltask) /\ ltask \in All /\ lpc = "restore"
        /\ UNCHANGED <<closed, epc, etask, hpc>>
    BY <1>2 DEF RestoreFails, FailsToLoad, TypeOK
  <2>2. Late(t)' => Late(t) /\ ltask # t
    BY <2>1 DEF Late, Alone
  <2>3. QED
    BY <1>1, <2>1, <2>2, AdvancesCancel
<1>3. CASE LoopClosed \/ LoopExit \/ SkipRestore \/ Restore
  BY <1>1, <1>3, AdvancesFrame DEF LoopClosed, LoopExit, SkipRestore, Restore, Late
<1>4. CASE Resume
  BY <1>1, <1>4, AdvancesFrame DEF Resume, Late
<1>5. ASSUME NEW r \in Runners, DispatchRun(r) \/ DispatchHandler(r)
      PROVE  Advances(t)
  <2>1. Late(t)' => Late(t)
    BY <1>5 DEF DispatchRun, DispatchHandler, TypeOK, Late
  <2>2. QED
    BY <1>1, <1>5, <2>1, AdvancesFrame DEF DispatchRun, DispatchHandler
<1>6. QED
  BY <1>2, <1>3, <1>4, <1>5 DEF Loop, Dispatch

LEMMA AdvancesEmulator ==
  ASSUME TypeOK, HookWorksForCurrent, Settled, NEW t \in Tasks, Alone(t), Emulator
  PROVE  Advances(t)
<1> USE DEF manager, tasks, owner, life, goroutines, emulator
<1>1. /\ t \in All /\ t # Main /\ status \in [All -> 0 .. 3] /\ ~closed
  BY SchedulerAssumption DEF SchedulerAssumption, TypeOK, Settled
<1>2. ASSUME NEW kind \in {"sync", "async"}, HookEnter(kind)
      PROVE  Advances(t)
  <2>1. /\ UNCHANGED <<closed, status, done, hpc>>
        /\ epc' = "mark" => Live(current) /\ etask' = current
    BY <1>2 DEF HookEnter
  <2>2. QED
    BY <1>1, <2>1 DEF Settled, Advances, Late, Live
<1>3. CASE MarkRunning
  <2>1. /\ epc = "mark" /\ etask \in All /\ status' = [status EXCEPT ![etask] = 1]
        /\ UNCHANGED <<closed, done, hpc, etask>> /\ epc' = "save"
    BY <1>3 DEF MarkRunning, TypeOK
  <2>2. CASE etask = t
    <3>1. Live(t) /\ ~done[t] /\ ~Late(t)'
      BY <2>1, <2>2 DEF Settled, Late, Alone, AtHandler
    <3>2. status[t] \in {0, 1} /\ status'[t] = 1 /\ ~done'[t]
      BY <1>1, <2>1, <2>2, <3>1 DEF Live
    <3>3. QED
      BY <1>1, <2>1, <3>1, <3>2 DEF Advances
  <2>3. CASE etask # t
    <3>1. status'[t] = status[t] /\ done'[t] = done[t] /\ (Late(t)' => Late(t))
      BY <1>1, <2>1, <2>3 DEF Late
    <3>2. QED
      BY <1>1, <2>1, <3>1, AdvancesFrame
  <2>4. QED
    BY <2>2, <2>3
<1>4. CASE SaveContext \/ SyncWrites \/ Suspend \/ SuspendClosed \/ DeliverDropped
  BY <1>1, <1>4, AdvancesFrame
     DEF SaveContext, SyncWrites, Suspend, SuspendClosed, DeliverDropped, Late
<1>5. CASE Deliver
  <2>1. Late(t)' => Late(t)
    BY <1>5 DEF Deliver, TypeOK, Late
  <2>2. QED
    BY <1>1, <1>5, <2>1, AdvancesFrame DEF Deliver
<1>6. CASE SaveFails \/ SyncCancels \/ SyncPanics
  <2>1. /\ Cancelled(etask) /\ etask \in All /\ etask = current /\ epc \in {"save", "sync"}
        /\ closed' = closed /\ hpc' = hpc /\ epc' # "mark"
    BY <1>6 DEF SaveFails, SyncCancels, SyncPanics, TypeOK, HookWorksForCurrent
  <2>2. Late(t)' => Late(t) /\ etask # t
    BY <2>1 DEF Late, Alone, OnCpu
  <2>3. QED
    BY <1>1, <2>1, <2>2, AdvancesCancel
<1>7. CASE SyncReturns
  <2>1. /\ \/ Cancelled(etask)
           \/ UNCHANGED <<status, done>>
        /\ etask \in All /\ etask = current /\ epc = "sync"
        /\ closed' = closed /\ hpc' = hpc /\ epc' # "mark"
    BY <1>7 DEF SyncReturns, FailsToLoad, TypeOK, HookWorksForCurrent
  <2>2. Late(t)' => Late(t) /\ etask # t
    BY <2>1 DEF Late, Alone, OnCpu
  <2>3. QED
    BY <1>1, <2>1, <2>2, AdvancesCancel, AdvancesFrame
<1>8. CASE EmuReturns
  <2>1. /\ Cancelled(current) /\ current \in All /\ epc = "guest" /\ epc' = "exiting"
        /\ closed' = closed /\ hpc' = hpc
    BY <1>8 DEF EmuReturns, TypeOK
  <2>2. Late(t)' => Late(t) /\ current # t
    BY <2>1 DEF Late, Alone, OnCpu
  <2>3. QED
    BY <1>1, <2>1, <2>2, AdvancesCancel
<1>9. CASE ReleaseMain
  BY <1>1, <1>9, AdvancesFrame DEF ReleaseMain, TypeOK, Late
<1>10. QED
  BY <1>2, <1>3, <1>4, <1>5, <1>6, <1>7, <1>8, <1>9
     DEF Emulator, SyncCallback, EmuStops, EmuFails

LEMMA AdvancesHandler ==
  ASSUME TypeOK, Settled, NEW t \in Tasks, Alone(t),
         BootClose \/ \E r \in Runners : Handler(r)
  PROVE  Advances(t)
<1> USE DEF manager, tasks, owner, life, goroutines, emulator
<1>1. /\ t \in All /\ t # Main /\ t # Stale /\ status \in [All -> 0 .. 3]
      /\ done \in [All -> BOOLEAN] /\ ~closed /\ t \in Runners
  BY SchedulerAssumption DEF SchedulerAssumption, TypeOK, Settled
<1>2. CASE BootClose
  BY <1>1, <1>2, AdvancesFrame DEF BootClose, TypeOK, Late
<1>3. ASSUME NEW r \in Runners, Handler(r)
      PROVE  Advances(t)
  <2>1. TaskOf(r) \in All /\ (TaskOf(r) = t <=> r = t)
    BY <1>1, SchedulerAssumption DEF TaskOf, SchedulerAssumption
  <2>2. CASE \/ HandlerExits(r) \/ CallbackWrites(r) \/ CallbackReturns(r)
             \/ Requeue(r) \/ HandleReturns(r)
    <3>1. /\ UNCHANGED <<closed, status, done, epc, etask>>
          /\ hpc'[t] = "cancel" => hpc[t] = "cancel"
      BY <1>1, <2>2 DEF HandlerExits, CallbackWrites, CallbackReturns, Requeue,
         HandleReturns, TypeOK
    <3>2. QED
      BY <1>1, <3>1, AdvancesFrame DEF Late
  <2>3. CASE CallbackPanics(r) \/ RequeueRefused(r)
    <3>1. /\ Cancelled(TaskOf(r)) /\ UNCHANGED <<closed, epc, etask>>
          /\ hpc[r] \in {"fn", "check"} /\ hpc' = [hpc EXCEPT ![r] = "recv"]
      BY <2>3 DEF CallbackPanics, RequeueRefused, InCallback
    <3>2. Late(t)' => Late(t) /\ TaskOf(r) # t
      BY <1>1, <2>1, <3>1 DEF Late, Alone, AtHandler, TypeOK
    <3>3. QED
      BY <1>1, <2>1, <3>1, <3>2, AdvancesCancel
  <2>4. CASE CallbackCancels(r)
    <3>1. /\ UNCHANGED <<closed, status, epc, etask>> /\ hpc[r] = "fn"
          /\ \/ Live(TaskOf(r)) /\ hpc' = [hpc EXCEPT ![r] = "cancel"] /\ done' = done
             \/ /\ ~Live(TaskOf(r)) /\ hpc' = [hpc EXCEPT ![r] = "check"]
                /\ done' = [done EXCEPT ![TaskOf(r)] = TRUE]
      BY <2>4 DEF CallbackCancels, InCallback
    <3>2. CASE r = t
      BY <1>1, <2>1, <3>1, <3>2 DEF Advances, Settled, Late, Live, TypeOK
    <3>3. CASE r # t
      BY <1>1, <2>1, <3>1, <3>3, AdvancesFrame DEF Late, TypeOK
    <3>4. QED
      BY <3>2, <3>3
  <2>5. CASE CancelWrites(r)
    <3>1. /\ hpc[r] = "cancel" /\ hpc' = [hpc EXCEPT ![r] = "check"]
          /\ status' = [status EXCEPT ![TaskOf(r)] = 2]
          /\ done' = [done EXCEPT ![TaskOf(r)] = TRUE]
          /\ UNCHANGED <<closed, epc, etask>>
      BY <2>5 DEF CancelWrites
    <3>2. CASE r = t
      <4>1. Live(t) /\ ~(epc = "mark" /\ etask = t)
        BY <3>1, <3>2 DEF Settled, Late, Alone, AtHandler
      <4>2. ~Late(t)' /\ status'[t] = 2 /\ status[t] \in 0 .. 3 /\ status[t] < 2
        BY <1>1, <2>1, <3>1, <3>2, <4>1 DEF Late, Live, TypeOK
      <4>3. QED
        BY <1>1, <3>1, <4>2 DEF Advances, Live
    <3>3. CASE r # t
      BY <1>1, <2>1, <3>1, <3>3, AdvancesFrame DEF Late, TypeOK
    <3>4. QED
      BY <3>2, <3>3
  <2>6. QED
    BY <1>3, <2>2, <2>3, <2>4, <2>5 DEF Handler
<1>4. QED
  BY <1>2, <1>3

LEMMA AdvancesStep ==
  ASSUME PatientOwners, Hold, PlacesCounted, Settled, [Next]_vars, NEW t \in Tasks
  PROVE  Advances(t)
<1>1. TypeOK /\ HandoffAgrees /\ HookWorksForCurrent /\ Alone(t) /\ ~closed
  BY LateIsAlone DEF Hold, IInv, Registers, Settled
<1>2. CASE Client
  BY <1>1, <1>2, AdvancesClient
<1>3. CASE Runs
  BY <1>1, <1>3, AdvancesRuns
<1>4. CASE Loop
  BY <1>1, <1>4, AdvancesLoop
<1>5. CASE Emulator
  BY <1>1, <1>5, AdvancesEmulator
<1>6. CASE BootClose \/ \E r \in Runners : Handler(r)
  BY <1>1, <1>6, AdvancesHandler
<1>7. CASE \E c \in Callers : Caller(c)
  BY <1>1, <1>7, AdvancesFrame
     DEF Caller, CallMainThread, CallerClosed, ServeExec, ExecReturns, DirectReturns,
         manager, tasks, life, emulator, Late
<1>8. CASE UNCHANGED vars
  BY <1>1, <1>8, AdvancesFrame DEF vars, manager, tasks, life, goroutines, emulator, Late
<1>9. QED
  BY <1>2, <1>3, <1>4, <1>5, <1>6, <1>7, <1>8 DEF Next, Terminated

LEMMA SettledStep ==
  ASSUME PatientOwners, Hold, PlacesCounted, Settled, [Next]_vars
  PROVE  Settled' /\ \A t \in Tasks : status'[t] >= status[t]
<1>1. \A t \in Tasks : Advances(t)
  BY AdvancesStep
<1>2. ~closed'
  BY OnlyShutdownCloses DEF PatientOwners, Settled
<1>3. QED
  BY <1>1, <1>2 DEF Settled, Advances

(* A closed task stays closed, and no late write of updateStatus, which     *)
(* compares and writes in two steps, brings a finished one back: for owners *)
(* that call Run once, wait for the end of a task and then close it.        *)
THEOREM StatusAdvances ==
  ASSUME PatientOwners
  PROVE  Spec => StatusOnlyAdvances
<1>1. Init => Settled
  BY DEF Init, Settled, Late, Live
<1>2. Hold /\ PlacesCounted /\ Settled /\ [Next]_vars
        => Hold' /\ PlacesCounted' /\ Settled'
  BY HoldStep, PlacesStep, SettledStep
<1>3. Hold /\ PlacesCounted /\ Settled /\ [Next]_vars
        => [\A t \in Tasks : status'[t] >= status[t]]_vars
  BY SettledStep
<1>4. QED
  BY <1>1, <1>2, <1>3, PlacesInit, PTL DEF Spec, StatusOnlyAdvances

-----------------------------------------------------------------------------
(***************************************************************************)
(* The scheduler implements CpuTurns: a proof of TurnsSpec.                *)
(***************************************************************************)

(* The loop has a task from dispatch to resume, the current one in the end, *)
(* or none if it left the select because the debugger is closed.            *)
LoopTask ==
  /\ lpc \in {"top", "wait", "gone"} => ltask = None
  /\ lpc = "resume" => ltask = current \/ (closed /\ ltask = None)

(* A task that has not been created has no handler.                         *)
FreshTasks == \A t \in All : phase[t] = "none" => hpc[t] = "gone"

TInv == IInv /\ LoopTask /\ FreshTasks

(* The refinement mapping *)
Turn == IF OnCpu THEN current ELSE None
Asked == [t \in All |-> Requests(t)]

(* The steps of CpuTurns, as they show in the requests *)
KeepRequests == \A t \in All : Requests(t)' = Requests(t)

OneMore(u) ==
  /\ Requests(u)' = Requests(u) + 1
  /\ \A t \in All \ {u} : Requests(t)' = Requests(t)

OneLess(u) ==
  /\ Requests(u) > 0 /\ Requests(u)' = Requests(u) - 1
  /\ \A t \in All \ {u} : Requests(t)' = Requests(t)

TurnsStep == [Turns!Next]_(Turns!vars)

-----------------------------------------------------------------------------
(* The invariant                                                            *)

(* Every step keeps the task of the loop.                                   *)
LEMMA LoopTaskStep ==
  ASSUME TInv, [Next]_vars
  PROVE  LoopTask'
<1> USE DEF TInv, IInv, HandoffAgrees, LoopTask, manager, goroutines, emulator, loop
<1>1. CASE Client \/ Runs \/ BootClose \/ (\E r \in Runners : Handler(r))
  BY <1>1, HoldFrame
<1>2. CASE Loop
  <2>1. CASE LoopExit \/ LoopClosed
    BY <2>1 DEF LoopExit, LoopClosed
  <2>2. CASE SkipRestore \/ Restore
    BY <2>2 DEF SkipRestore, Restore, NeedsRestore
  <2>3. CASE RestoreFails \/ Resume
    BY <2>3 DEF RestoreFails, Resume
  <2>4. ASSUME NEW t \in All, Dispatch(t) PROVE LoopTask'
    BY <2>4 DEF Dispatch, DispatchRun, DispatchHandler
  <2>5. QED
    BY <1>2, <2>1, <2>2, <2>3, <2>4 DEF Loop
<1>3. CASE Emulator
  <2>1. /\ UNCHANGED <<ltask, closed>>
        /\ \/ UNCHANGED <<lpc, current>>
           \/ Suspend
           \/ EmuReturns
    BY <1>3 DEF Emulator, SyncCallback, HookEnter, MarkRunning, SaveContext, SaveFails,
       SyncWrites, SyncCancels, SyncReturns, SyncPanics, Suspend, SuspendClosed,
       Deliver, DeliverDropped, EmuStops, EmuFails, EmuReturns, ReleaseMain
  <2>2. QED
    BY <2>1 DEF Suspend, EmuReturns
<1>4. CASE (\E c \in Callers : Caller(c)) \/ UNCHANGED vars
  BY <1>4 DEF Caller, CallMainThread, CallerClosed, ServeExec, ExecReturns,
     DirectReturns, vars
<1>5. QED
  BY <1>1, <1>2, <1>3, <1>4 DEF Next, Terminated

(* Only CreateTask and the reset of the main task start a handler.          *)
LEMMA FreshStep ==
  ASSUME TInv, [Next]_vars
  PROVE  FreshTasks'
<1> USE DEF TInv, IInv, TypeOK, FreshTasks, manager, tasks, owner, goroutines
<1>1. CASE Client
  <2>1. CASE ResetMain
    BY <2>1, SchedulerAssumption DEF SchedulerAssumption, ResetMain
  <2>2. ASSUME NEW u \in All, CreateTask(u) PROVE FreshTasks'
    BY <2>2 DEF CreateTask
  <2>3. CASE GetMainTask \/ Shutdown
    BY <2>3 DEF GetMainTask, Shutdown
  <2>4. ASSUME NEW u \in All, Run(u) \/ CloseTask(u) \/ CancelTask(u) \/ Deadline(u)
        PROVE  FreshTasks'
    BY <2>4 DEF Run, CloseTask, CancelTask, Deadline
  <2>5. QED
    BY <1>1, <2>1, <2>2, <2>3, <2>4 DEF Client
<1>2. CASE Runs
  BY <1>2 DEF Runs, RunRefused, RunOffers, RunGivesUp
<1>3. CASE Loop
  BY <1>3 DEF Loop, LoopExit, LoopClosed, SkipRestore, Restore, RestoreFails,
     Resume, Dispatch, DispatchRun, DispatchHandler
<1>4. CASE Emulator
  <2>1. CASE Deliver
    BY <2>1 DEF Deliver
  <2>2. CASE ReleaseMain
    BY <2>2 DEF ReleaseMain
  <2>3. CASE ~Deliver /\ ~ReleaseMain
    BY <1>4, <2>3 DEF Emulator, SyncCallback, HookEnter, MarkRunning, SaveContext,
       SaveFails, SyncWrites, SyncCancels, SyncReturns, SyncPanics, Suspend,
       SuspendClosed, DeliverDropped, EmuStops, EmuFails, EmuReturns
  <2>4. QED
    BY <2>1, <2>2, <2>3
<1>5. CASE BootClose
  BY <1>5 DEF BootClose
<1>6. ASSUME NEW r \in Runners, Handler(r) PROVE FreshTasks'
  <2>1. CASE HandlerExits(r) \/ CallbackWrites(r) \/ CallbackReturns(r)
    BY <2>1 DEF HandlerExits, CallbackWrites, CallbackReturns, InCallback
  <2>2. CASE CallbackCancels(r) \/ CancelWrites(r) \/ CallbackPanics(r)
    BY <2>2 DEF CallbackCancels, CancelWrites, CallbackPanics, InCallback
  <2>3. CASE Requeue(r) \/ RequeueRefused(r) \/ HandleReturns(r)
    BY <2>3 DEF Requeue, RequeueRefused, HandleReturns
  <2>4. QED
    BY <1>6, <2>1, <2>2, <2>3 DEF Handler
<1>7. CASE (\E c \in Callers : Caller(c)) \/ UNCHANGED vars
  BY <1>7 DEF Caller, CallMainThread, CallerClosed, ServeExec, ExecReturns,
     DirectReturns, vars
<1>8. QED
  BY <1>1, <1>2, <1>3, <1>4, <1>5, <1>6, <1>7 DEF Next, Terminated

(* The invariant holds when the emulator starts.                            *)
LEMMA TInvInit == Init => TInv
BY IInvInit, SchedulerAssumption DEF SchedulerAssumption, TInv, LoopTask, FreshTasks, Init

(* Every step keeps the invariant.                                          *)
LEMMA TInvStep == TInv /\ [Next]_vars => TInv'
BY IInvStep, LoopTaskStep, FreshStep DEF TInv

-----------------------------------------------------------------------------
(* Steps of CpuTurns                                                        *)

(* The requests of CpuTurns only depend on those of the tasks.              *)
LEMMA MapKeeps ==
  ASSUME KeepRequests
  PROVE  Asked' = Asked
BY DEF KeepRequests, Asked

(* A step that CpuTurns does not see                                        *)
LEMMA MapStutters ==
  ASSUME KeepRequests, Turn' = Turn, closed' = closed
  PROVE  TurnsStep
<1>1. Asked' = Asked
  BY MapKeeps
<1>2. QED
  BY <1>1 DEF TurnsStep, Turns!vars, Turn, Asked

(* A step that is an Ask of CpuTurns                                        *)
LEMMA MapAsks ==
  ASSUME NEW u \in All, OneMore(u), Turn' = Turn, closed' = closed
  PROVE  TurnsStep
<1>1. Asked' = [Asked EXCEPT ![u] = @ + 1]
  BY DEF OneMore, Asked
<1>2. Turns!Ask(u)
  BY <1>1 DEF Turns!Ask, Turn, Asked
<1>3. QED
  BY <1>2 DEF TurnsStep, Turns!Next

(* A step that is a Withdraw                                                *)
LEMMA MapWithdraws ==
  ASSUME NEW u \in All, OneLess(u), Turn' = Turn, closed' = closed
  PROVE  TurnsStep
<1>1. Asked' = [Asked EXCEPT ![u] = @ - 1] /\ Asked[u] > 0
  BY DEF OneLess, Asked
<1>2. Turns!Withdraw(u)
  BY <1>1 DEF Turns!Withdraw, Turn, Asked
<1>3. QED
  BY <1>2 DEF TurnsStep, Turns!Next

(* A step that is a Grant                                                   *)
LEMMA MapGrants ==
  ASSUME NEW u \in All, OneLess(u), Turn = None, Turn' = u, closed' = closed
  PROVE  TurnsStep
<1>1. Asked' = [Asked EXCEPT ![u] = @ - 1] /\ Asked[u] > 0
  BY DEF OneLess, Asked
<1>2. Turns!Grant(u)
  BY <1>1 DEF Turns!Grant, Turn, Asked
<1>3. QED
  BY <1>2 DEF TurnsStep, Turns!Next

(* A step that is a Release                                                 *)
LEMMA MapReleases ==
  ASSUME KeepRequests, Turn # None, Turn' = None, closed' = closed
  PROVE  TurnsStep
<1>1. Asked' = Asked
  BY MapKeeps
<1>2. Turns!Release
  BY <1>1 DEF Turns!Release, Turn, Asked
<1>3. QED
  BY <1>2 DEF TurnsStep, Turns!Next

(* A step that is the ShutDown                                              *)
LEMMA MapShutsDown ==
  ASSUME KeepRequests, Turn' = Turn, closed'
  PROVE  TurnsStep
<1>1. Asked' = Asked
  BY MapKeeps
<1>2. Turns!ShutDown
  BY <1>1 DEF Turns!ShutDown, Turn, Asked
<1>3. QED
  BY <1>2 DEF TurnsStep, Turns!Next

(* A step after it                                                          *)
LEMMA MapRunsDown ==
  ASSUME KeepRequests, closed, Turn' \in All \cup {None}, closed' = closed
  PROVE  TurnsStep
<1>1. Asked' = Asked
  BY MapKeeps
<1>2. Turns!RunDown
  BY <1>1 DEF Turns!RunDown, Turn, Asked
<1>3. QED
  BY <1>2 DEF TurnsStep, Turns!Next

-----------------------------------------------------------------------------
(* The steps of the scheduler                                               *)

(* Nobody but the loop and hooks touches the turn.                          *)
LEMMA TurnFrame ==
  ASSUME Client \/ Runs \/ BootClose \/ (\E r \in Runners : Handler(r))
  PROVE  Turn' = Turn
BY HoldFrame DEF Turn, OnCpu

(* Owners ask for turns by Run; what the main task had asked for before its *)
(* reset stays asked for.                                                   *)
LEMMA TurnsClient ==
  ASSUME TInv, Client
  PROVE  TurnsStep
<1> USE DEF TInv, IInv, manager, tasks, owner, goroutines, emulator, loop, queue
<1>1. Turn' = Turn
  BY TurnFrame
<1>2. CASE Shutdown
  <2>1. KeepRequests /\ closed'
    BY <1>2 DEF Shutdown, KeepRequests, Requests
  <2>2. QED
    BY <1>1, <2>1, MapShutsDown
<1>3. CASE ResetMain
  <2>1. /\ starting' = starting /\ ltask' = ltask /\ closed' = closed
        /\ hpc[Stale] = "gone"
        /\ hpc'[Main] = "recv" /\ hpc'[Stale] # "offer"
        /\ offering'[Main] = 0
        /\ offering'[Stale] = offering[Stale] + offering[Main] + One(hpc[Main] = "offer")
        /\ \A t \in Tasks : hpc'[t] = hpc[t] /\ offering'[t] = offering[t]
    BY <1>3, SchedulerAssumption DEF SchedulerAssumption, ResetMain, TypeOK, One
  <2>2. /\ starting[Main] \in Nat /\ offering[Main] \in Nat /\ offering[Stale] \in Nat
    BY DEF TypeOK
  <2>3. Requests(Main)' = Requests(Main)
    BY <2>1, <2>2 DEF Requests, One
  <2>4. \A t \in Tasks : Requests(t)' = Requests(t)
    BY <2>1, SchedulerAssumption DEF SchedulerAssumption, Requests, One
  <2>5. KeepRequests
    BY <2>3, <2>4 DEF KeepRequests
  <2>6. QED
    BY <1>1, <2>1, <2>5, MapStutters
<1>4. ASSUME NEW u \in All, Run(u) PROVE TurnsStep
  <2>1. /\ starting' = [starting EXCEPT ![u] = @ + 1]
        /\ UNCHANGED <<offering, hpc, ltask, closed>>
    BY <1>4 DEF Run
  <2>2. starting \in [All -> Nat] /\ offering \in [Runners -> Nat]
    BY DEF TypeOK
  <2>3. Requests(u)' = Requests(u) + 1
    BY <2>1, <2>2 DEF Requests, One
  <2>4. \A t \in All \ {u} : Requests(t)' = Requests(t)
    BY <2>1, <2>2 DEF Requests, One
  <2>5. QED
    BY <1>1, <2>1, <2>3, <2>4, MapAsks DEF OneMore
<1>5. CASE GetMainTask
  <2>1. KeepRequests /\ closed' = closed
    BY <1>5 DEF GetMainTask, KeepRequests, Requests
  <2>2. QED
    BY <1>1, <2>1, MapStutters
<1>6. ASSUME NEW u \in All, CreateTask(u) PROVE TurnsStep
  <2>1. /\ UNCHANGED <<starting, offering, ltask, closed>>
        /\ \A r \in Runners : One(hpc'[r] = "offer") = One(hpc[r] = "offer")
    BY <1>6 DEF CreateTask, TypeOK, FreshTasks, One
  <2>2. KeepRequests
    BY <2>1 DEF KeepRequests, Requests
  <2>3. QED
    BY <1>1, <2>1, <2>2, MapStutters
<1>7. ASSUME NEW u \in All, CloseTask(u) \/ CancelTask(u) \/ Deadline(u) PROVE TurnsStep
  <2>1. KeepRequests /\ closed' = closed
    BY <1>7 DEF CloseTask, CancelTask, Deadline, KeepRequests, Requests
  <2>2. QED
    BY <1>1, <2>1, MapStutters
<1>8. QED
  BY <1>2, <1>3, <1>4, <1>5, <1>6, <1>7 DEF Client

(* A run passes its request on to the select of runTask, or takes it back.  *)
LEMMA TurnsRuns ==
  ASSUME TInv, Runs
  PROVE  TurnsStep
<1> USE DEF TInv, IInv, manager, tasks, owner, goroutines, emulator, loop, queue
<1>1. Turn' = Turn
  BY TurnFrame
<1>2. starting \in [All -> Nat] /\ offering \in [Runners -> Nat]
  BY DEF TypeOK
<1>3. ASSUME NEW u \in All, RunRefused(u) PROVE TurnsStep
  <2>1. /\ starting[u] > 0 /\ starting' = [starting EXCEPT ![u] = @ - 1]
        /\ UNCHANGED <<offering, hpc, ltask, closed>>
    BY <1>3 DEF RunRefused
  <2>2. Requests(u)' = Requests(u) - 1 /\ Requests(u) > 0
    BY <1>2, <2>1 DEF Requests, One
  <2>3. \A t \in All \ {u} : Requests(t)' = Requests(t)
    BY <1>2, <2>1 DEF Requests, One
  <2>4. QED
    BY <1>1, <2>1, <2>2, <2>3, MapWithdraws DEF OneLess
<1>4. ASSUME NEW u \in All, RunOffers(u) PROVE TurnsStep
  <2>1. /\ starting' = [starting EXCEPT ![u] = @ - 1]
        /\ offering' = [offering EXCEPT ![u] = @ + 1]
        /\ UNCHANGED <<hpc, ltask, closed>>
    BY <1>4 DEF RunOffers
  <2>2. u # Stale
    BY SchedulerAssumption DEF SchedulerAssumption
  <2>3. KeepRequests
    BY <1>2, <2>1, <2>2 DEF KeepRequests, Requests, One
  <2>4. QED
    BY <1>1, <2>1, <2>3, MapStutters
<1>5. ASSUME NEW r \in Runners, RunGivesUp(r) PROVE TurnsStep
  <2>1. /\ offering[r] > 0 /\ offering' = [offering EXCEPT ![r] = @ - 1]
        /\ UNCHANGED <<starting, hpc, ltask, closed>>
    BY <1>5 DEF RunGivesUp
  <2>2. TaskOf(r) \in All /\ Main # Stale /\ Stale \notin All
    BY SchedulerAssumption DEF SchedulerAssumption, TaskOf
  <2>3. Requests(TaskOf(r))' = Requests(TaskOf(r)) - 1 /\ Requests(TaskOf(r)) > 0
    BY <1>2, <2>1, <2>2 DEF Requests, One, TaskOf
  <2>4. \A t \in All \ {TaskOf(r)} : Requests(t)' = Requests(t)
    BY <1>2, <2>1, <2>2 DEF Requests, One, TaskOf
  <2>5. QED
    BY <1>1, <2>1, <2>2, <2>3, <2>4, MapWithdraws DEF OneLess
<1>6. QED
  BY <1>3, <1>4, <1>5 DEF Runs

(* The loop answers a request when it resumes the emulator; a context that  *)
(* cannot be restored takes the request back.                               *)
LEMMA TurnsLoop ==
  ASSUME TInv, Loop
  PROVE  TurnsStep
<1> USE DEF TInv, IInv, HandoffAgrees, manager, tasks, owner, goroutines, emulator, loop, queue
<1>1. starting \in [All -> Nat] /\ offering \in [Runners -> Nat]
  BY DEF TypeOK
<1>2. Main # Stale /\ Stale \notin All /\ None \notin All
  BY SchedulerAssumption DEF SchedulerAssumption
<1>3. CASE LoopExit \/ LoopClosed
  <2>1. KeepRequests /\ Turn' = Turn /\ closed' = closed
    BY <1>3 DEF LoopExit, LoopClosed, KeepRequests, Requests, Turn, OnCpu
  <2>2. QED
    BY <2>1, MapStutters
<1>4. CASE SkipRestore \/ Restore
  <2>1. KeepRequests
    BY <1>4 DEF SkipRestore, Restore, KeepRequests, Requests
  <2>2. Turn' = Turn /\ closed' = closed
    BY <1>4 DEF SkipRestore, Restore, Turn, OnCpu
  <2>3. QED
    BY <2>1, <2>2, MapStutters
<1>5. CASE RestoreFails
  <2>1. /\ ltask \in All /\ ltask' = None
        /\ UNCHANGED <<starting, offering, hpc, epc, closed>>
    BY <1>5 DEF RestoreFails, TypeOK
  <2>2. PICK u \in All : u = ltask
    BY <2>1
  <2>3. Requests(u)' = Requests(u) - 1 /\ Requests(u) > 0
    BY <1>1, <1>2, <2>1, <2>2 DEF Requests, One
  <2>4. \A t \in All \ {u} : Requests(t)' = Requests(t)
    BY <1>1, <1>2, <2>1, <2>2 DEF Requests, One
  <2>5. Turn' = Turn
    BY <1>5, <2>1 DEF RestoreFails, Turn, OnCpu
  <2>6. QED
    BY <2>1, <2>3, <2>4, <2>5, MapWithdraws DEF OneLess
<1>6. CASE Resume
  <2>1. /\ lpc = "resume" /\ epc = "parked" /\ epc' = "guest" /\ ltask' = None
        /\ UNCHANGED <<starting, offering, hpc, closed, current>>
        /\ current \in All
    BY <1>6 DEF Resume, TypeOK
  <2>2. Turn = None /\ Turn' = current
    BY <2>1 DEF Turn, OnCpu
  <2>3. CASE ltask = current
    <3>1. PICK u \in All : u = current
      BY <2>1
    <3>2. Requests(u)' = Requests(u) - 1 /\ Requests(u) > 0
      BY <1>1, <1>2, <2>1, <2>3, <3>1 DEF Requests, One
    <3>3. \A t \in All \ {u} : Requests(t)' = Requests(t)
      BY <1>1, <1>2, <2>1, <2>3, <3>1 DEF Requests, One
    <3>4. QED
      BY <2>1, <2>2, <3>1, <3>2, <3>3, MapGrants DEF OneLess
  <2>4. CASE closed /\ ltask = None
    <3>1. KeepRequests
      BY <2>1, <2>4 DEF KeepRequests, Requests
    <3>2. QED
      BY <2>1, <2>2, <2>4, <3>1, MapRunsDown
  <2>5. QED
    BY <2>1, <2>3, <2>4 DEF LoopTask
<1>7. ASSUME NEW r \in Runners, DispatchRun(r) PROVE TurnsStep
  <2>1. /\ ltask = None /\ ltask' = TaskOf(r)
        /\ offering[r] > 0 /\ offering' = [offering EXCEPT ![r] = @ - 1]
        /\ UNCHANGED <<starting, hpc, closed, epc, current>>
    BY <1>7 DEF DispatchRun, LoopTask
  <2>2. KeepRequests
    BY <1>1, <1>2, <2>1 DEF KeepRequests, Requests, One, TaskOf
  <2>3. QED
    BY <2>1, <2>2, MapStutters DEF Turn, OnCpu
<1>8. ASSUME NEW r \in Runners, DispatchHandler(r) PROVE TurnsStep
  <2>1. /\ ltask = None /\ ltask' = TaskOf(r)
        /\ hpc[r] = "offer" /\ hpc'[r] = "recv"
        /\ \A s \in Runners : s # r => hpc'[s] = hpc[s]
        /\ UNCHANGED <<starting, offering, closed, epc, current>>
    BY <1>8 DEF DispatchHandler, LoopTask, TypeOK
  <2>2. KeepRequests
    BY <1>1, <1>2, <2>1 DEF KeepRequests, Requests, One, TaskOf
  <2>3. QED
    BY <2>1, <2>2, MapStutters DEF Turn, OnCpu
<1>9. QED
  BY <1>3, <1>4, <1>5, <1>6, <1>7, <1>8 DEF Loop, Dispatch

(* A turn ends when the emulator suspends, or returns.                      *)
LEMMA TurnsEmulator ==
  ASSUME TInv, Emulator
  PROVE  TurnsStep
<1> USE DEF TInv, IInv, HandoffAgrees, manager, tasks, owner, goroutines, emulator, loop, queue
<1>1. CASE Suspend \/ EmuReturns
  <2>1. KeepRequests /\ closed' = closed
    BY <1>1 DEF Suspend, EmuReturns, KeepRequests, Requests
  <2>2. Turn # None /\ Turn' = None
    BY <1>1, SchedulerAssumption DEF SchedulerAssumption, Suspend, EmuReturns, Turn,
       OnCpu, TypeOK
  <2>3. QED
    BY <2>1, <2>2, MapReleases
<1>2. CASE Deliver
  <2>1. /\ UNCHANGED <<starting, offering, ltask, closed>>
        /\ hpc' = [hpc EXCEPT ![etask] = "fn"] /\ hpc[etask] = "recv"
        /\ epc = "deliver" /\ epc' = "parked"
    BY <1>2 DEF Deliver
  <2>2. \A r \in Runners : One(hpc'[r] = "offer") = One(hpc[r] = "offer")
    BY <2>1 DEF TypeOK, One
  <2>3. KeepRequests /\ Turn' = Turn
    BY <2>1, <2>2 DEF KeepRequests, Requests, Turn, OnCpu
  <2>4. QED
    BY <2>1, <2>3, MapStutters
<1>3. CASE ~Suspend /\ ~EmuReturns /\ ~Deliver
  <2>1. /\ UNCHANGED <<starting, offering, hpc, ltask, closed, current>>
        /\ OnCpu' = OnCpu
    BY <1>3 DEF Emulator, SyncCallback, HookEnter, MarkRunning, SaveContext, SaveFails,
       SyncWrites, SyncCancels, SyncReturns, SyncPanics, SuspendClosed,
       DeliverDropped, EmuStops, EmuFails, ReleaseMain, OnCpu
  <2>2. KeepRequests /\ Turn' = Turn
    BY <2>1 DEF KeepRequests, Requests, Turn
  <2>3. QED
    BY <2>1, <2>2, MapStutters
<1>4. QED
  BY <1>1, <1>2, <1>3

(* A handler asks for the next turn of its task when the callback is over.  *)
LEMMA TurnsHandler ==
  ASSUME TInv, BootClose \/ \E r \in Runners : Handler(r)
  PROVE  TurnsStep
<1> USE DEF TInv, IInv, manager, tasks, owner, goroutines, emulator, loop, queue
<1>1. Turn' = Turn
  BY TurnFrame
<1>2. starting \in [All -> Nat] /\ offering \in [Runners -> Nat]
  BY DEF TypeOK
<1>3. Main # Stale /\ Stale \notin All
  BY SchedulerAssumption DEF SchedulerAssumption
<1>4. CASE BootClose
  <2>1. /\ UNCHANGED <<starting, offering, ltask, closed>>
        /\ \A r \in Runners : One(hpc'[r] = "offer") = One(hpc[r] = "offer")
    BY <1>4 DEF BootClose, TypeOK, One
  <2>2. KeepRequests
    BY <2>1 DEF KeepRequests, Requests
  <2>3. QED
    BY <1>1, <2>1, <2>2, MapStutters
<1>5. ASSUME NEW r \in Runners, Handler(r) PROVE TurnsStep
  <2>1. UNCHANGED <<starting, offering, ltask, closed>>
    BY <1>5 DEF Handler, HandlerExits, CallbackWrites, CallbackReturns,
       CallbackCancels, CancelWrites, CallbackPanics, Requeue, RequeueRefused,
       HandleReturns
  <2>2. \A s \in Runners : s # r => hpc'[s] = hpc[s]
    BY <1>5 DEF TypeOK, Handler, HandlerExits, CallbackWrites, CallbackReturns,
       CallbackCancels, CancelWrites, CallbackPanics, Requeue, RequeueRefused,
       HandleReturns
  <2>3. TaskOf(r) \in All
    BY DEF TaskOf
  <2>4. CASE hpc[r] # "offer" /\ hpc'[r] = "offer"
    <3>1. Requests(TaskOf(r))' = Requests(TaskOf(r)) + 1
      BY <1>2, <1>3, <2>1, <2>2, <2>4 DEF Requests, One, TaskOf
    <3>2. \A t \in All \ {TaskOf(r)} : Requests(t)' = Requests(t)
      BY <1>2, <1>3, <2>1, <2>2, <2>4 DEF Requests, One, TaskOf
    <3>3. QED
      BY <1>1, <2>1, <2>3, <3>1, <3>2, MapAsks DEF OneMore
  <2>5. CASE hpc[r] = "offer" /\ hpc'[r] # "offer"
    <3>1. Requests(TaskOf(r))' = Requests(TaskOf(r)) - 1 /\ Requests(TaskOf(r)) > 0
      BY <1>2, <1>3, <2>1, <2>2, <2>5 DEF Requests, One, TaskOf
    <3>2. \A t \in All \ {TaskOf(r)} : Requests(t)' = Requests(t)
      BY <1>2, <1>3, <2>1, <2>2, <2>5 DEF Requests, One, TaskOf
    <3>3. QED
      BY <1>1, <2>1, <2>3, <3>1, <3>2, MapWithdraws DEF OneLess
  <2>6. CASE hpc[r] = "offer" <=> hpc'[r] = "offer"
    <3>1. \A s \in Runners : One(hpc'[s] = "offer") = One(hpc[s] = "offer")
      BY <2>2, <2>6 DEF One
    <3>2. KeepRequests
      BY <2>1, <3>1 DEF KeepRequests, Requests
    <3>3. QED
      BY <1>1, <2>1, <3>2, MapStutters
  <2>7. QED
    BY <2>4, <2>5, <2>6
<1>6. QED
  BY <1>4, <1>5

(* mainThreadRun takes no turn.                                             *)
LEMMA TurnsCaller ==
  ASSUME TInv, UNCHANGED vars \/ \E c \in Callers : Caller(c)
  PROVE  TurnsStep
<1> USE DEF manager, tasks, owner, goroutines, emulator, loop, queue
<1>1. /\ UNCHANGED <<starting, offering, hpc, ltask, closed, current>>
      /\ OnCpu' = OnCpu
  BY DEF Caller, CallMainThread, CallerClosed, ServeExec, ExecReturns,
     DirectReturns, vars, OnCpu
<1>2. KeepRequests /\ Turn' = Turn
  BY <1>1 DEF KeepRequests, Requests, Turn
<1>3. QED
  BY <1>1, <1>2, MapStutters

-----------------------------------------------------------------------------
(* The scheduler hands out the CPU in turns, whoever runs, cancels, closes  *)
(* or fails: the loop resumes the emulator only as a task that asked by Run *)
(* or after a callback, each request gives one turn, and the CPU is idle    *)
(* between two turns (suspend, dispatch and resume pair up).                *)
THEOREM ImplementsTurns == Spec => TurnsSpec
<1>1. Init => Turns!Init
  <2>1. ASSUME Init, NEW t \in All PROVE Requests(t) = 0
    BY <2>1, SchedulerAssumption DEF SchedulerAssumption, Init, Requests, One
  <2>2. QED
    BY <2>1 DEF Init, Turns!Init, OnCpu
<1>2. TInv /\ [Next]_vars => TurnsStep
  BY TurnsClient, TurnsRuns, TurnsLoop, TurnsEmulator, TurnsHandler, TurnsCaller
     DEF Next, Terminated
<1>3. TInv /\ [Next]_vars => [Turns!Next]_(Turns!vars)
  BY <1>2 DEF TurnsStep
<1>4. QED
  BY <1>1, <1>3, TInvInit, TInvStep, PTL DEF Spec, TurnsSpec, Turns!Spec
=============================================================================
