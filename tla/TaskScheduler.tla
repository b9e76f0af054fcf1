--------------------------- MODULE TaskScheduler ---------------------------
(***************************************************************************)
(* The cooperative scheduler of internal/debugger: one emulated CPU that   *)
(* the guest code of many tasks shares.  Goroutines that take part:        *)
(*                                                                         *)
(*   emulator    the goroutine inside emu.Start; it runs guest code and,   *)
(*               in hooks, asyncTask, syncTask and resumeTask              *)
(*   loop        taskManager.loop, which takes the next task to run while  *)
(*               the emulator is parked                                    *)
(*   handlers    runner.loop, one per task, which runs the callbacks of    *)
(*               asynchronous hooks and then queues the task again         *)
(*   runs        the goroutines started by runner.Run (runTask)            *)
(*   callers     any goroutine inside mainThreadRun                        *)
(*   clients     the user of the API: create, run, cancel, close           *)
(*                                                                         *)
(* They meet on the unbuffered channels suspend, dispatch, resume and exec *)
(* and on the closed and ctx.Done channels; a rendezvous is one action of  *)
(* both parties.  Memory the code shares without a lock (current, hasSync, *)
(* status, change) is read and written in separate steps.                  *)
(*                                                                         *)
(* The main task is reused: GetMainTask gives the same object a new        *)
(* context, channel and handler.  Stale stands for what is left of the     *)
(* incarnation before: its handler and the offers it had made.             *)
(***************************************************************************)
EXTENDS Naturals, FiniteSets

CONSTANTS
  Tasks,     (* the tasks CreateTask returns                               *)
  Main,      (* the main task                                              *)
  Stale,     (* the previous incarnation of the main task                  *)
  None,      (* the nil task                                               *)
  Callers,   (* goroutines that call mainThreadRun                         *)
  Env,       (* what may happen in this instance: a subset of EnvEvents    *)
  MaxRuns,   (* bound: calls of Run for one incarnation of a task          *)
  MaxReuse   (* bound: calls of GetMainTask that succeed                   *)

EnvEvents ==
  {"cancel", "deadline", "earlyClose", "shutdown", "sync", "panic",
   "saveFail", "restoreFail", "emuFail"}

ASSUME SchedulerAssumption ==
  /\ Main \notin Tasks /\ Stale \notin Tasks /\ None \notin Tasks
  /\ Main # Stale /\ Main # None /\ Stale # None
  /\ Env \subseteq EnvEvents
  /\ MaxRuns \in Nat /\ MaxReuse \in Nat

All == Tasks \cup {Main}
Runners == All \cup {Stale}
TaskOf(r) == IF r = Stale THEN Main ELSE r

(* TaskStatus *)
Pending == 0
Running == 1
Done == 2
Close == 3

VARIABLES
  (* taskManager *)
  closed,    (* tm.closed has been closed                                  *)
  current,   (* tm.current                                                 *)
  hasSync,   (* tm.hasSync                                                 *)
  emuerr,    (* tm.emuerr is set                                           *)
  stopping,  (* emu.Stop has been called                                   *)
  (* tasks *)
  phase,     (* the owner's view: none, boot, resetting, held, closed      *)
  status,    (* runner.status                                              *)
  done,      (* runner.ctx is done                                         *)
  change,    (* runner.change                                              *)
  saved,     (* taskCtx.ctx holds the latest registers of the task         *)
  runs,      (* calls of Run on this incarnation                           *)
  reuse,     (* successful calls of GetMainTask                            *)
  (* the machine *)
  loaded,    (* whose registers the CPU holds; None: nobody's              *)
  (* goroutines *)
  epc,       (* the emulator's                                             *)
  etask,     (* the task its hook works for; None if no callback is due    *)
             (* (asyncTask's call is false) or no hook is being handled    *)
  ehook,     (* the kind of the hook, until the registers are saved        *)
  lpc,       (* the loop's                                                 *)
  ltask,     (* the task it has taken from dispatch                        *)
  starting,  (* runs that have not entered the select of runTask           *)
  offering,  (* runs in that select                                        *)
  hpc,       (* the handlers'                                              *)
  cpc        (* the callers'                                               *)

manager == <<closed, current, hasSync, emuerr, stopping>>
owner == <<phase, runs, reuse>>
life == <<status, done>>
regs == <<change, saved, loaded>>
tasks == <<owner, life, regs>>
emulator == <<epc, etask, ehook>>
loop == <<lpc, ltask>>
queue == <<starting, offering>>
goroutines == <<emulator, loop, queue, hpc, cpc>>
vars == <<manager, tasks, goroutines>>

Live(t) == status[t] < Done

(* Changed: updateStatus does not compare *)
CancelledAlways(t) ==
  /\ status' = [status EXCEPT ![t] = Done]
  /\ done' = [done EXCEPT ![t] = TRUE]

(* updateStatus and cancel of CancelCause, in one step *)
Cancelled(t) ==
  /\ status' = [status EXCEPT ![t] = IF @ < Done THEN Done ELSE @]
  /\ done' = [done EXCEPT ![t] = TRUE]

(* contextRestore of t succeeds: the CPU holds what t's context holds *)
Loads(t) ==
  /\ change' = [change EXCEPT ![t] = FALSE]
  /\ loaded' = IF saved[t] THEN t ELSE None

(* contextRestore of t fails, and the caller cancels the task *)
FailsToLoad(t) ==
  /\ "restoreFail" \in Env
  /\ change' = [change EXCEPT ![t] = FALSE]
  /\ loaded' = None
  /\ Cancelled(t)

Init ==
  /\ closed = FALSE /\ current = Main /\ hasSync = FALSE
  /\ emuerr = FALSE /\ stopping = FALSE
  /\ phase = [t \in All |-> IF t = Main THEN "boot" ELSE "none"]
  /\ status = [t \in All |-> Pending]
  /\ done = [t \in All |-> FALSE]
  /\ change = [t \in All |-> TRUE]
  /\ saved = [t \in All |-> TRUE]
  /\ runs = [t \in All |-> 0] /\ reuse = 0
  /\ loaded = Main
  /\ epc = "guest" /\ etask = None /\ ehook = "none"
  /\ lpc = "top" /\ ltask = None
  /\ starting = [t \in All |-> 0] /\ offering = [r \in Runners |-> 0]
  /\ hpc = [r \in Runners |-> IF r = Main THEN "recv" ELSE "gone"]
  /\ cpc = [c \in Callers |-> "idle"]

-----------------------------------------------------------------------------
(* The client *)

CreateTask(t) ==
  /\ phase[t] = "none" /\ t # Main
  /\ ~closed
  /\ phase' = [phase EXCEPT ![t] = "held"]
  /\ hpc' = [hpc EXCEPT ![t] = "recv"]
  /\ UNCHANGED <<manager, life, runs, reuse, regs, emulator, loop, queue,
                 cpc>>

(* The compare-and-swap of getMainTask; reset follows in a step of its own *)
GetMainTask ==
  /\ status[Main] = Close /\ phase[Main] # "resetting"
  /\ reuse < MaxReuse
  /\ status' = [status EXCEPT ![Main] = Pending]
  /\ phase' = [phase EXCEPT ![Main] = "resetting"]
  /\ reuse' = reuse + 1
  /\ UNCHANGED <<manager, done, runs, regs, goroutines>>

(* A new context, channel and handler.  Whoever waits on the old ones goes  *)
(* on with them: the handler before, the runs that offer, and the emulator  *)
(* if it is about to deliver a callback.  A handler that offers has only    *)
(* its offer left, so it counts as a run.                                   *)
ResetMain ==
  /\ phase[Main] = "resetting"
  /\ hpc[Stale] = "gone"     \* bound: one earlier handler at a time
  /\ phase' = [phase EXCEPT ![Main] = "held"]
  /\ done' = [done EXCEPT ![Main] = FALSE]
  /\ change' = [change EXCEPT ![Main] = TRUE]
  /\ saved' = [saved EXCEPT ![Main] = TRUE]
  /\ loaded' = IF loaded = Main THEN None ELSE loaded
  /\ runs' = [runs EXCEPT ![Main] = 0]
  /\ hpc' = [hpc EXCEPT
               ![Main] = "recv",
               ![Stale] = IF hpc[Main] = "offer" THEN "gone" ELSE hpc[Main]]
  /\ offering' = [offering EXCEPT
                    ![Main] = 0,
                    ![Stale] = @ + offering[Main]
                                 + IF hpc[Main] = "offer" THEN 1 ELSE 0]
  /\ etask' = IF epc = "deliver" /\ etask = Main THEN Stale ELSE etask
  /\ UNCHANGED <<manager, status, reuse, epc, ehook, loop, starting, cpc>>

Run(t) ==
  /\ phase[t] = "held" /\ status[t] = Pending
  /\ runs[t] < MaxRuns
  /\ runs' = [runs EXCEPT ![t] = @ + 1]
  /\ starting' = [starting EXCEPT ![t] = @ + 1]
  /\ UNCHANGED <<manager, phase, life, reuse, regs, emulator, loop, offering,
                 hpc, cpc>>

(* Close of a task by its owner, who has waited for it unless "earlyClose" *)
CloseTask(t) ==
  /\ phase[t] = "held"
  /\ done[t] \/ closed \/ "earlyClose" \in Env
  /\ status' = [status EXCEPT ![t] = Close]
  /\ done' = [done EXCEPT ![t] = TRUE]
  /\ phase' = [phase EXCEPT ![t] = "closed"]
  /\ UNCHANGED <<manager, runs, reuse, regs, goroutines>>

(* CancelCause called by the owner *)
CancelTask(t) ==
  /\ "cancel" \in Env
  /\ phase[t] = "held" /\ ~done[t]
  /\ Cancelled(t)
  /\ UNCHANGED <<manager, owner, regs, goroutines>>

(* The context the owner gave to CreateTask or GetMainTask ends *)
Deadline(t) ==
  /\ "deadline" \in Env
  /\ phase[t] = "held" /\ ~done[t]
  /\ done' = [done EXCEPT ![t] = TRUE]
  /\ UNCHANGED <<manager, owner, status, regs, goroutines>>

(* dtor closes tm.closed, then waits for the emulator *)
Shutdown ==
  /\ "shutdown" \in Env
  /\ ~closed
  /\ closed' = TRUE
  /\ UNCHANGED <<current, hasSync, emuerr, stopping, tasks, goroutines>>

-----------------------------------------------------------------------------
(* The goroutine of Run: runTask *)

RunRefused(t) ==
  /\ starting[t] > 0
  /\ emuerr
  /\ Cancelled(t)
  /\ starting' = [starting EXCEPT ![t] = @ - 1]
  /\ UNCHANGED <<manager, owner, regs, emulator, loop, offering, hpc, cpc>>

RunOffers(t) ==
  /\ starting[t] > 0
  /\ ~emuerr
  /\ starting' = [starting EXCEPT ![t] = @ - 1]
  /\ offering' = [offering EXCEPT ![t] = @ + 1]
  /\ UNCHANGED <<manager, tasks, emulator, loop, hpc, cpc>>

(* Changed: a run leaves runTask without having been in its select *)
RunGivesUpTwice(r) ==
  /\ closed
  /\ offering' = [offering EXCEPT ![r] = @ - 1]
  /\ UNCHANGED <<manager, tasks, emulator, loop, starting, hpc, cpc>>

RunGivesUp(r) ==
  /\ offering[r] > 0
  /\ \/ closed
     \/ r = Stale
     \/ done[TaskOf(r)]
  /\ offering' = [offering EXCEPT ![r] = @ - 1]
  /\ UNCHANGED <<manager, tasks, emulator, loop, starting, hpc, cpc>>

-----------------------------------------------------------------------------
(* taskManager.loop *)

LoopExit ==
  /\ lpc = "top" /\ closed
  /\ lpc' = "gone"
  /\ stopping' = TRUE
  /\ UNCHANGED <<closed, current, hasSync, emuerr, tasks, emulator, ltask,
                 queue, hpc, cpc>>

(* Changed: the loop resumes the emulator when nothing is dispatched *)
LoopDoesNotWait ==
  /\ lpc = "wait"
  /\ lpc' = "resume"
  /\ UNCHANGED <<manager, tasks, emulator, ltask, queue, hpc, cpc>>

(* Changed: the second select of the loop has no case for closed *)
LoopIgnoresClosed == FALSE

LoopClosed ==
  /\ lpc = "wait" /\ closed
  /\ lpc' = "resume"
  /\ UNCHANGED <<manager, tasks, emulator, ltask, queue, hpc, cpc>>

DispatchRun(r) ==
  /\ lpc = "wait" /\ offering[r] > 0
  /\ lpc' = "restore" /\ ltask' = TaskOf(r)
  /\ offering' = [offering EXCEPT ![r] = @ - 1]
  /\ UNCHANGED <<manager, tasks, emulator, starting, hpc, cpc>>

(* Changed: a handler offers its task again and again *)
DispatchHandlerKeeps(r) ==
  /\ lpc = "wait" /\ hpc[r] = "offer"
  /\ lpc' = "restore" /\ ltask' = TaskOf(r)
  /\ UNCHANGED <<manager, tasks, emulator, queue, hpc, cpc>>

DispatchHandler(r) ==
  /\ lpc = "wait" /\ hpc[r] = "offer"
  /\ lpc' = "restore" /\ ltask' = TaskOf(r)
  /\ hpc' = [hpc EXCEPT ![r] = "recv"]
  /\ UNCHANGED <<manager, tasks, emulator, queue, cpc>>

Dispatch(t) ==
  \E r \in Runners : TaskOf(r) = t /\ (DispatchRun(r) \/ DispatchHandler(r))

(* Changed: one half of the condition is forgotten *)
NeedsRestoreOnSwitch == current # ltask

NeedsRestore == current # ltask \/ change[ltask]

(* Changed: tm.current is assigned before it is compared *)
SkipRestoreSwitches ==
  /\ lpc = "restore"
  /\ ~change[ltask]
  /\ current' = ltask
  /\ lpc' = "resume"
  /\ UNCHANGED <<closed, hasSync, emuerr, stopping, tasks, emulator, ltask,
                 queue, hpc, cpc>>

SkipRestore ==
  /\ lpc = "restore"
  /\ ~NeedsRestore
  /\ lpc' = "resume"
  /\ UNCHANGED <<manager, tasks, emulator, ltask, queue, hpc, cpc>>

Restore ==
  /\ lpc = "restore"
  /\ NeedsRestore
  /\ current' = ltask
  /\ Loads(ltask)
  /\ lpc' = "resume"
  /\ UNCHANGED <<closed, hasSync, emuerr, stopping, owner, life, saved,
                 emulator, ltask, queue, hpc, cpc>>

(* Changed: the loop returns instead of goto wait *)
RestoreFailsForGood ==
  /\ lpc = "restore"
  /\ NeedsRestore
  /\ current' = ltask
  /\ FailsToLoad(ltask)
  /\ lpc' = "gone" /\ ltask' = None
  /\ UNCHANGED <<closed, hasSync, emuerr, stopping, owner, saved, emulator,
                 queue, hpc, cpc>>

(* goto wait: the failed task stays current *)
RestoreFails ==
  /\ lpc = "restore"
  /\ NeedsRestore
  /\ current' = ltask
  /\ FailsToLoad(ltask)
  /\ lpc' = "wait" /\ ltask' = None
  /\ UNCHANGED <<closed, hasSync, emuerr, stopping, owner, saved, emulator,
                 queue, hpc, cpc>>

(* The rendezvous on resume: resumeTask returns, and so does the hook *)
Resume ==
  /\ lpc = "resume" /\ epc = "parked"
  /\ lpc' = "top" /\ ltask' = None
  /\ epc' = "guest"
  /\ UNCHANGED <<manager, tasks, etask, ehook, queue, hpc, cpc>>

-----------------------------------------------------------------------------
(* The emulator goroutine *)

(* Guest code has run and reaches a hook: asyncTask or syncTask reads       *)
(* current and its status.  The first hook is the trap emu.Start begins at. *)
HookEnter(kind) ==
  /\ epc = "guest"
  /\ kind = "sync" => "sync" \in Env /\ phase[Main] # "boot"
  /\ \/ /\ Live(current)
        /\ etask' = current /\ ehook' = kind
        /\ epc' = IF status[current] = Pending THEN "mark" ELSE "save"
     \/ /\ ~Live(current)
        /\ epc' = "suspending"
        /\ UNCHANGED <<etask, ehook>>
  /\ saved' = [t \in All |-> saved[t] /\ t # loaded]
  /\ UNCHANGED <<manager, owner, life, change, loaded, loop, queue, hpc, cpc>>

(* Changed: the first hook of a task is taken for saved *)
MarkRunningOnly ==
  /\ epc = "mark"
  /\ status' = [status EXCEPT ![etask] = Running]
  /\ epc' = "suspending" /\ ehook' = "none"
  /\ UNCHANGED <<manager, owner, done, regs, etask, loop, queue, hpc, cpc>>

(* The write of updateStatus(Running), which has compared before *)
MarkRunning ==
  /\ epc = "mark"
  /\ status' = [status EXCEPT ![etask] = Running]
  /\ epc' = "save"
  /\ UNCHANGED <<manager, owner, done, regs, etask, ehook, loop, queue, hpc,
                 cpc>>

SaveContext ==
  /\ epc = "save"
  /\ saved' = [saved EXCEPT ![etask] = (loaded = etask)]
  /\ ehook' = "none"
  /\ \/ /\ ehook = "sync"
        /\ hasSync' = TRUE
        /\ epc' = "sync"
     \/ /\ ehook = "async"
        /\ epc' = "suspending"
        /\ UNCHANGED hasSync
  /\ UNCHANGED <<closed, current, emuerr, stopping, owner, life, change,
                 loaded, etask, loop, queue, hpc, cpc>>

SaveFails ==
  /\ epc = "save"
  /\ "saveFail" \in Env
  /\ Cancelled(etask)
  /\ epc' = "suspending" /\ etask' = None /\ ehook' = "none"
  /\ UNCHANGED <<manager, owner, regs, loop, queue, hpc, cpc>>

(* A synchronous callback runs on the emulator goroutine.  It may write     *)
(* registers, cancel its task, return or panic.                             *)
SyncWrites ==
  /\ epc = "sync"
  /\ change' = [change EXCEPT ![etask] = TRUE]
  /\ UNCHANGED <<manager, owner, life, saved, loaded, goroutines>>

SyncCancels ==
  /\ epc = "sync" /\ Live(etask)
  /\ Cancelled(etask)
  /\ UNCHANGED <<manager, owner, regs, goroutines>>

SyncReturns ==
  /\ epc = "sync"
  /\ hasSync' = FALSE
  /\ etask' = None
  /\ \/ /\ ~Live(etask)
        /\ epc' = "suspending"
        /\ UNCHANGED <<status, done, change, loaded>>
     \/ /\ Live(etask) /\ ~change[etask]
        /\ epc' = "guest"
        /\ UNCHANGED <<status, done, change, loaded>>
     \/ /\ Live(etask) /\ change[etask]
        /\ Loads(etask)
        /\ epc' = "guest"
        /\ UNCHANGED <<status, done>>
     \/ /\ Live(etask) /\ change[etask]
        /\ FailsToLoad(etask)
        /\ epc' = "suspending"
  /\ UNCHANGED <<closed, current, emuerr, stopping, owner, saved, ehook, loop,
                 queue, hpc, cpc>>

(* The deferred recover: the task is cancelled, hasSync stays set, and the  *)
(* hook returns to the guest                                                *)
SyncPanics ==
  /\ epc = "sync"
  /\ "panic" \in Env
  /\ Cancelled(etask)
  /\ epc' = "guest" /\ etask' = None
  /\ UNCHANGED <<manager, owner, regs, ehook, loop, queue, hpc, cpc>>

(* suspendTask: the rendezvous with the loop, or closed and back to the     *)
(* guest                                                                    *)
Suspend ==
  /\ epc = "suspending" /\ lpc = "top"
  /\ lpc' = "wait"
  /\ epc' = IF etask = None THEN "parked" ELSE "deliver"
  /\ UNCHANGED <<manager, tasks, etask, ehook, ltask, queue, hpc, cpc>>

(* Changed: the result of suspendTask is not looked at *)
SuspendClosedParks ==
  /\ epc = "suspending" /\ closed
  /\ epc' = "parked" /\ etask' = None
  /\ UNCHANGED <<manager, tasks, ehook, loop, queue, hpc, cpc>>

SuspendClosed ==
  /\ epc = "suspending" /\ closed
  /\ epc' = "guest" /\ etask' = None
  /\ UNCHANGED <<manager, tasks, ehook, loop, queue, hpc, cpc>>

(* async: the callback goes to the handler of the task, if it still has one *)
Deliver ==
  /\ epc = "deliver" /\ hpc[etask] = "recv"
  /\ hpc' = [hpc EXCEPT ![etask] = "fn"]
  /\ epc' = "parked" /\ etask' = None
  /\ UNCHANGED <<manager, tasks, ehook, loop, queue, cpc>>

DeliverDropped ==
  /\ epc = "deliver"
  /\ etask = Stale \/ done[TaskOf(etask)]
  /\ epc' = "parked" /\ etask' = None
  /\ UNCHANGED <<manager, tasks, ehook, loop, queue, hpc, cpc>>

(* emu.Start returns, because emu.Stop was called or with an error of its   *)
(* own; whichever task is current is cancelled                              *)
EmuReturns ==
  /\ epc = "guest"
  /\ emuerr' = TRUE
  /\ Cancelled(current)
  /\ current' = None
  /\ epc' = "exiting"
  /\ UNCHANGED <<closed, hasSync, stopping, owner, regs, etask, ehook, loop,
                 queue, hpc, cpc>>

EmuStops == stopping /\ EmuReturns
EmuFails == "emuFail" \in Env /\ EmuReturns

(* main.release; then stopped is closed and dtor may go on *)
ReleaseMain ==
  /\ epc = "exiting"
  /\ status' = [status EXCEPT ![Main] = Close]
  /\ done' = [done EXCEPT ![Main] = TRUE]
  /\ phase' = [phase EXCEPT ![Main] = IF @ = "resetting" THEN @ ELSE "closed"]
  /\ epc' = "dead"
  /\ UNCHANGED <<manager, runs, reuse, regs, etask, ehook, loop, queue, hpc,
                 cpc>>

-----------------------------------------------------------------------------
(* A handler: runner.loop and handle *)

HandlerExits(r) ==
  /\ hpc[r] = "recv"
  /\ r = Stale \/ done[TaskOf(r)]
  /\ hpc' = [hpc EXCEPT ![r] = "gone"]
  /\ UNCHANGED <<manager, tasks, emulator, loop, queue, cpc>>

(* The callback of the trap emu.Start began at closes the main task *)
BootClose ==
  /\ hpc[Main] = "fn" /\ phase[Main] = "boot"
  /\ status' = [status EXCEPT ![Main] = Close]
  /\ done' = [done EXCEPT ![Main] = TRUE]
  /\ phase' = [phase EXCEPT ![Main] = "closed"]
  /\ hpc' = [hpc EXCEPT ![Main] = "check"]
  /\ UNCHANGED <<manager, runs, reuse, regs, emulator, loop, queue, cpc>>

InCallback(r) == hpc[r] = "fn" /\ phase[Main] # "boot"

CallbackWrites(r) ==
  /\ InCallback(r)
  /\ change' = [change EXCEPT ![TaskOf(r)] = TRUE]
  /\ UNCHANGED <<manager, owner, life, saved, loaded, goroutines>>

CallbackReturns(r) ==
  /\ InCallback(r)
  /\ hpc' = [hpc EXCEPT ![r] = "check"]
  /\ UNCHANGED <<manager, tasks, emulator, loop, queue, cpc>>

(* The callback ends the task (the trap at its return address, an interrupt *)
(* or fault nobody handles): updateStatus compares, then writes             *)
CallbackCancels(r) ==
  /\ InCallback(r)
  /\ IF Live(TaskOf(r))
     THEN /\ hpc' = [hpc EXCEPT ![r] = "cancel"]
          /\ UNCHANGED done
     ELSE /\ hpc' = [hpc EXCEPT ![r] = "check"]
          /\ done' = [done EXCEPT ![TaskOf(r)] = TRUE]
  /\ UNCHANGED <<manager, owner, status, regs, emulator, loop, queue, cpc>>

CancelWrites(r) ==
  /\ hpc[r] = "cancel"
  /\ status' = [status EXCEPT ![TaskOf(r)] = Done]
  /\ done' = [done EXCEPT ![TaskOf(r)] = TRUE]
  /\ hpc' = [hpc EXCEPT ![r] = "check"]
  /\ UNCHANGED <<manager, owner, regs, emulator, loop, queue, cpc>>

(* handle recovers, cancels the task and does not queue it *)
CallbackPanics(r) ==
  /\ InCallback(r)
  /\ "panic" \in Env
  /\ Cancelled(TaskOf(r))
  /\ hpc' = [hpc EXCEPT ![r] = "recv"]
  /\ UNCHANGED <<manager, owner, regs, emulator, loop, queue, cpc>>

(* After the callback handle looks at the status, and queues the task again *)
(* unless it is done: the select of runTask, or a cancel if the emulator is *)
(* gone                                                                     *)
Requeue(r) ==
  /\ hpc[r] = "check" /\ Live(TaskOf(r)) /\ ~emuerr
  /\ hpc' = [hpc EXCEPT ![r] = "offer"]
  /\ UNCHANGED <<manager, tasks, emulator, loop, queue, cpc>>

RequeueRefused(r) ==
  /\ hpc[r] = "check" /\ Live(TaskOf(r)) /\ emuerr
  /\ Cancelled(TaskOf(r))
  /\ hpc' = [hpc EXCEPT ![r] = "recv"]
  /\ UNCHANGED <<manager, owner, regs, emulator, loop, queue, cpc>>

HandleReturns(r) ==
  /\ \/ hpc[r] = "check" /\ ~Live(TaskOf(r))
     \/ hpc[r] = "offer" /\ (closed \/ done[TaskOf(r)])
  /\ hpc' = [hpc EXCEPT ![r] = "recv"]
  /\ UNCHANGED <<manager, tasks, emulator, loop, queue, cpc>>

-----------------------------------------------------------------------------
(* mainThreadRun: work that must not meet running guest code *)

CallMainThread(c) ==
  /\ cpc[c] = "idle"
  /\ cpc' = [cpc EXCEPT ![c] = IF current = None \/ hasSync
                               THEN "direct" ELSE "waiting"]
  /\ UNCHANGED <<manager, tasks, emulator, loop, queue, hpc>>

(* Changed: mainThreadRun has no case for closed *)
CallerIgnoresClosed(c) == FALSE

CallerClosed(c) ==
  /\ cpc[c] = "waiting" /\ closed
  /\ cpc' = [cpc EXCEPT ![c] = "direct"]
  /\ UNCHANGED <<manager, tasks, emulator, loop, queue, hpc>>

(* The rendezvous on exec, inside resumeTask *)
ServeExec(c) ==
  /\ cpc[c] = "waiting" /\ epc = "parked"
  /\ cpc' = [cpc EXCEPT ![c] = "served"]
  /\ epc' = "exec"
  /\ UNCHANGED <<manager, tasks, etask, ehook, loop, queue, hpc>>

ExecReturns(c) ==
  /\ cpc[c] = "served" /\ epc = "exec"
  /\ cpc' = [cpc EXCEPT ![c] = "idle"]
  /\ epc' = "parked"
  /\ UNCHANGED <<manager, tasks, etask, ehook, loop, queue, hpc>>

DirectReturns(c) ==
  /\ cpc[c] = "direct"
  /\ cpc' = [cpc EXCEPT ![c] = "idle"]
  /\ UNCHANGED <<manager, tasks, emulator, loop, queue, hpc>>

-----------------------------------------------------------------------------
Client ==
  \/ GetMainTask \/ ResetMain \/ Shutdown
  \/ \E t \in All : CreateTask(t) \/ Run(t) \/ CloseTask(t)
                      \/ CancelTask(t) \/ Deadline(t)

Runs ==
  \/ \E t \in All : RunRefused(t) \/ RunOffers(t)
  \/ \E r \in Runners : RunGivesUp(r)

Loop ==
  \/ LoopExit \/ LoopClosed
  \/ SkipRestore \/ Restore \/ RestoreFails
  \/ Resume
  \/ \E t \in All : Dispatch(t)

SyncCallback == SyncWrites \/ SyncCancels \/ SyncReturns \/ SyncPanics

Emulator ==
  \/ \E kind \in {"sync", "async"} : HookEnter(kind)
  \/ MarkRunning \/ SaveContext \/ SaveFails
  \/ SyncCallback
  \/ Suspend \/ SuspendClosed
  \/ Deliver \/ DeliverDropped
  \/ EmuStops \/ EmuFails \/ ReleaseMain

Handler(r) ==
  \/ HandlerExits(r)
  \/ CallbackWrites(r) \/ CallbackReturns(r)
  \/ CallbackCancels(r) \/ CancelWrites(r) \/ CallbackPanics(r)
  \/ Requeue(r) \/ RequeueRefused(r) \/ HandleReturns(r)

Caller(c) ==
  \/ CallMainThread(c) \/ CallerClosed(c)
  \/ ServeExec(c) \/ ExecReturns(c) \/ DirectReturns(c)

(* Every goroutine has returned after dtor: nothing is left to happen *)
Terminated ==
  /\ closed /\ epc = "dead" /\ lpc = "gone"
  /\ \A r \in Runners : hpc[r] = "gone" /\ offering[r] = 0
  /\ UNCHANGED vars

Next ==
  \/ Client \/ Runs \/ Loop \/ Emulator
  \/ BootClose
  \/ \E r \in Runners : Handler(r)
  \/ \E c \in Callers : Caller(c)
  \/ Terminated

Spec == Init /\ [][Next]_vars

-----------------------------------------------------------------------------
(* Fairness.  A goroutine that can take its next step takes it (the Go      *)
(* scheduler); callbacks and work given to mainThreadRun return.  Strong    *)
(* fairness where a select chooses at random among ready cases or where a   *)
(* channel keeps its waiting senders in order (dispatch, exec, resume), and *)
(* for the guest: code under a task always comes to an asynchronous hook,   *)
(* the trap at its return address if to no other.                           *)

RunFairness ==
  /\ \A t \in All : WF_vars(RunRefused(t) \/ RunOffers(t))
  /\ \A r \in Runners : WF_vars(RunGivesUp(r))

LoopFairness ==
  /\ SF_vars(LoopExit)
  /\ WF_vars(LoopClosed)
  /\ \A t \in All : SF_vars(Dispatch(t))
  /\ WF_vars(SkipRestore \/ Restore \/ RestoreFails)
  /\ SF_vars(Resume)

EmulatorFairness ==
  /\ SF_vars(HookEnter("async"))
  /\ WF_vars(MarkRunning)
  /\ WF_vars(SaveContext \/ SaveFails)
  /\ WF_vars(SyncReturns \/ SyncPanics)
  /\ WF_vars(Suspend \/ SuspendClosed)
  /\ WF_vars(Deliver \/ DeliverDropped)
  /\ SF_vars(EmuStops)
  /\ WF_vars(ReleaseMain)

HandlerFairness ==
  /\ WF_vars(BootClose)
  /\ \A r \in Runners :
       /\ WF_vars(HandlerExits(r))
       /\ WF_vars(CallbackReturns(r) \/ CallbackCancels(r) \/ CallbackPanics(r))
       /\ WF_vars(CancelWrites(r))
       /\ WF_vars(Requeue(r) \/ RequeueRefused(r) \/ HandleReturns(r))

CallerFairness ==
  \A c \in Callers :
    /\ WF_vars(CallerClosed(c)) /\ SF_vars(ServeExec(c))
    /\ WF_vars(ExecReturns(c) \/ DirectReturns(c))

Fairness ==
  /\ RunFairness /\ LoopFairness /\ EmulatorFairness
  /\ HandlerFairness /\ CallerFairness
  /\ WF_vars(ResetMain)

FairSpec == Spec /\ Fairness

-----------------------------------------------------------------------------
(* Properties *)

(* The types of the variables; the goroutines are where their code can be,  *)
(* and hold a task where the code uses one: tm.current until the emulator   *)
(* returns, a hook's task until it suspends.                                *)
TypeOK ==
  /\ closed \in BOOLEAN /\ hasSync \in BOOLEAN
  /\ emuerr \in BOOLEAN /\ stopping \in BOOLEAN
  /\ current \in All \cup {None}
  /\ phase \in [All -> {"none", "boot", "resetting", "held", "closed"}]
  /\ status \in [All -> Pending .. Close]
  /\ done \in [All -> BOOLEAN] /\ change \in [All -> BOOLEAN]
  /\ saved \in [All -> BOOLEAN]
  /\ runs \in [All -> Nat] /\ reuse \in Nat
  /\ loaded \in All \cup {None}
  /\ epc \in {"guest", "mark", "save", "sync", "suspending", "deliver",
             "parked", "exec", "exiting", "dead"}
  /\ etask \in Runners \cup {None}
  /\ ehook \in {"none", "sync", "async"}
  /\ lpc \in {"top", "wait", "restore", "resume", "gone"}
  /\ ltask \in All \cup {None}
  /\ starting \in [All -> Nat] /\ offering \in [Runners -> Nat]
  /\ hpc \in [Runners -> {"recv", "fn", "cancel", "check", "offer", "gone"}]
  /\ cpc \in [Callers -> {"idle", "waiting", "served", "direct"}]
  /\ epc \notin {"exiting", "dead"} => current \in All
  /\ epc \in {"mark", "save", "sync"} => etask \in All
  /\ epc = "deliver" => etask \in Runners
  /\ lpc = "restore" => ltask \in All

(* The emulator goroutine is between the guest and suspendTask *)
OnCpu == epc \in {"guest", "mark", "save", "sync", "suspending"}

(* suspend and resume pair up: the loop is between the two exactly while    *)
(* the emulator waits in resumeTask, or is about to.                        *)
HandoffAgrees ==
  lpc \in {"wait", "restore", "resume"} <=> epc \in {"deliver", "parked", "exec"}

(* While guest code runs for a task, the CPU holds the registers of that    *)
(* task: no switch goes without a restore (tm.current # task).              *)
GuestRunsAsCurrent ==
  OnCpu /\ current \in Tasks /\ Live(current) => loaded = current

(* Registers a callback or the owner wrote into a task's context are in the *)
(* CPU before the guest goes on as that task (isChange).                    *)
RegisterWritesApplied ==
  OnCpu /\ epc # "sync" /\ ~closed /\ current \in Tasks /\ Live(current)
    => ~change[current]

(* The registers of an unfinished task are in its context or in the CPU, no *)
(* matter which goroutines of which tasks have run since (contextSave).     *)
ProgressKept ==
  \A t \in Tasks : Live(t) => saved[t] \/ loaded = t

(* Until shutdown an unfinished task is in one place: queued once, with its *)
(* handler, with the loop, or on the CPU.  (For clients that call Run once.)*)
One(b) == IF b THEN 1 ELSE 0

Places(t) ==
  starting[t] + offering[t]
    + One(ltask = t)
    + One(hpc[t] \in {"fn", "cancel", "check", "offer"})
    + One(\/ OnCpu /\ current = t
          \/ epc = "deliver" /\ etask = t)

OnePlace ==
  ~closed => \A t \in Tasks : Live(t) => Places(t) <= 1

(* The status of a task only advances: a closed task stays closed, and no   *)
(* late updateStatus brings a finished one back.  (For owners that call Run *)
(* once, wait for the end of the task and then close it.)                   *)
StatusOnlyAdvances ==
  [][\A t \in Tasks : status'[t] >= status[t]]_vars

(* GetMainTask answers "running" while the main task is in use: when it     *)
(* hands the task out, the emulator does not run as it.                     *)
MainHandedOutIdle ==
  [][GetMainTask => ~(OnCpu /\ current = Main)]_vars

(* The scheduler hands out the CPU in turns.  A request is a run or handler *)
(* inside runTask, or the task the loop has taken and not yet resumed.      *)
Requests(t) ==
  starting[t] + offering[t] + One(hpc[t] = "offer") + One(ltask = t)
    + (IF t = Main THEN offering[Stale] + One(hpc[Stale] = "offer") ELSE 0)

Turns == INSTANCE CpuTurns WITH
  Tasks <- All, First <- Main,
  turn <- IF OnCpu THEN current ELSE None,
  requests <- [t \in All |-> Requests(t)],
  open <- ~closed

TurnsSpec == Turns!Spec

(* A task that waits in runTask is taken, or gives up because it is done or *)
(* the debugger is closed: no task starves behind the others.               *)
Waits(t) == offering[t] > 0 \/ hpc[t] = "offer"

Served == \A t \in All : Waits(t) ~> ~Waits(t)

(* Work given to mainThreadRun is done.                                     *)
CallersServed ==
  \A c \in Callers : cpc[c] = "waiting" ~> cpc[c] = "idle"

(* Close of the debugger, which waits for the emulator to stop, returns.    *)
ShutdownCompletes == closed ~> epc = "dead"
=============================================================================
