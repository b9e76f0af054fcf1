----------------------------- MODULE ContextPool -----------------------------
(***************************************************************************)
(* The contexts of tasks (internal/debugger/task.go, runner.go, main.go):  *)
(* saved registers and a stack, allocated once and handed from task to     *)
(* task by the goroutine collection.  allocTaskContext, freeTaskContext    *)
(* and collection meet on one channel without a buffer, on which           *)
(* collection both sends and receives.  Of the scheduler there is only     *)
(* what it does to the context of the task on the CPU.                     *)
(***************************************************************************)
EXTENDS Integers, Sequences, FiniteSets

CONSTANTS
  Tasks,      (* tasks that are created, or forked                         *)
  Main,       (* the main task                                             *)
  Contexts,   (* the taskContext objects (bound: how many)                 *)
  Nil,
  Calm,       (* whether owners close a task once, off the CPU and after   *)
              (* its forks                                                 *)
  Prompt      (* whether collection has begun before Close, and ended      *)
              (* before Close comes to its contexts                        *)

ASSUME PoolAssumption ==
  /\ Main \notin Tasks /\ Nil \notin Contexts
  /\ Contexts # {}

VARIABLES
  current,    (* collection: the context it offers, or Nil                 *)
  spare,      (* collection: the other free contexts                       *)
  got,        (* collection: a context received and not stored yet         *)
  collection, (* "start", "select" or "ended"                              *)
  at,         (* where each task is in its life                            *)
  ctx,        (* taskCtx of each task                                      *)
  family,     (* the task a task and its forks descend from                *)
  done,       (* the tasks that are cancelled                              *)
  stack,      (* whose stack a context has: its own, or a clone's original *)
  regs,       (* the task whose registers a context holds                  *)
  released,   (* how often dtor of the context has run                     *)
  cpu,        (* the task on the CPU, the registers it has, and its step   *)
  closed,     (* tm.closed                                                 *)
  freed       (* how far Close is with what collection keeps               *)

pool == <<current, spare, got, collection>>
tasks == <<at, ctx, family, done>>
objects == <<stack, regs, released>>
vars == <<pool, tasks, objects, cpu, closed, freed>>

All == Tasks \cup {Main}
Idle == [task |-> Nil, regs |-> Nil, step |-> "idle"]
Unused(c) == stack[c] = Nil
Clone(c) == stack[c] # c
(* Any context that was not made yet: nothing tells them apart *)
CanMake == \E c \in Contexts : Unused(c)
Made == CHOOSE c \in Contexts : Unused(c)

(* The main task has its context before collection runs *)
Init ==
  /\ current = Nil /\ spare = << >> /\ got = Nil /\ collection = "start"
  /\ at = [t \in All |-> IF t = Main THEN "live" ELSE "new"]
  /\ LET c == CHOOSE c \in Contexts : TRUE IN
       /\ ctx = [t \in All |-> IF t = Main THEN c ELSE Nil]
       /\ stack = [d \in Contexts |-> IF d = c THEN c ELSE Nil]
       /\ regs = [d \in Contexts |-> IF d = c THEN Main ELSE Nil]
  /\ family = [t \in All |-> t]
  /\ done = {}
  /\ released = [c \in Contexts |-> 0]
  /\ cpu = Idle
  /\ closed = FALSE /\ freed = "no"

Move(t, from, to) == at[t] = from /\ at' = [at EXCEPT ![t] = to]

-----------------------------------------------------------------------------
(* collection *)

(* Its release is appended to tm.releases by the goroutine itself *)
CollectionStarts ==
  /\ collection = "start"
  /\ collection' = "select"
  /\ UNCHANGED <<current, spare, got, tasks, objects, cpu, closed, freed>>

Ready == collection = "select" /\ got = Nil

Store ==
  /\ got # Nil
  /\ IF current = Nil THEN current' = got /\ UNCHANGED spare
     ELSE spare' = Append(spare, got) /\ UNCHANGED current
  /\ got' = Nil
  /\ UNCHANGED <<collection, tasks, objects, cpu, closed, freed>>

CollectionEnds ==
  /\ Ready /\ closed
  /\ collection' = "ended"
  /\ UNCHANGED <<current, spare, got, tasks, objects, cpu, closed, freed>>

-----------------------------------------------------------------------------
(* createTask *)

Create(t) ==
  /\ Move(t, "new", "alloc")
  /\ UNCHANGED <<pool, ctx, family, done, objects, cpu, closed, freed>>

AllocClosed(t) ==
  /\ closed
  /\ Move(t, "alloc", "closed")
  /\ UNCHANGED <<pool, ctx, family, done, objects, cpu, closed, freed>>

(* collection sends current, and offers the last of the others next *)
Offered ==
  /\ Ready
  /\ IF spare = << >> THEN current' = Nil /\ UNCHANGED spare
     ELSE /\ current' = spare[Len(spare)]
          /\ spare' = SubSeq(spare, 1, Len(spare) - 1)

(* newTask makes a context when it gets none *)
AllocContext(t) ==
  /\ Offered
  /\ Move(t, "alloc", "init")
  /\ current = Nil => CanMake
  /\ LET c == IF current = Nil THEN Made ELSE current IN
       /\ ctx' = [ctx EXCEPT ![t] = c]
       /\ stack' = [stack EXCEPT ![c] = IF current = Nil THEN c ELSE @]
  /\ UNCHANGED <<got, collection, family, done, regs, released, cpu, closed, freed>>

(* allocTaskContext may meet freeTaskContext instead of collection *)
AllocFreed(t, u) ==
  /\ at[t] = "alloc" /\ at[u] = "free" /\ ~Clone(ctx[u])
  /\ at' = [at EXCEPT ![t] = "init", ![u] = "closed"]
  /\ ctx' = [ctx EXCEPT ![t] = ctx[u]]
  /\ UNCHANGED <<pool, family, done, objects, cpu, closed, freed>>

(* Changed: only the registers of a new context are written *)
InitNewRegs(t) ==
  /\ Move(t, "init", "live")
  /\ regs' = [regs EXCEPT ![ctx[t]] = IF @ = Nil THEN t ELSE @]
  /\ UNCHANGED <<pool, ctx, family, done, stack, released, cpu, closed, freed>>

(* The registers are written: the stack pointer by newTask, the rest by     *)
(* CallTaskOf                                                               *)
InitRegs(t) ==
  /\ Move(t, "init", "live")
  /\ regs' = [regs EXCEPT ![ctx[t]] = t]
  /\ UNCHANGED <<pool, ctx, family, done, stack, released, cpu, closed, freed>>

(* The first Save of a new context fails: it is freed *)
SaveFails(t) ==
  /\ Move(t, "init", "free")
  /\ regs[ctx[t]] = Nil
  /\ UNCHANGED <<pool, ctx, family, done, objects, cpu, closed, freed>>

(* Fork clones the registers and keeps the stack *)
Fork(t, u) ==
  /\ at[t] = "live"
  /\ Move(u, "new", "live")
  /\ family' = [family EXCEPT ![u] = family[t]]
  /\ CanMake
  /\ ctx' = [ctx EXCEPT ![u] = Made]
  /\ stack' = [stack EXCEPT ![Made] = stack[ctx[t]]]
  /\ regs' = [regs EXCEPT ![Made] = u]
  /\ UNCHANGED <<pool, done, released, cpu, closed, freed>>

-----------------------------------------------------------------------------
(* The scheduler: a dispatch restores the context, a hook saves it          *)

Restore(t) ==
  /\ at[t] = "live" /\ t \notin done /\ cpu = Idle /\ ~closed
  /\ cpu' = [task |-> t, regs |-> regs[ctx[t]], step |-> "guest"]
  /\ UNCHANGED <<pool, tasks, objects, closed, freed>>

(* A hook looks at the status first ... *)
Hook ==
  /\ cpu.step = "guest"
  /\ cpu' = IF cpu.task \in done THEN Idle ELSE [cpu EXCEPT !.step = "save"]
  /\ UNCHANGED <<pool, tasks, objects, closed, freed>>

(* ... and saves then *)
Save ==
  /\ cpu.step = "save"
  /\ regs' = [regs EXCEPT ![ctx[cpu.task]] = cpu.regs]
  /\ cpu' = Idle
  /\ UNCHANGED <<pool, tasks, stack, released, closed, freed>>

-----------------------------------------------------------------------------
(* Close of a task: it is cancelled, its context is freed, its status comes *)
(* last                                                                     *)

Closable(t) ==
  IF Calm
  THEN /\ at[t] = "live" /\ cpu.task # t
       /\ \A u \in All : u # t /\ family[u] = t => at[u] = "closed"
  ELSE at[t] = "live" \/ (at[t] = "closed" /\ ctx[t] # Nil)

CloseTask(t) ==
  /\ Closable(t)
  /\ at' = [at EXCEPT ![t] = "free"]
  /\ done' = done \cup {t}
  /\ UNCHANGED <<pool, ctx, family, objects, cpu, closed, freed>>

Dtor(c) == released' = [released EXCEPT ![c] = @ + 1]

(* Changed: a clone goes to collection as any context *)
FreeAny(t) ==
  /\ Ready
  /\ Move(t, "free", "closed")
  /\ got' = ctx[t]
  /\ UNCHANGED <<current, spare, collection, ctx, family, done, objects, cpu, closed,
                 freed>>

FreeToCollection(t) ==
  /\ Ready
  /\ Move(t, "free", "closed")
  /\ ~Clone(ctx[t])
  /\ got' = ctx[t]
  /\ UNCHANGED <<current, spare, collection, ctx, family, done, objects, cpu, closed,
                 freed>>

(* Changed: freeTaskContext does not look at closed *)
FreeClones(t) ==
  /\ Move(t, "free", "closed")
  /\ Clone(ctx[t])
  /\ Dtor(ctx[t])
  /\ UNCHANGED <<pool, ctx, family, done, stack, regs, cpu, closed, freed>>

(* A clone is destroyed at once, any other after closed *)
FreeDestroyed(t) ==
  /\ Move(t, "free", "closed")
  /\ Clone(ctx[t]) \/ closed
  /\ Dtor(ctx[t])
  /\ UNCHANGED <<pool, ctx, family, done, stack, regs, cpu, closed, freed>>

-----------------------------------------------------------------------------
(* Close of the debugger: dtor ranges over the releases there are, waits    *)
(* for the emulator's goroutine, then destroys what collection keeps        *)

Shutdown ==
  /\ ~closed
  /\ Prompt => collection # "start"
  /\ closed' = TRUE
  /\ freed' = IF collection = "start" THEN "skipped" ELSE "waits"
  /\ UNCHANGED <<pool, tasks, objects, cpu>>

(* main.release, when the emulator has returned; by itself it does so only  *)
(* in a failure, which is left out here                                     *)
ReleaseMain ==
  /\ closed /\ cpu = Idle
  /\ Move(Main, "live", "free")
  /\ done' = done \cup {Main}
  /\ UNCHANGED <<pool, ctx, family, objects, cpu, closed, freed>>

(* The emulator is stopped wherever the guest is *)
Stop ==
  /\ closed /\ cpu # Idle
  /\ cpu' = Idle
  /\ UNCHANGED <<pool, tasks, objects, closed, freed>>

(* Changed: only the context that is offered is destroyed *)
FreeOffered ==
  /\ freed = "waits" /\ at[Main] = "closed"
  /\ Prompt => collection = "ended"
  /\ freed' = "done"
  /\ released' = [c \in Contexts |-> released[c] + IF c = current THEN 1 ELSE 0]
  /\ UNCHANGED <<pool, tasks, stack, regs, cpu, closed>>

Kept == ({current} \ {Nil}) \cup {spare[i] : i \in DOMAIN spare}

FreePool ==
  /\ freed = "waits" /\ at[Main] = "closed"
  /\ Prompt => collection = "ended"
  /\ freed' = "done"
  /\ released' = [c \in Contexts |-> released[c] + IF c \in Kept THEN 1 ELSE 0]
  /\ UNCHANGED <<pool, tasks, stack, regs, cpu, closed>>

-----------------------------------------------------------------------------
Meets(t) ==
  \/ AllocContext(t) \/ AllocClosed(t) \/ FreeToCollection(t) \/ FreeDestroyed(t)
  \/ \E u \in All : AllocFreed(t, u) \/ AllocFreed(u, t)

Collect == CollectionStarts \/ Store \/ CollectionEnds

Next ==
  \/ Collect
  \/ \E t \in All : Meets(t) \/ Restore(t)
  \/ \E t \in Tasks :
       \/ Create(t) \/ InitRegs(t) \/ SaveFails(t) \/ CloseTask(t)
       \/ \E u \in All : Fork(u, t)
  \/ Hook \/ Save \/ Stop
  \/ Shutdown \/ ReleaseMain \/ FreePool

Spec == Init /\ [][Next]_vars

(* Goroutines run, and a channel serves those who wait in order *)
Fairness ==
  /\ WF_vars(Collect)
  /\ \A t \in All : SF_vars(Meets(t))

-----------------------------------------------------------------------------
(* Properties *)

InUse(t) == at[t] \in {"init", "live"}

(* A context belongs to one task or to collection, once: no meeting on the  *)
(* channel gives it to two.                                                 *)
ContextsApart ==
  /\ \A t, u \in All : t # u /\ InUse(t) /\ InUse(u) => ctx[t] # ctx[u]
  /\ \A t \in All : InUse(t) => ctx[t] \notin Kept \cup {got}
  /\ got = Nil \/ got \notin Kept
  /\ Cardinality(Kept) = Len(spare) + IF current = Nil THEN 0 ELSE 1

(* Two tasks share a stack only if they descend from one by Fork: a fork's  *)
(* context never comes back as that of a new task.  (After closed no guest  *)
(* code runs, and the main task is freed before its forks.)                 *)
StacksApart ==
  ~closed =>
    \A t, u \in All :
      InUse(t) /\ InUse(u) /\ stack[ctx[t]] = stack[ctx[u]] =>
        family[t] = family[u]

(* Guest code of a task that is not cancelled runs with the registers of    *)
(* that task, whoever had the context before.                               *)
OwnRegisters ==
  cpu.step = "guest" /\ cpu.task \notin done => cpu.regs = cpu.task

(* A context is destroyed at most once, and not while a task has it.        *)
ReleasedOnce ==
  \A c \in Contexts :
    released[c] <= 1 /\ (released[c] = 1 => \A t \in All : InUse(t) => ctx[t] # c)

(* createTask and Close return, before and after Close of the debugger.     *)
CallersReturn ==
  \A t \in All : at[t] \in {"alloc", "free"} ~> at[t] \notin {"alloc", "free"}

(* When Close has returned and every task is closed, every context was      *)
(* destroyed.                                                               *)
NoneLeft ==
  /\ freed \in {"done", "skipped"} /\ collection = "ended"
  /\ \A t \in All : at[t] \in {"new", "closed"}
  => \A c \in Contexts : Unused(c) \/ released[c] > 0
=============================================================================
