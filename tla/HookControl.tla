----------------------------- MODULE HookControl -----------------------------
(***************************************************************************)
(* Hooks and controls (internal/debugger/hook.go, TaskControl of arm64.go, *)
(* CallTaskOf of task.go).  A control is an address with a trap            *)
(* instruction, taken from channels of free ones, and an interrupt hook    *)
(* for the pc behind it.  CallTaskOf lets the guest of a task return to a  *)
(* control that ends the task.  Addresses count instructions.              *)
(***************************************************************************)
EXTENDS Integers, Sequences, FiniteSets

CONSTANTS
  Tasks,        (* each is given a control and closed                      *)
  UserHooks,    (* hooks of the user, each for one kind of event           *)
  KindOf,       (* the kind of every user hook                             *)
  Done,         (* the user hooks that return HookResult_Done              *)
  Count,        (* trap instructions in a region                           *)
  Regions,      (* bound: how many regions are mapped                      *)
  GuestCode,    (* where guest code raises an event, behind every region   *)
  Serial,       (* whether AddControl is called by one goroutine at a time *)
  MaxCloses     (* bound: how often a control is closed                    *)

VARIABLES
  regions,      (* how many regions are mapped                             *)
  queue,        (* the channel of each region: free trap addresses         *)
  ctrlAddrs,    (* the regions whose channels are listed                   *)
  ctrlRange,    (* the regions whose range isControl knows                 *)
  hooks,        (* the tasks whose control, and the user hooks, are called *)
  at,           (* where each task is in CallTaskOf and Close              *)
  addr,         (* the address of the control of each task                 *)
  seen,         (* the list a task has read in order to append to it       *)
  closes,       (* how often the control of each task was closed           *)
  trap,         (* the event of each task's guest that is to be handled    *)
  result        (* how each task has ended                                 *)

vars == <<regions, queue, ctrlAddrs, ctrlRange, hooks, at, addr, seen, closes,
          trap, result>>

Kinds == {"intr", "insn", "mem"}
Base(r) == r * (Count + 3)
Slots(r) == {Base(r) + i : i \in 0 .. Count - 1}
NoTrap == [kind |-> "none", pc |-> 0]

Init ==
  /\ regions = 0
  /\ queue = [r \in 1 .. Regions |-> << >>]
  /\ ctrlAddrs = << >> /\ ctrlRange = << >>
  /\ hooks = {}
  /\ at = [t \in Tasks |-> "new"]
  /\ addr = [t \in Tasks |-> 0]
  /\ seen = [t \in Tasks |-> << >>]
  /\ closes = [t \in Tasks |-> 0]
  /\ trap = [t \in Tasks |-> NoTrap]
  /\ result = [t \in Tasks |-> "none"]

Move(t, from, to) == at[t] = from /\ at' = [at EXCEPT ![t] = to]

Adding(t) == at[t] \in {"take", "list", "listed", "range", "ranged", "hook"}

-----------------------------------------------------------------------------
(* addControl *)

AddControl(t) ==
  /\ Move(t, "new", "take")
  /\ Serial => \A u \in Tasks : ~Adding(u)
  /\ UNCHANGED <<regions, queue, ctrlAddrs, ctrlRange, hooks, addr, seen, closes,
                 trap, result>>

Empty(r) == queue[r] = << >>

(* ctrlAddrAlloc: the first listed channel that has an address *)
TakeAddr(t) ==
  /\ Move(t, "take", "hook")
  /\ \E i \in DOMAIN ctrlAddrs :
       LET r == ctrlAddrs[i] IN
       /\ ~Empty(r) /\ \A j \in 1 .. i - 1 : Empty(ctrlAddrs[j])
       /\ addr' = [addr EXCEPT ![t] = Head(queue[r])]
       /\ queue' = [queue EXCEPT ![r] = Tail(@)]
  /\ UNCHANGED <<regions, ctrlAddrs, ctrlRange, hooks, seen, closes, trap, result>>

(* allocCtrlAddrs: a region of traps is mapped and its channel filled ...   *)
MapRegion(t) ==
  /\ Move(t, "take", "list")
  /\ \A i \in DOMAIN ctrlAddrs : Empty(ctrlAddrs[i])
  /\ regions < Regions
  /\ regions' = regions + 1
  /\ addr' = [addr EXCEPT ![t] = regions + 1]
  /\ queue' = [queue EXCEPT ![regions + 1] =
                 [i \in 1 .. Count |-> Base(regions + 1) + i - 1]]
  /\ UNCHANGED <<ctrlAddrs, ctrlRange, hooks, seen, closes, trap, result>>

(* ... then appended to both lists, which no lock protects: an append reads *)
(* the list and writes it                                                   *)
ReadList(t) ==
  /\ \/ Move(t, "list", "listed") /\ seen' = [seen EXCEPT ![t] = ctrlAddrs]
     \/ Move(t, "range", "ranged") /\ seen' = [seen EXCEPT ![t] = ctrlRange]
  /\ UNCHANGED <<regions, queue, ctrlAddrs, ctrlRange, hooks, addr, closes, trap,
                 result>>

WriteAddrs(t) ==
  /\ Move(t, "listed", "range")
  /\ ctrlAddrs' = Append(seen[t], addr[t])
  /\ UNCHANGED <<regions, queue, ctrlRange, hooks, addr, seen, closes, trap, result>>

WriteRange(t) ==
  /\ Move(t, "ranged", "take")
  /\ ctrlRange' = Append(seen[t], addr[t])
  /\ UNCHANGED <<regions, queue, ctrlAddrs, hooks, addr, seen, closes, trap, result>>

(* addHook of the control; its guest starts, to return to the control *)
StoreControl(t) ==
  /\ Move(t, "hook", "open")
  /\ hooks' = hooks \cup {t}
  /\ UNCHANGED <<regions, queue, ctrlAddrs, ctrlRange, addr, seen, closes, trap,
                 result>>

-----------------------------------------------------------------------------
(* Close of a task: the hook goes first, then the address comes back, then  *)
(* the task is cancelled                                                    *)

CloseHook(t) ==
  /\ at[t] \in {"open", "closed"} /\ closes[t] < MaxCloses
  /\ at' = [at EXCEPT ![t] = "free"]
  /\ closes' = [closes EXCEPT ![t] = @ + 1]
  /\ hooks' = hooks \ {t}
  /\ UNCHANGED <<regions, queue, ctrlAddrs, ctrlRange, addr, seen, trap, result>>

Room(r) == Len(queue[r]) < Count

(* Changed: only the channel of the last region takes addresses back *)
FreeToLast(a) ==
  queue' = IF Room(Len(ctrlAddrs))
           THEN [queue EXCEPT ![Len(ctrlAddrs)] = Append(@, a)] ELSE queue

(* ctrlAddrFree: the first channel with room; without one it is dropped *)
CtrlAddrFree(a) ==
  LET S == {i \in DOMAIN ctrlAddrs : Room(ctrlAddrs[i])} IN
  queue' = IF S = {} THEN queue
           ELSE LET i == CHOOSE i \in S : \A j \in S : i <= j
                IN  [queue EXCEPT ![ctrlAddrs[i]] = Append(@, a)]

CloseAddr(t) ==
  /\ Move(t, "free", "cancel")
  /\ CtrlAddrFree(addr[t])
  /\ UNCHANGED <<regions, ctrlAddrs, ctrlRange, hooks, addr, seen, closes, trap,
                 result>>

Cancel(t) ==
  /\ Move(t, "cancel", "closed")
  /\ result' = [result EXCEPT ![t] = IF @ = "none" THEN "closed" ELSE @]
  /\ UNCHANGED <<regions, queue, ctrlAddrs, ctrlRange, hooks, addr, seen, closes, trap>>

-----------------------------------------------------------------------------
(* addHook and Close of the user's hooks *)

AddHook(h) ==
  /\ h \notin hooks
  /\ hooks' = hooks \cup {h}
  /\ UNCHANGED <<regions, queue, ctrlAddrs, ctrlRange, at, addr, seen, closes, trap,
                 result>>

CloseUserHook(h) ==
  /\ h \in hooks
  /\ hooks' = hooks \ {h}
  /\ UNCHANGED <<regions, queue, ctrlAddrs, ctrlRange, at, addr, seen, closes, trap,
                 result>>

-----------------------------------------------------------------------------
(* Events.  The pc is behind the instruction of an interrupt.               *)

Live(t) == at[t] \in {"open", "free", "cancel"} /\ result[t] = "none"

Raise(t, e) ==
  /\ Live(t) /\ trap[t] = NoTrap
  /\ trap' = [trap EXCEPT ![t] = e]
  /\ UNCHANGED <<regions, queue, ctrlAddrs, ctrlRange, hooks, at, addr, seen,
                 closes, result>>

OwnTrap(t) == [kind |-> "intr", pc |-> addr[t] + 1]

ReturnToControl(t) == Raise(t, OwnTrap(t))

GuestEvent(t) ==
  \E g \in GuestCode, kind \in Kinds : Raise(t, [kind |-> kind, pc |-> g + 1])

(* Changed: the upper bound of a region is not looked at *)
IsControlAbove(pc) == \E i \in DOMAIN ctrlRange : pc > Base(ctrlRange[i])

(* The range of a region ends one instruction behind its last trap *)
IsControl(pc) ==
  \E i \in DOMAIN ctrlRange :
    /\ pc > Base(ctrlRange[i])
    /\ pc <= Base(ctrlRange[i]) + Count + 1

(* valid: hooks of the user have no range (begin > end) *)
Valid(h, e) ==
  IF h \in Tasks THEN e = OwnTrap(h)
  ELSE e.kind = KindOf[h] /\ ~(e.kind = "intr" /\ IsControl(e.pc))

(* The hooks that may be the one that ends the dispatch: Range has any      *)
(* order, and a control returns Done                                        *)
Answers(e) == {h \in hooks \cap (Tasks \cup Done) : Valid(h, e)}

(* Changed: TaskControl does not compare the contexts *)
ControlEndsItsTask(t, h) ==
  result' = [result EXCEPT ![h] = IF @ = "none" THEN "done" ELSE @]

(* TaskControl's callback, on the trap of t: it panics for another task,    *)
(* which ends t                                                             *)
ControlCalled(t, h) ==
  result' = [result EXCEPT ![t] = IF @ # "none" THEN @
                                  ELSE IF h = t THEN "done" ELSE "exception"]

(* handleInterrupt, handleInvalid and handleMemory, on the goroutine of the *)
(* task.  Guest code goes on after a hook of the user; behind a trap it has *)
(* gone astray.                                                             *)
Dispatch(t) ==
  /\ trap[t] # NoTrap
  /\ trap' = [trap EXCEPT ![t] = NoTrap]
  /\ \/ \E h \in Answers(trap[t]) \cap Tasks : ControlCalled(t, h)
     \/ /\ Answers(trap[t]) \cap UserHooks # {}
        /\ result' = IF trap[t] = OwnTrap(t)
                     THEN [result EXCEPT ![t] = "astray"] ELSE result
     \/ /\ Answers(trap[t]) = {}
        /\ result' = [result EXCEPT ![t] = IF @ = "none" THEN "exception" ELSE @]
  /\ UNCHANGED <<regions, queue, ctrlAddrs, ctrlRange, hooks, at, addr, seen, closes>>

-----------------------------------------------------------------------------
Next ==
  \/ \E t \in Tasks :
       \/ AddControl(t) \/ TakeAddr(t) \/ MapRegion(t)
       \/ ReadList(t) \/ WriteAddrs(t) \/ WriteRange(t) \/ StoreControl(t)
       \/ CloseHook(t) \/ CloseAddr(t) \/ Cancel(t)
       \/ ReturnToControl(t) \/ GuestEvent(t) \/ Dispatch(t)
  \/ \E h \in UserHooks : AddHook(h) \/ CloseUserHook(h)

Spec == Init /\ [][Next]_vars

-----------------------------------------------------------------------------
(* Properties *)

Holds(t) == at[t] \in {"hook", "open"} \/ (at[t] = "free" /\ closes[t] = 1)

Copies(a) ==
  Cardinality({t \in Tasks : Holds(t) /\ addr[t] = a})
    + Cardinality({p \in (1 .. Regions) \X (1 .. Count) :
                     p[2] <= Len(queue[p[1]]) /\ queue[p[1]][p[2]] = a})

(* Every trap address is in one channel or with one control, wherever       *)
(* ctrlAddrFree puts it: none is given out twice and none is lost.          *)
AddrsAccounted ==
  \A r \in 1 .. regions : \A a \in Slots(r) : Copies(a) = 1

(* A task whose guest returns to its control while the control is open ends *)
(* as done: no other hook takes the trap, it is never an exception.         *)
ReturnEndsTask ==
  [][\A t \in Tasks :
       trap[t] = OwnTrap(t) /\ trap'[t] = NoTrap /\ at[t] = "open" =>
         result'[t] = "done"]_vars

(* A task ends as done only when its own guest has returned: a trap that is *)
(* handled after its control was closed and the address given to another    *)
(* task does not end that task.                                             *)
EndedByOwnReturn ==
  [][\A t \in Tasks :
       result'[t] = "done" /\ result[t] # "done" => trap[t] = OwnTrap(t)]_vars

(* An event of guest code is not an exception while a hook of the user that *)
(* handles its kind is there, wherever the code lies.                       *)
GuestServed ==
  [][\A t \in Tasks, h \in Done :
       /\ trap[t] # NoTrap /\ trap'[t] = NoTrap
       /\ trap[t].pc - 1 \in GuestCode
       /\ h \in hooks /\ KindOf[h] = trap[t].kind
       => result'[t] # "exception" \/ result[t] = "exception"]_vars
=============================================================================
