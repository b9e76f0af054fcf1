------------------------- MODULE ContextPoolProofs -------------------------
(***************************************************************************)
(* Proofs about ContextPool, for any sets of tasks and contexts: what is   *)
(* true of contexts as long as owners close a task once, off the CPU and   *)
(* after its forks (Calm).                                                 *)
(***************************************************************************)
EXTENDS MCResources, FiniteSetTheorems, SequenceTheorems, TLAPS

States == {"new", "alloc", "init", "live", "free", "closed"}

(* From newTask, or AllocContext, until freeTaskContext is through *)
Holds(t) == at[t] \in {"init", "live", "free"}

InPool(c) == c = current \/ c = got \/ \E i \in 1 .. Len(spare) : spare[i] = c

TypeOK ==
  /\ current \in Contexts \cup {Nil} /\ got \in Contexts \cup {Nil}
  /\ spare \in Seq(Contexts)
  /\ collection \in {"start", "select", "ended"}
  /\ at \in [All -> States] /\ ctx \in [All -> Contexts \cup {Nil}]
  /\ family \in [All -> All] /\ done \subseteq All
  /\ stack \in [Contexts -> Contexts \cup {Nil}]
  /\ regs \in [Contexts -> All \cup {Nil}]
  /\ released \in [Contexts -> Nat]
  /\ cpu \in [task : All \cup {Nil}, regs : All \cup {Nil},
              step : {"idle", "guest", "save"}]
  /\ closed \in BOOLEAN /\ freed \in {"no", "waits", "done", "skipped"}
  /\ \A t \in All : Holds(t) => ctx[t] \in Contexts

(* Collection has a context once.                                           *)
PoolApart ==
  /\ got # Nil => got # current /\ \A i \in 1 .. Len(spare) : spare[i] # got
  /\ \A i \in 1 .. Len(spare) : spare[i] # current
  /\ \A i, j \in 1 .. Len(spare) : i # j => spare[i] # spare[j]

(* Every context that was made is in one place at most.                     *)
Apart ==
  /\ PoolApart
  /\ \A t, u \in All : t # u /\ Holds(t) /\ Holds(u) => ctx[t] # ctx[u]
  /\ \A t \in All : Holds(t) => ~InPool(ctx[t])
  /\ \A c \in Contexts :
       Unused(c) => ~InPool(c) /\ \A t \in All : Holds(t) => ctx[t] # c

(* A stack belongs to the task a family descends from, which is there as    *)
(* long as its forks are; the pool has no clones.                           *)
Stacks ==
  /\ \A c \in Contexts : InPool(c) => stack[c] = c
  /\ \A t \in All : at[t] \in {"new", "alloc"} => family[t] = t
  /\ ~closed =>
       \A t \in All : Holds(t) =>
         /\ stack[ctx[t]] = ctx[family[t]]
         /\ family[t] # t => at[family[t]] = "live"
         /\ family[family[t]] = family[t]

(* The registers of a task are in its context, or on the CPU, unmixed.      *)
Own ==
  /\ \A t \in All : at[t] = "live" => regs[ctx[t]] = t
  /\ cpu.step # "idle" =>
       cpu.task \in All /\ at[cpu.task] = "live" /\ cpu.regs = cpu.task

(* A context that was destroyed is nowhere, but for what collection kept.   *)
Gone ==
  /\ \A c \in Contexts : released[c] <= 1
  /\ \A c \in Contexts : released[c] = 1 =>
       /\ c # got /\ ~Unused(c) /\ (InPool(c) => freed = "done")
       /\ \A t \in All : Holds(t) => ctx[t] # c
  /\ freed = "done" =>
       collection = "ended" /\ \A c \in Contexts : InPool(c) => released[c] = 1
  /\ collection = "ended" => got = Nil
  /\ freed # "skipped" /\ (~closed => freed = "no")
  /\ \A c \in Contexts : ~Unused(c) =>
       InPool(c) \/ released[c] = 1 \/ \E t \in All : Holds(t) /\ ctx[t] = c

IInv == TypeOK /\ Apart /\ Stacks /\ Own

-----------------------------------------------------------------------------
(* The pool                                                                 *)

(* All but the last of a sequence                                           *)
LEMMA FrontLen ==
  ASSUME NEW S, NEW s \in Seq(S), NEW n \in Nat, n > 0, n = Len(s)
  PROVE  Len(SubSeq(s, 1, n - 1)) = n - 1
<1>1. PICK m \in Int : m = n - 1 /\ m >= 0
  OBVIOUS
<1>2. \A i \in 1 .. m : s[i] \in S
  BY <1>1
<1>3. Len(SubSeq(s, 1, m)) = IF 1 <= m THEN m - 1 + 1 ELSE 0
  BY <1>2, SubSeqProperties
<1>4. (IF 1 <= m THEN m - 1 + 1 ELSE 0) = m
  BY <1>1
<1>5. QED
  BY <1>1, <1>3, <1>4

(* A context received is stored with the others, and each once.             *)
LEMMA StorePool ==
  ASSUME TypeOK, PoolApart, Store
  PROVE  /\ current' \in Contexts \cup {Nil} /\ spare' \in Seq(Contexts)
         /\ PoolApart'
         /\ \A c \in Contexts : InPool(c)' <=> InPool(c)
<1>1. /\ got \in Contexts /\ got # Nil /\ got' = Nil /\ Len(spare) \in Nat
      /\ \A i \in 1 .. Len(spare) : spare[i] \in Contexts
  BY PoolAssumption DEF PoolAssumption, TypeOK, Store
<1>2. CASE current = Nil
  <2>1. current' = got /\ spare' = spare
    BY <1>2 DEF Store
  <2>2. QED
    BY <1>1, <1>2, <2>1, PoolAssumption DEF PoolAssumption, TypeOK, PoolApart, InPool
<1>3. CASE current # Nil
  <2>1. current' = current /\ spare' = Append(spare, got)
    BY <1>3 DEF Store
  <2>2. /\ spare' \in Seq(Contexts) /\ Len(spare') = Len(spare) + 1
        /\ \A i \in 1 .. Len(spare) : spare'[i] = spare[i]
        /\ spare'[Len(spare) + 1] = got
    BY <1>1, <2>1 DEF TypeOK
  <2>3. \A i \in 1 .. Len(spare') : i \in 1 .. Len(spare) \/ i = Len(spare) + 1
    BY <1>1, <2>2
  <2>4. PoolApart'
    <3>1. \A i \in 1 .. Len(spare') : spare'[i] # current'
      BY <1>1, <2>1, <2>2, <2>3 DEF PoolApart
    <3>2. \A i, j \in 1 .. Len(spare') : i # j => spare'[i] # spare'[j]
      BY <1>1, <2>2, <2>3 DEF PoolApart
    <3>3. QED
      BY <1>1, <3>1, <3>2 DEF PoolApart
  <2>5. ASSUME NEW c \in Contexts PROVE InPool(c)' <=> InPool(c)
    <3>1. (\E i \in 1 .. Len(spare') : spare'[i] = c)
            <=> c = got \/ \E i \in 1 .. Len(spare) : spare[i] = c
      BY <1>1, <2>2, <2>3
    <3>2. QED
      BY <1>1, <2>1, <3>1, PoolAssumption DEF PoolAssumption, InPool
  <2>6. QED
    BY <2>1, <2>2, <2>4, <2>5 DEF TypeOK
<1>4. QED
  BY <1>2, <1>3

(* What collection offers is no longer in the pool.                         *)
LEMMA OfferPool ==
  ASSUME TypeOK, PoolApart, Offered, got' = got
  PROVE  /\ current' \in Contexts \cup {Nil} /\ spare' \in Seq(Contexts)
         /\ PoolApart'
         /\ \A c \in Contexts : InPool(c)' <=> InPool(c) /\ c # current
<1>1. /\ got = Nil /\ got' = Nil /\ Len(spare) \in Nat
      /\ \A i \in 1 .. Len(spare) : spare[i] \in Contexts
  BY DEF TypeOK, Offered, Ready
<1>2. CASE spare = << >>
  <2>1. current' = Nil /\ spare' = spare /\ Len(spare) = 0
    BY <1>2 DEF Offered
  <2>2. QED
    BY <1>1, <2>1, PoolAssumption DEF PoolAssumption, TypeOK, PoolApart, InPool
<1>3. CASE spare # << >>
  <2> DEFINE n == Len(spare)
  <2>1. n \in Nat /\ n > 0
    BY <1>3 DEF TypeOK
  <2>2. current' = spare[n] /\ spare' = SubSeq(spare, 1, n - 1)
    BY <1>3 DEF Offered
  <2>3. /\ spare' \in Seq(Contexts) /\ Len(spare') = n - 1
        /\ \A i \in 1 .. n - 1 : spare'[i] = spare[i]
    <3>1. \A i \in 1 .. n - 1 : spare[i] \in Contexts
      BY <1>1, <2>1
    <3>2. \A i \in 1 .. (n - 1) - 1 + 1 : SubSeq(spare, 1, n - 1)[i] = spare[1 + i - 1]
      BY <2>1, <3>1, SubSeqProperties
    <3>3. SubSeq(spare, 1, n - 1) \in Seq(Contexts)
      BY <2>1, <3>1, SubSeqProperties
    <3>4. Len(SubSeq(spare, 1, n - 1)) = n - 1
      BY <2>1, FrontLen DEF TypeOK
    <3>5. QED
      BY <2>1, <2>2, <3>2, <3>3, <3>4
  <2>4. PoolApart'
    BY <1>1, <2>1, <2>2, <2>3 DEF PoolApart
  <2>5. ASSUME NEW c \in Contexts PROVE InPool(c)' <=> InPool(c) /\ c # current
    <3>1. (\E i \in 1 .. n : spare[i] = c)
            <=> spare[n] = c \/ \E i \in 1 .. n - 1 : spare'[i] = c
      BY <2>1, <2>3
    <3>2. InPool(c)' <=> \E i \in 1 .. n : spare[i] = c
      BY <1>1, <2>2, <2>3, <3>1, PoolAssumption DEF PoolAssumption, InPool
    <3>3. QED
      BY <1>1, <3>2, PoolAssumption DEF PoolAssumption, InPool, PoolApart
  <2>6. QED
    BY <1>1, <2>1, <2>2, <2>3, <2>4, <2>5
<1>4. QED
  BY <1>2, <1>3

-----------------------------------------------------------------------------
(* Steps that meet nobody                                                   *)

Rest == Apart /\ Stacks /\ Own

(* Collection on its own changes the order of what it keeps.                *)
LEMMA CollectStep ==
  ASSUME IInv, Collect
  PROVE  TypeOK' /\ Rest' /\ (Prompt /\ Gone => Gone')
<1> USE DEF IInv, tasks, objects, Holds
<1>1. /\ current' \in Contexts \cup {Nil} /\ spare' \in Seq(Contexts)
      /\ PoolApart' /\ \A c \in Contexts : InPool(c)' <=> InPool(c)
  <2>1. CASE Store
    BY <2>1, StorePool DEF Apart
  <2>2. CASE CollectionStarts \/ CollectionEnds
    BY <2>2 DEF CollectionStarts, CollectionEnds, TypeOK, Apart, PoolApart, InPool
  <2>3. QED
    BY <2>1, <2>2 DEF Collect
<1>2. /\ UNCHANGED <<tasks, objects, cpu, closed, freed>>
      /\ collection' \in {"start", "select", "ended"}
      /\ got' \in {got, Nil}
      /\ (collection' = "ended" => got' = Nil)
      /\ (collection = "ended" => collection' = "ended")
  BY DEF Collect, Store, CollectionStarts, CollectionEnds, Ready, TypeOK
<1>3. TypeOK'
  BY <1>1, <1>2 DEF TypeOK
<1>4. Apart' /\ Stacks' /\ Own'
  BY <1>1, <1>2 DEF TypeOK, Apart, Stacks, Own, Unused
<1>5. ASSUME Gone PROVE Gone'
  BY <1>1, <1>2, <1>5, PoolAssumption DEF PoolAssumption, Gone, Unused
<1>6. QED
  BY <1>3, <1>4, <1>5 DEF Rest

(* The CPU takes and leaves registers of a task that is there.              *)
LEMMA CpuStep ==
  ASSUME IInv, Hook \/ Save \/ Stop \/ \E t \in All : Restore(t)
  PROVE  TypeOK' /\ Rest' /\ (Gone => Gone')
<1> USE DEF IInv, pool, tasks, objects, Holds
<1>1. /\ UNCHANGED <<pool, tasks, stack, released, closed, freed>>
      /\ regs' = regs
  BY DEF Hook, Save, Stop, Restore, TypeOK, Own
<1>2. /\ cpu' \in [task : All \cup {Nil}, regs : All \cup {Nil},
                   step : {"idle", "guest", "save"}]
      /\ cpu'.step # "idle" =>
           cpu'.task \in All /\ at[cpu'.task] = "live" /\ cpu'.regs = cpu'.task
  <2>1. CASE Hook
    BY <2>1 DEF Hook, TypeOK, Own, Idle
  <2>2. CASE Save \/ Stop
    BY <2>2 DEF Save, Stop, Idle
  <2>3. ASSUME NEW t \in All, Restore(t)
        PROVE  /\ cpu' = [task |-> t, regs |-> t, step |-> "guest"]
               /\ at[t] = "live"
    BY <2>3 DEF Restore, Own
  <2>4. QED
    BY <2>1, <2>2, <2>3
<1>3. QED
  BY <1>1, <1>2 DEF TypeOK, Rest, Apart, PoolApart, InPool, Stacks, Own, Gone, Unused

(* Between allocation and freeing a task keeps its context, and closes      *)
(* after its forks.                                                         *)
LEMMA LifeStep ==
  ASSUME IInv, Calm, NEW t \in All,
         \/ Create(t) \/ AllocClosed(t) \/ InitRegs(t) \/ SaveFails(t)
         \/ CloseTask(t)
         \/ t = Main /\ ReleaseMain
  PROVE  TypeOK' /\ Rest' /\ (Gone => Gone')
<1> USE DEF IInv, pool, tasks, objects
<1>1. /\ UNCHANGED <<pool, ctx, family, stack, released, cpu, closed, freed>>
      /\ done' \subseteq All
      /\ \E a \in States :
           /\ at' = [at EXCEPT ![t] = a]
           /\ a \in {"init", "live", "free"} <=> Holds(t)
           /\ a \in {"new", "alloc"} => at[t] \in {"new", "alloc"}
           /\ a = "live" => regs'[ctx[t]] = t
      /\ regs' = regs \/ (regs' = [regs EXCEPT ![ctx[t]] = t] /\ Holds(t))
  BY DEF TypeOK, Create, AllocClosed, InitRegs, SaveFails, CloseTask, ReleaseMain, Closable,
     Move, States, Holds
<1>2. \A u \in All : u # t => at'[u] = at[u]
  BY <1>1 DEF TypeOK
<1>3. at' \in [All -> States] /\ \A u \in All : Holds(u)' <=> Holds(u)
  BY <1>1 DEF TypeOK, Holds
<1>4. regs' \in [Contexts -> All \cup {Nil}]
  BY <1>1 DEF TypeOK
<1>5. TypeOK'
  BY <1>1, <1>3, <1>4 DEF TypeOK
<1>6. Apart' /\ (Gone => Gone')
  <2>1. \A c \in Contexts : (InPool(c)' <=> InPool(c)) /\ (Unused(c)' <=> Unused(c))
    BY <1>1 DEF InPool, Unused
  <2>2. Apart'
    BY <1>1, <1>3, <2>1 DEF TypeOK, Apart, PoolApart
  <2>3. Gone => Gone'
    BY <1>1, <1>3, <2>1 DEF Gone
  <2>4. QED
    BY <2>2, <2>3
<1>7. Stacks'
  <2>1. /\ \A c \in Contexts : InPool(c)' => stack'[c] = c
        /\ \A u \in All : at'[u] \in {"new", "alloc"} => family'[u] = u
    BY <1>1, <1>2 DEF TypeOK, Stacks, InPool
  <2>2. ASSUME ~closed, at[t] = "live",
               NEW u \in All, u # t, family[u] = t
        PROVE  ~Holds(u)
    BY <2>2 DEF Create, AllocClosed, InitRegs, SaveFails, CloseTask, ReleaseMain,
       Closable, Move, Holds
  <2>3. ASSUME ~closed, NEW u \in All, Holds(u), family[u] # u
        PROVE  at'[family[u]] = "live"
    BY <1>2, <2>2, <2>3 DEF TypeOK, Stacks
  <2>4. QED
    BY <1>1, <1>3, <2>1, <2>3 DEF Stacks
<1>8. Own'
  <2>1. ASSUME NEW u \in All, at'[u] = "live" PROVE regs'[ctx[u]] = u
    <3>1. CASE u = t
      BY <1>1, <2>1, <3>1 DEF TypeOK
    <3>2. CASE u # t
      BY <1>1, <1>2, <2>1, <3>2 DEF TypeOK, Own, Apart, Holds
    <3>3. QED
      BY <3>1, <3>2
  <2>2. ASSUME cpu.step # "idle" PROVE at'[cpu.task] = "live"
    <3>1. cpu.task # t \/ at'[t] = "live"
      BY <2>2 DEF Create, AllocClosed, InitRegs, SaveFails, CloseTask, ReleaseMain,
         Closable, Move, Own, Idle, TypeOK
    <3>2. QED
      BY <1>2, <2>2, <3>1 DEF Own
  <2>3. QED
    BY <1>1, <2>1, <2>2 DEF Own
<1>9. QED
  BY <1>5, <1>6, <1>7, <1>8 DEF Rest

-----------------------------------------------------------------------------
(* Steps that hand a context on                                             *)

(* A new task gets a context that is offered or made, which nobody has.     *)
LEMMA AllocStep ==
  ASSUME IInv, NEW t \in All, AllocContext(t)
  PROVE  TypeOK' /\ Rest' /\ (Prompt /\ Gone => Gone')
<1> USE DEF IInv, tasks, objects
<1>1. PICK c \in Contexts :
        /\ ctx' = [ctx EXCEPT ![t] = c] /\ stack' = [stack EXCEPT ![c] = c]
        /\ (current = Nil /\ Unused(c)) \/ (c = current /\ stack[c] = c)
  <2>1. CASE current = Nil
    <3>1. Made \in Contexts /\ Unused(Made)
      BY <2>1 DEF AllocContext, CanMake, Made
    <3>2. /\ ctx' = [ctx EXCEPT ![t] = Made] /\ stack' = [stack EXCEPT ![Made] = Made]
      BY <2>1 DEF AllocContext
    <3>3. QED
      BY <2>1, <3>1, <3>2
  <2>2. CASE current # Nil
    <3>1. current \in Contexts /\ stack[current] = current
      BY <2>2 DEF TypeOK, Stacks, InPool
    <3>2. ctx' = [ctx EXCEPT ![t] = current] /\ stack' = [stack EXCEPT ![current] = @]
      BY <2>2 DEF AllocContext
    <3>3. QED
      BY <3>1, <3>2
  <2>3. QED
    BY <2>1, <2>2
<1>2. /\ at[t] = "alloc" /\ at' = [at EXCEPT ![t] = "init"] /\ Ready
      /\ UNCHANGED <<got, collection, family, done, regs, released, cpu, closed, freed>>
  BY DEF AllocContext, Move, Offered
<1>3. /\ current' \in Contexts \cup {Nil} /\ spare' \in Seq(Contexts)
      /\ PoolApart' /\ \A d \in Contexts : InPool(d)' <=> InPool(d) /\ d # current
  BY <1>2, OfferPool DEF AllocContext, Apart
<1>4. ~InPool(c)' /\ \A u \in All : Holds(u) => ctx[u] # c
  BY <1>1, <1>3, PoolAssumption DEF PoolAssumption, Apart, InPool
<1>5. /\ \A u \in All : u # t => ctx'[u] = ctx[u] /\ at'[u] = at[u]
      /\ at'[t] = "init" /\ ctx'[t] = c
      /\ \A u \in All : Holds(u)' <=> Holds(u) \/ u = t
      /\ ~Holds(t) /\ family[t] = t
  BY <1>1, <1>2 DEF TypeOK, Holds, Stacks
<1>6. TypeOK'
  BY <1>1, <1>2, <1>3, <1>5 DEF TypeOK, States
<1>7. \A d \in Contexts : d # c => stack'[d] = stack[d]
  BY <1>1 DEF TypeOK
<1>8. stack'[c] = c
  BY <1>1 DEF TypeOK
<1>9. Apart'
  <2>1. \A u, v \in All : u # v /\ Holds(u)' /\ Holds(v)' => ctx'[u] # ctx'[v]
    BY <1>4, <1>5 DEF Apart
  <2>2. \A u \in All : Holds(u)' => ~InPool(ctx[u])'
    BY <1>3, <1>4, <1>5 DEF Apart, TypeOK
  <2>3. \A d \in Contexts :
          Unused(d)' => ~InPool(d)' /\ \A u \in All : Holds(u)' => ctx'[u] # d
    BY <1>1, <1>3, <1>5, <1>7, <1>8, PoolAssumption DEF PoolAssumption, Apart, Unused
  <2>4. QED
    BY <1>3, <2>1, <2>2, <2>3 DEF Apart
<1>10. Stacks'
  <2>1. \A d \in Contexts : InPool(d)' => stack'[d] = d
    BY <1>3, <1>7, <1>8 DEF Stacks
  <2>2. \A u \in All : at'[u] \in {"new", "alloc"} => family'[u] = u
    BY <1>2, <1>5 DEF Stacks
  <2>3. ASSUME ~closed, NEW u \in All, Holds(u)'
        PROVE  /\ stack'[ctx'[u]] = ctx'[family[u]]
               /\ family[u] # u => at'[family[u]] = "live"
               /\ family[family[u]] = family[u]
    <3>1. CASE u = t
      BY <1>5, <1>8, <3>1
    <3>2. CASE u # t
      <4>1. Holds(u) /\ ctx[u] \in Contexts /\ ctx[u] # c /\ family[u] \in All
        BY <1>4, <1>5, <2>3, <3>2 DEF TypeOK
      <4>2. family[u] # t
        BY <1>2, <2>3, <3>2, <4>1 DEF Stacks
      <4>3. QED
        BY <1>5, <1>7, <2>3, <3>2, <4>1, <4>2 DEF Stacks
    <3>3. QED
      BY <3>1, <3>2
  <2>4. QED
    BY <1>2, <2>1, <2>2, <2>3 DEF Stacks
<1>11. Own'
  BY <1>2, <1>5 DEF Own
<1>12. ASSUME Prompt, Gone PROVE Gone'
  <2>1. released[c] # 1 /\ freed # "done"
    BY <1>1, <1>2, <1>12 DEF Gone, Ready, InPool
  <2>2. \A d \in Contexts : Unused(d)' <=> Unused(d) /\ d # c
    BY <1>1, <1>7, <1>8, PoolAssumption DEF PoolAssumption, Unused
  <2>3. \A d \in Contexts : released[d] = 1 =>
          /\ d # got /\ ~Unused(d)' /\ (InPool(d)' => freed = "done")
          /\ \A u \in All : Holds(u)' => ctx'[u] # d
    BY <1>3, <1>5, <1>12, <2>1, <2>2 DEF Gone, Unused
  <2>4. ASSUME NEW d \in Contexts, ~Unused(d)'
        PROVE  InPool(d)' \/ released[d] = 1 \/ \E u \in All : Holds(u)' /\ ctx'[u] = d
    <3>1. CASE d = c
      BY <1>5, <3>1
    <3>2. CASE d # c /\ current = d
      BY <1>1, <3>2, PoolAssumption DEF PoolAssumption
    <3>3. CASE d # c /\ current # d
      BY <1>3, <1>5, <1>12, <2>2, <2>4, <3>3 DEF Gone
    <3>4. QED
      BY <3>1, <3>2, <3>3
  <2>5. QED
    BY <1>2, <1>12, <2>1, <2>3, <2>4 DEF Gone, Ready
<1>13. QED
  BY <1>6, <1>9, <1>10, <1>11, <1>12 DEF Rest

(* A fork gets a context that is made for it, with its family's stack.      *)
LEMMA ForkStep ==
  ASSUME IInv, NEW s \in All, NEW t \in Tasks, Fork(s, t)
  PROVE  TypeOK' /\ Rest' /\ (Gone => Gone')
<1> USE DEF IInv, pool
<1>1. PICK c \in Contexts :
        /\ Unused(c)
        /\ ctx' = [ctx EXCEPT ![t] = c] /\ stack' = [stack EXCEPT ![c] = stack[ctx[s]]]
        /\ regs' = [regs EXCEPT ![c] = t]
  <2>1. Made \in Contexts /\ Unused(Made)
    BY DEF Fork, CanMake, Made
  <2>2. QED
    BY <2>1 DEF Fork
<1>2. /\ at[s] = "live" /\ at[t] = "new" /\ at' = [at EXCEPT ![t] = "live"]
      /\ family' = [family EXCEPT ![t] = family[s]]
      /\ UNCHANGED <<pool, done, released, cpu, closed, freed>>
  BY DEF Fork, Move
<1>3. t \in All /\ s # t /\ Holds(s) /\ ~Holds(t) /\ family[t] = t
      /\ ctx[s] \in Contexts /\ ctx[s] # c
  BY <1>1, <1>2 DEF All, TypeOK, Holds, Stacks, Apart
<1>4. ~InPool(c) /\ \A u \in All : Holds(u) => ctx[u] # c
  BY <1>1 DEF Apart
<1>5. /\ \A u \in All : u # t => ctx'[u] = ctx[u] /\ at'[u] = at[u] /\ family'[u] = family[u]
      /\ at'[t] = "live" /\ ctx'[t] = c /\ family'[t] = family[s]
      /\ \A u \in All : Holds(u)' <=> Holds(u) \/ u = t
      /\ \A d \in Contexts : InPool(d)' <=> InPool(d)
  BY <1>1, <1>2, <1>3 DEF TypeOK, Holds, InPool
<1>6. /\ \A d \in Contexts : d # c => stack'[d] = stack[d] /\ regs'[d] = regs[d]
      /\ stack'[c] = stack[ctx[s]] /\ regs'[c] = t
      /\ stack'[c] # Nil /\ stack'[c] \in Contexts
  BY <1>1, <1>3 DEF TypeOK, Apart, Unused
<1>7. TypeOK'
  BY <1>1, <1>2, <1>3, <1>5, <1>6 DEF TypeOK, States
<1>8. Apart'
  <2>1. \A u, v \in All : u # v /\ Holds(u)' /\ Holds(v)' => ctx'[u] # ctx'[v]
    BY <1>4, <1>5 DEF Apart
  <2>2. \A u \in All : Holds(u)' => ~InPool(ctx[u])'
    BY <1>4, <1>5 DEF Apart, TypeOK
  <2>3. \A d \in Contexts :
          Unused(d)' => ~InPool(d)' /\ \A u \in All : Holds(u)' => ctx'[u] # d
    BY <1>5, <1>6 DEF Apart, Unused
  <2>4. QED
    BY <1>2, <2>1, <2>2, <2>3 DEF Apart, PoolApart
<1>9. Stacks'
  <2>1. \A d \in Contexts : InPool(d)' => stack'[d] = d
    BY <1>4, <1>5, <1>6 DEF Stacks
  <2>2. \A u \in All : at'[u] \in {"new", "alloc"} => family'[u] = u
    BY <1>5 DEF Stacks
  <2>3. ASSUME ~closed, NEW u \in All, Holds(u)'
        PROVE  /\ stack'[ctx'[u]] = ctx'[family'[u]]
               /\ family'[u] # u => at'[family'[u]] = "live"
               /\ family'[family'[u]] = family'[u]
    <3>1. PICK v \in All : v = IF u = t THEN s ELSE u
      OBVIOUS
    <3>2. /\ Holds(v) /\ ctx[v] \in Contexts /\ ctx[v] # c /\ family[v] \in All
          /\ family'[u] = family[v] /\ stack'[ctx'[u]] = stack[ctx[v]]
      BY <1>3, <1>4, <1>5, <1>6, <2>3, <3>1 DEF TypeOK
    <3>3. family[v] # t
      BY <1>2, <1>3, <3>2, <2>3 DEF Stacks
    <3>4. family[v] # v \/ u = t => at[family[v]] = "live"
      BY <1>2, <2>3, <3>1, <3>2 DEF Stacks
    <3>5. QED
      BY <1>5, <2>3, <3>1, <3>2, <3>3, <3>4 DEF Stacks
  <2>4. QED
    BY <1>2, <2>1, <2>2, <2>3 DEF Stacks
<1>10. Own'
  <2>1. \A u \in All : at[u] = "live" => ctx[u] \in Contexts /\ ctx[u] # c
    BY <1>4 DEF TypeOK, Holds
  <2>2. \A u \in All : at'[u] = "live" => regs'[ctx'[u]] = u
    BY <1>5, <1>6, <2>1 DEF Own
  <2>3. QED
    BY <1>2, <1>5, <2>2 DEF Own
<1>11. ASSUME Gone PROVE Gone'
  <2>1. released[c] # 1
    BY <1>1, <1>11 DEF Gone
  <2>2. \A d \in Contexts : Unused(d)' <=> Unused(d) /\ d # c
    BY <1>6 DEF Unused
  <2>3. \A d \in Contexts : released[d] = 1 =>
          /\ d # got /\ ~Unused(d)' /\ (InPool(d)' => freed = "done")
          /\ \A u \in All : Holds(u)' => ctx'[u] # d
    BY <1>5, <1>11, <2>1, <2>2 DEF Gone
  <2>4. \A d \in Contexts : ~Unused(d)' =>
          InPool(d)' \/ released[d] = 1 \/ \E u \in All : Holds(u)' /\ ctx'[u] = d
    BY <1>3, <1>5, <1>11, <2>2 DEF Gone
  <2>5. QED
    BY <1>2, <1>5, <1>11, <2>3, <2>4 DEF Gone
<1>12. QED
  BY <1>7, <1>8, <1>9, <1>10, <1>11 DEF Rest

(* A task that is closed leaves its context to a new task, to collection or *)
(* to nobody; a clone goes to nobody.                                       *)
LEMMA FreeStep ==
  ASSUME IInv, NEW t \in All, FreeToCollection(t) \/ FreeDestroyed(t)
  PROVE  TypeOK' /\ Rest' /\ (Gone => Gone')
<1> USE DEF IInv, pool, objects
<1>1. /\ at[t] = "free" /\ at' = [at EXCEPT ![t] = "closed"]
      /\ UNCHANGED <<current, spare, collection, ctx, family, done, stack, regs, cpu,
                     closed, freed>>
  BY DEF FreeToCollection, FreeDestroyed, Move
<1>2. /\ Holds(t) /\ ctx[t] \in Contexts /\ ctx[t] # Nil /\ ~InPool(ctx[t]) /\ ~Unused(ctx[t])
      /\ \A u \in All : Holds(u) /\ u # t => ctx[u] # ctx[t]
  BY <1>1, PoolAssumption DEF PoolAssumption, Holds, TypeOK, Apart
<1>3. \/ /\ got = Nil /\ got' = ctx[t] /\ released' = released
         /\ stack[ctx[t]] = ctx[t] /\ collection = "select"
      \/ /\ got' = got
         /\ released' = [released EXCEPT ![ctx[t]] = @ + 1]
  BY DEF FreeToCollection, FreeDestroyed, Ready, Clone, Dtor
<1>4. /\ \A u \in All : u # t => at'[u] = at[u]
      /\ at'[t] = "closed" /\ \A u \in All : Holds(u)' <=> Holds(u) /\ u # t
  BY <1>1 DEF TypeOK, Holds
<1>5. \A d \in Contexts : InPool(d)' <=> InPool(d) \/ (got' # got /\ d = ctx[t])
  BY <1>1, <1>2, <1>3, PoolAssumption DEF PoolAssumption, InPool
<1>6. TypeOK'
  BY <1>1, <1>2, <1>3, <1>4 DEF TypeOK, States
<1>7. Apart'
  <2>1. PoolApart'
    BY <1>1, <1>2, <1>3 DEF Apart, PoolApart, InPool
  <2>2. QED
    BY <1>1, <1>2, <1>4, <1>5, <2>1 DEF TypeOK, Apart, Unused
<1>8. Stacks'
  <2>1. \A d \in Contexts : InPool(d)' => stack'[d] = d
    BY <1>1, <1>3, <1>5 DEF Stacks
  <2>2. ASSUME ~closed, NEW u \in All, Holds(u), family[u] # u PROVE family[u] # t
    BY <1>1, <2>2 DEF Stacks
  <2>3. QED
    BY <1>1, <1>4, <2>1, <2>2 DEF TypeOK, Stacks
<1>9. Own'
  BY <1>1, <1>4 DEF Own
<1>10. ASSUME Gone PROVE Gone'
  <2>1. released[ctx[t]] = 0
    BY <1>2, <1>10 DEF Gone, TypeOK
  <2>2. CASE got' = ctx[t] /\ released' = released /\ got = Nil /\ collection = "select"
    BY <1>1, <1>2, <1>4, <1>5, <1>10, <2>1, <2>2 DEF Gone, Unused
  <2>3. CASE got' = got /\ released' = [released EXCEPT ![ctx[t]] = @ + 1]
    <3>1. /\ released'[ctx[t]] = 1
          /\ \A d \in Contexts : d # ctx[t] => released'[d] = released[d]
      BY <1>2, <2>1, <2>3 DEF TypeOK
    <3>2. ctx[t] # got
      BY <1>2 DEF InPool
    <3>3. QED
      BY <1>1, <1>2, <1>4, <1>5, <1>10, <2>3, <3>1, <3>2 DEF Gone, Unused
  <2>4. QED
    BY <1>3, <2>2, <2>3
<1>11. QED
  BY <1>6, <1>7, <1>8, <1>9, <1>10 DEF Rest

(* A new task that meets a closing one on the channel gets its context.     *)
LEMMA AllocFreedStep ==
  ASSUME IInv, NEW t \in All, NEW s \in All, AllocFreed(t, s)
  PROVE  TypeOK' /\ Rest' /\ (Gone => Gone')
<1> USE DEF IInv, pool, objects
<1>1. /\ at[t] = "alloc" /\ at[s] = "free" /\ stack[ctx[s]] = ctx[s] /\ s # t
      /\ at' = [at EXCEPT ![t] = "init", ![s] = "closed"]
      /\ ctx' = [ctx EXCEPT ![t] = ctx[s]]
      /\ UNCHANGED <<pool, family, done, objects, cpu, closed, freed>>
  BY DEF AllocFreed, Clone
<1>2. /\ Holds(s) /\ ~Holds(t) /\ ctx[s] \in Contexts /\ family[t] = t
      /\ \A u \in All : Holds(u) /\ u # s => ctx[u] # ctx[s]
  BY <1>1 DEF Holds, TypeOK, Apart, Stacks
<1>3. /\ \A u \in All : u # t => ctx'[u] = ctx[u] /\ (u # s => at'[u] = at[u])
      /\ at'[t] = "init" /\ at'[s] = "closed" /\ ctx'[t] = ctx[s]
      /\ \A u \in All : Holds(u)' <=> (Holds(u) /\ u # s) \/ u = t
      /\ \A d \in Contexts : (InPool(d)' <=> InPool(d)) /\ (Unused(d)' <=> Unused(d))
  BY <1>1 DEF TypeOK, Holds, InPool, Unused
<1>4. TypeOK'
  BY <1>1, <1>2, <1>3 DEF TypeOK, States
<1>5. Apart'
  BY <1>1, <1>2, <1>3 DEF TypeOK, Apart, PoolApart
<1>6. Stacks'
  <2>1. ASSUME ~closed, NEW u \in All, Holds(u)'
        PROVE  /\ stack[ctx'[u]] = ctx'[family[u]]
               /\ family[u] # u => at'[family[u]] = "live"
               /\ family[family[u]] = family[u]
    <3>1. CASE u = t
      BY <1>1, <1>2, <1>3, <3>1
    <3>2. CASE u # t
      <4>1. Holds(u) /\ u # s /\ family[u] \in All
        BY <1>3, <2>1, <3>2 DEF TypeOK
      <4>2. family[u] # t /\ family[u] # s
        BY <1>1, <2>1, <3>2, <4>1 DEF Stacks
      <4>3. QED
        BY <1>3, <2>1, <3>2, <4>1, <4>2 DEF Stacks
    <3>3. QED
      BY <3>1, <3>2
  <2>2. \A d \in Contexts : InPool(d)' => stack'[d] = d
    BY <1>1, <1>3 DEF Stacks
  <2>3. \A u \in All : at'[u] \in {"new", "alloc"} => family'[u] = u
    BY <1>1, <1>3 DEF Stacks
  <2>4. QED
    BY <1>1, <2>1, <2>2, <2>3 DEF Stacks
<1>7. Own'
  BY <1>1, <1>3 DEF Own
<1>8. ASSUME Gone PROVE Gone'
  BY <1>1, <1>2, <1>3, <1>8 DEF Gone
<1>9. QED
  BY <1>4, <1>5, <1>6, <1>7, <1>8 DEF Rest

-----------------------------------------------------------------------------
(* Close of the debugger                                                    *)

(* Close destroys what collection keeps when it has ended.                  *)
LEMMA CloseStep ==
  ASSUME IInv, Shutdown \/ FreePool
  PROVE  TypeOK' /\ Rest' /\ (Prompt /\ Gone => Gone')
<1> USE DEF IInv, pool, tasks, objects
<1>1. CASE Shutdown
  <2>1. /\ UNCHANGED <<pool, tasks, objects, cpu>> /\ ~closed /\ closed' = TRUE
        /\ freed' \in {"waits", "skipped"} /\ (Prompt => freed' = "waits")
    BY <1>1 DEF Shutdown
  <2>2. TypeOK'
    BY <2>1 DEF TypeOK, Holds
  <2>3. Rest'
    BY <2>1 DEF Rest, Apart, PoolApart, InPool, Stacks, Own, Holds, Unused
  <2>4. ASSUME Prompt, Gone PROVE Gone'
    BY <2>1, <2>4 DEF Gone, InPool, Holds, Unused
  <2>5. QED
    BY <2>2, <2>3, <2>4
<1>2. CASE FreePool
  <2>1. /\ freed = "waits" /\ freed' = "done" /\ (Prompt => collection = "ended")
        /\ UNCHANGED <<pool, tasks, stack, regs, cpu, closed>>
        /\ released' = [d \in Contexts |-> released[d] + IF d \in Kept THEN 1 ELSE 0]
    BY <1>2 DEF FreePool
  <2>2. TypeOK' /\ Rest'
    BY <2>1 DEF TypeOK, Rest, Apart, PoolApart, InPool, Stacks, Own, Holds, Unused
  <2>3. ASSUME Prompt, Gone PROVE Gone'
    <3>1. got = Nil
      BY <2>1, <2>3 DEF Gone
    <3>2. \A d \in Contexts : d \in Kept <=> InPool(d)
      BY <3>1, PoolAssumption DEF PoolAssumption, Kept, InPool, TypeOK
    <3>3. \A d \in Contexts : released[d] \in Nat
                              /\ released'[d] = IF InPool(d) THEN 1 ELSE released[d]
      BY <2>1, <2>3, <3>2 DEF TypeOK, Gone
    <3>4. /\ \A d \in Contexts : (InPool(d)' <=> InPool(d)) /\ (Unused(d)' <=> Unused(d))
          /\ \A t \in All : (Holds(t)' <=> Holds(t)) /\ ctx'[t] = ctx[t]
      BY <2>1 DEF InPool, Unused, Holds
    <3>5. \A d \in Contexts : released'[d] <= 1
      BY <2>3, <3>3 DEF Gone
    <3>6. ASSUME NEW d \in Contexts, released'[d] = 1
          PROVE  d # got /\ ~Unused(d) /\ \A t \in All : Holds(t) => ctx[t] # d
      BY <2>3, <3>1, <3>3, <3>6, PoolAssumption DEF PoolAssumption, Gone, Apart
    <3>7. \A d \in Contexts : ~Unused(d) =>
            InPool(d) \/ released'[d] = 1 \/ \E t \in All : Holds(t) /\ ctx[t] = d
      BY <2>3, <3>3 DEF Gone
    <3>8. QED
      BY <2>1, <2>3, <3>1, <3>3, <3>4, <3>5, <3>6, <3>7 DEF Gone
  <2>4. QED
    BY <2>2, <2>3
<1>3. QED
  BY <1>1, <1>2

-----------------------------------------------------------------------------
(* The invariant                                                            *)

(* Before collection starts, the main task has the only context.            *)
LEMMA IInvInit ==
  ASSUME Init
  PROVE  IInv /\ Gone
<1>1. PICK c \in Contexts :
        /\ ctx = [t \in All |-> IF t = Main THEN c ELSE Nil]
        /\ stack = [d \in Contexts |-> IF d = c THEN c ELSE Nil]
        /\ regs = [d \in Contexts |-> IF d = c THEN Main ELSE Nil]
  BY PoolAssumption DEF PoolAssumption, Init
<1>2. \A t \in All : Holds(t) <=> t = Main
  BY DEF Init, Holds
<1>3. \A d \in Contexts : ~InPool(d)
  BY PoolAssumption DEF PoolAssumption, Init, InPool
<1>4. \A d \in Contexts : Unused(d) <=> d # c
  BY <1>1, PoolAssumption DEF PoolAssumption, Unused
<1>5. Main \in All
  BY DEF All
<1>6. TypeOK
  <2>1. spare \in Seq(Contexts) /\ at \in [All -> States]
    BY DEF Init, States
  <2>2. /\ ctx \in [All -> Contexts \cup {Nil}] /\ regs \in [Contexts -> All \cup {Nil}]
        /\ stack \in [Contexts -> Contexts \cup {Nil}]
        /\ released \in [Contexts -> Nat] /\ family \in [All -> All]
    BY <1>1, <1>5 DEF Init
  <2>3. cpu \in [task : All \cup {Nil}, regs : All \cup {Nil},
                step : {"idle", "guest", "save"}]
    BY DEF Init, Idle
  <2>4. \A t \in All : Holds(t) => ctx[t] \in Contexts
    BY <1>1, <1>2
  <2>5. QED
    BY <2>1, <2>2, <2>3, <2>4 DEF Init, TypeOK
<1>7. Apart
  <2>1. PoolApart
    BY DEF Init, PoolApart
  <2>2. QED
    BY <1>1, <1>2, <1>3, <1>4, <1>5, <2>1 DEF Apart
<1>8. Stacks /\ Own
  BY <1>1, <1>2, <1>3, <1>5 DEF Init, Stacks, Own, Idle
<1>9. Gone
  BY <1>1, <1>2, <1>3, <1>4, <1>5 DEF Init, Gone
<1>10. QED
  BY <1>6, <1>7, <1>8, <1>9 DEF IInv

(* Every step of calm owners keeps the invariant.                           *)
LEMMA IInvStep ==
  ASSUME Calm, IInv, [Next]_vars
  PROVE  IInv' /\ (Prompt /\ Gone => Gone')
<1>1. CASE Collect
  BY <1>1, CollectStep DEF Rest, IInv
<1>2. CASE Hook \/ Save \/ Stop \/ \E t \in All : Restore(t)
  BY <1>2, CpuStep DEF Rest, IInv
<1>3. ASSUME NEW t \in All,
             \/ Create(t) \/ AllocClosed(t) \/ InitRegs(t) \/ SaveFails(t)
             \/ CloseTask(t)
      PROVE  IInv' /\ (Prompt /\ Gone => Gone')
  BY <1>3, LifeStep DEF Rest, IInv
<1>4. CASE ReleaseMain
  <2>1. Main \in All
    BY DEF All
  <2>2. QED
    BY <1>4, <2>1, LifeStep DEF Rest, IInv
<1>5. ASSUME NEW t \in All, Meets(t)
      PROVE  IInv' /\ (Prompt /\ Gone => Gone')
  <2>1. CASE AllocContext(t)
    BY <2>1, AllocStep DEF Rest, IInv
  <2>2. CASE FreeToCollection(t) \/ FreeDestroyed(t)
    BY <2>2, FreeStep DEF Rest, IInv
  <2>3. ASSUME NEW u \in All, AllocFreed(t, u) \/ AllocFreed(u, t)
        PROVE  IInv' /\ (Prompt /\ Gone => Gone')
    BY <2>3, AllocFreedStep DEF Rest, IInv
  <2>4. QED
    BY <1>3, <1>5, <2>1, <2>2, <2>3 DEF Meets
<1>6. ASSUME NEW t \in Tasks, NEW u \in All, Fork(u, t)
      PROVE  IInv' /\ (Prompt /\ Gone => Gone')
  BY <1>6, ForkStep DEF Rest, IInv
<1>7. CASE Shutdown \/ FreePool
  BY <1>7, CloseStep DEF Rest, IInv
<1>8. CASE UNCHANGED vars
  BY <1>8 DEF vars, pool, tasks, objects, IInv, TypeOK, Apart, PoolApart, InPool, Stacks,
     Own, Gone, Holds, Unused
<1>9. Tasks \subseteq All
  BY DEF All
<1>10. QED
  BY <1>1, <1>2, <1>3, <1>4, <1>5, <1>6, <1>7, <1>8, <1>9 DEF Next

-----------------------------------------------------------------------------
(* Theorems                                                                 *)

(* What collection keeps is counted, because it keeps nothing twice.        *)
LEMMA KeptCounted ==
  ASSUME TypeOK, PoolApart
  PROVE  Cardinality(Kept) = Len(spare) + IF current = Nil THEN 0 ELSE 1
<1> DEFINE n == Len(spare)
<1> DEFINE R == {spare[i] : i \in DOMAIN spare}
<1>1. n \in Nat /\ DOMAIN spare = 1 .. n /\ \A i \in 1 .. n : spare[i] \in Contexts
  BY DEF TypeOK
<1>2. IsFiniteSet(R) /\ Cardinality(R) = n
  <2>1. spare \in Bijection(1 .. n, R)
    <3>1. spare \in [1 .. n -> R]
      BY <1>1 DEF TypeOK
    <3>2. \A i, j \in 1 .. n : spare[i] = spare[j] => i = j
      BY DEF PoolApart
    <3>3. \A r \in R : \E i \in 1 .. n : spare[i] = r
      BY <1>1
    <3>4. QED
      BY <3>1, <3>2, <3>3 DEF Bijection, Injection, IsInjective, Surjection
  <2>2. ExistsBijection(1 .. n, R)
    BY <2>1 DEF ExistsBijection
  <2>3. QED
    BY <1>1, <2>2, FS_CountingElements, FS_NatBijection
<1>3. CASE current = Nil
  <2>1. Kept = R
    BY <1>3 DEF Kept
  <2>2. Cardinality(Kept) = n
    BY <1>2, <2>1
  <2>3. (IF current = Nil THEN 0 ELSE 1) = 0 /\ n + 0 = n
    BY <1>1, <1>3
  <2>4. QED
    BY <2>2, <2>3
<1>4. CASE current # Nil
  <2>1. Kept = R \cup {current} /\ current \notin R
    BY <1>1, <1>4 DEF Kept, PoolApart
  <2>2. Cardinality(R \cup {current}) = Cardinality(R) + 1
    BY <1>2, <2>1, FS_AddElement
  <2>3. QED
    BY <1>1, <1>2, <1>4, <2>1, <2>2
<1>5. QED
  BY <1>3, <1>4

LEMMA IInvApart == IInv => ContextsApart /\ StacksApart
<1>1. IInv => ContextsApart
  <2> SUFFICES ASSUME IInv PROVE ContextsApart
    OBVIOUS
  <2>1. \A t \in All : InUse(t) => Holds(t) /\ ctx[t] \in Contexts
    BY DEF IInv, TypeOK, InUse, Holds
  <2>2. \A c \in Contexts : c \in Kept \cup {got} <=> InPool(c)
    BY PoolAssumption DEF PoolAssumption, IInv, TypeOK, Kept, InPool
  <2>3. got = Nil \/ got \notin Kept
    BY DEF IInv, TypeOK, Apart, PoolApart, Kept
  <2>4. QED
    BY <2>1, <2>2, <2>3, KeptCounted DEF IInv, Apart, ContextsApart
<1>2. IInv => StacksApart
  BY DEF IInv, TypeOK, Apart, Stacks, StacksApart, InUse, Holds
<1>3. QED
  BY <1>1, <1>2

LEMMA GoneReleased == IInv /\ Gone => ReleasedOnce /\ NoneLeft
<1>1. Gone => ReleasedOnce
  BY DEF Gone, ReleasedOnce, InUse, Holds
<1>2. IInv /\ Gone => NoneLeft
  <2> SUFFICES ASSUME IInv, Gone, freed \in {"done", "skipped"}, collection = "ended",
                      \A t \in All : at[t] \in {"new", "closed"},
                      NEW c \in Contexts, ~Unused(c)
               PROVE  released[c] > 0
    BY DEF NoneLeft
  <2>1. ~\E t \in All : Holds(t) /\ ctx[t] = c
    BY DEF Holds
  <2>2. released[c] = 1
    BY <2>1 DEF Gone
  <2>3. QED
    BY <2>2
<1>3. QED
  BY <1>1, <1>2

(* No two tasks ever share a context, and none has one that collection      *)
(* offers, whichever of allocTaskContext, freeTaskContext and collection    *)
(* meet on the channel; before Close of the debugger only tasks of one      *)
(* family share a stack, though forks of forks close in any order.          *)
THEOREM NothingSharedAlways ==
  ASSUME Calm
  PROVE  Spec => [](ContextsApart /\ StacksApart)
<1>1. IInv /\ [Next]_vars => IInv'
  BY IInvStep
<1>2. Init => IInv
  BY IInvInit
<1>3. QED
  BY <1>1, <1>2, IInvApart, PTL DEF Spec

(* Guest code of a task runs with the registers of that task, though its    *)
(* context had those of the tasks before: newTask and CallTaskOf write them *)
(* before the task can be run, and a hook saves to the context of the task  *)
(* on the CPU.                                                              *)
THEOREM OwnRegistersAlways ==
  ASSUME Calm
  PROVE  Spec => []OwnRegisters
<1>1. IInv => OwnRegisters
  BY DEF IInv, Own, OwnRegisters
<1>2. Init => IInv
  BY IInvInit
<1>3. IInv /\ [Next]_vars => IInv'
  BY IInvStep
<1>4. QED
  BY <1>1, <1>2, <1>3, PTL DEF Spec

(* A context is destroyed once and not under a task that has it, and none   *)
(* is left when Close has returned and every task is closed: whatever meets *)
(* what, if collection has begun before Close and ends before Close comes   *)
(* to its contexts.                                                         *)
THEOREM EachReleasedAlways ==
  ASSUME Calm, Prompt
  PROVE  Spec => [](ReleasedOnce /\ NoneLeft)
<1>1. IInv /\ Gone /\ [Next]_vars => IInv' /\ Gone'
  BY IInvStep
<1>2. Init => IInv /\ Gone
  BY IInvInit
<1>3. QED
  BY <1>1, <1>2, GoneReleased, PTL DEF Spec

-----------------------------------------------------------------------------
(* The same of the specification that the run checks, in which a behaviour  *)
(* may also be one of the lock of the heap                                  *)

LEMMA ResourcesStep ==
  ASSUME Calm, part = "contexts" => IInv, [ResourcesNext]_<<part, vars, lockVars>>
  PROVE  /\ part' = part
         /\ part' = "contexts" => IInv'
         /\ Prompt /\ (part = "contexts" => Gone) => (part' = "contexts" => Gone')
<1>1. CASE part = "contexts" /\ Next /\ UNCHANGED <<part, lockVars>>
  BY <1>1, IInvStep
<1>2. CASE part = "lock" /\ lock!Next /\ UNCHANGED <<part, vars>>
  BY <1>2
<1>3. CASE UNCHANGED <<part, vars, lockVars>>
  BY <1>3, IInvStep
<1>4. QED
  BY <1>1, <1>2, <1>3 DEF ResourcesNext

(* Whichever part a behaviour is one of, no meeting on the channel gives a  *)
(* context to two tasks, or to a task and to collection, nor a stack of one *)
(* family to another.                                                       *)
THEOREM ResourcesNothingShared ==
  ASSUME Calm
  PROVE  ResourcesSpec => []NothingShared
<1>1. ResourcesInit => (part = "contexts" => IInv)
  BY IInvInit DEF ResourcesInit
<1>2. (part = "contexts" => IInv) /\ [ResourcesNext]_<<part, vars, lockVars>>
        => (part = "contexts" => IInv)'
  BY ResourcesStep
<1>3. (part = "contexts" => IInv) => NothingShared
  BY IInvApart DEF NothingShared
<1>4. QED
  BY <1>1, <1>2, <1>3, PTL DEF ResourcesSpec

(* Restore, Hook and Save never mix the registers of two tasks.             *)
THEOREM ResourcesRegistersOwn ==
  ASSUME Calm
  PROVE  ResourcesSpec => []RegistersOwn
<1>1. ResourcesInit => (part = "contexts" => IInv)
  BY IInvInit DEF ResourcesInit
<1>2. (part = "contexts" => IInv) /\ [ResourcesNext]_<<part, vars, lockVars>>
        => (part = "contexts" => IInv)'
  BY ResourcesStep
<1>3. (part = "contexts" => IInv) => RegistersOwn
  BY DEF RegistersOwn, IInv, Own, OwnRegisters
<1>4. QED
  BY <1>1, <1>2, <1>3, PTL DEF ResourcesSpec

(* dtor runs once for every context that was made, in freeTaskContext or in *)
(* the release of collection, and never under a task.                       *)
THEOREM ResourcesEachReleased ==
  ASSUME Calm, Prompt
  PROVE  ResourcesSpec => []EachReleased
<1>1. ResourcesInit => (part = "contexts" => IInv) /\ (part = "contexts" => Gone)
  BY IInvInit DEF ResourcesInit
<1>2. (part = "contexts" => IInv) /\ (part = "contexts" => Gone)
        /\ [ResourcesNext]_<<part, vars, lockVars>>
        => (part = "contexts" => IInv)' /\ (part = "contexts" => Gone)'
  BY ResourcesStep
<1>3. (part = "contexts" => IInv) /\ (part = "contexts" => Gone) => EachReleased
  BY GoneReleased DEF EachReleased
<1>4. QED
  BY <1>1, <1>2, <1>3, PTL DEF ResourcesSpec
============================================================================
