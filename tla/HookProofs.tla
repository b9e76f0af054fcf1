----------------------------- MODULE HookProofs ------------------------------
(***************************************************************************)
(* Proofs about HookControl, for any tasks, hooks of the user and numbers  *)
(* of traps and regions, as long as controls are added one after the other *)
(* and closed once: every trap address has one place, and events go where  *)
(* they belong.                                                            *)
(***************************************************************************)
EXTENDS HookControl, FiniteSetTheorems, FunctionTheorems, SequenceTheorems,
        WellFoundedInduction, TLAPS

(* Guest code is not in the range of a region.                              *)
HookConstants ==
  /\ Count \in Nat \ {0} /\ Regions \in Nat
  /\ Serial = TRUE /\ MaxCloses \in 0 .. 1
  /\ Tasks \cap UserHooks = {} /\ Done \subseteq UserHooks
  /\ \A h \in UserHooks : KindOf[h] \in Kinds
  /\ GuestCode \subseteq Int
  /\ \A g \in GuestCode, r \in 1 .. Regions : g \notin Base(r) .. Base(r) + Count

Steps == {"new", "take", "list", "listed", "range", "ranged", "hook", "open", "free",
          "cancel", "closed"}

Typed ==
  /\ regions \in 0 .. Regions
  /\ queue \in [1 .. Regions -> Seq(Int)]
  /\ \A r \in 1 .. Regions : Len(queue[r]) <= Count
  /\ \A r \in regions + 1 .. Regions : queue[r] = << >>
  /\ ctrlAddrs \in Seq(1 .. regions) /\ ctrlRange \in Seq(1 .. regions)
  /\ hooks \subseteq Tasks \cup UserHooks
  /\ at \in [Tasks -> Steps] /\ addr \in [Tasks -> Int]
  /\ seen = [t \in Tasks |-> seen[t]]
  /\ closes \in [Tasks -> 0 .. 1]
  /\ trap \in [Tasks -> [kind : Kinds \cup {"none"}, pc : Int]]
  /\ result \in [Tasks -> {"none", "done", "closed", "exception", "astray"}]

(* Before its Close a control is open or being added, and its hook is there *)
(* while it is open.                                                        *)
Adds == {"new", "take", "list", "listed", "range", "ranged", "hook"}
Controls ==
  \A t \in Tasks :
    /\ closes[t] = IF at[t] \in Adds \cup {"open"} THEN 0 ELSE 1
    /\ t \in hooks <=> at[t] = "open"

(* One control is added at a time.                                          *)
OneAdds == \A t, u \in Tasks : Adding(t) /\ Adding(u) => t = u

(* A region that is being listed is the last one and has all its addresses  *)
Lists == {"list", "listed", "range", "ranged"}
NewRegion ==
  \A t \in Tasks :
    at[t] \in Lists =>
      /\ addr[t] = regions /\ regions > 0
      /\ Len(queue[regions]) = Count
      /\ \A i \in 1 .. Count : queue[regions][i] = Base(regions) + i - 1

(* Every other region is in both lists, and a list that is being appended   *)
(* to is as it was read.                                                    *)
AllListed ==
  /\ \A r \in 1 .. regions :
       \/ \E i \in DOMAIN ctrlAddrs : ctrlAddrs[i] = r
       \/ r = regions /\ \E t \in Tasks : at[t] \in {"list", "listed"}
  /\ \A r \in 1 .. regions :
       \/ \E i \in DOMAIN ctrlRange : ctrlRange[i] = r
       \/ r = regions /\ \E t \in Tasks : at[t] \in Lists
  /\ \A t \in Tasks :
       /\ at[t] = "listed" => seen[t] = ctrlAddrs
       /\ at[t] = "ranged" => seen[t] = ctrlRange

(* Trap addresses and where they are                                        *)
IsSlot(a) == \E r \in 1 .. regions : a \in Slots(r)
Queued(a) == \E r \in 1 .. Regions : \E i \in 1 .. Len(queue[r]) : queue[r][i] = a
Held(a) == \E t \in Tasks : Holds(t) /\ addr[t] = a

(* Every trap address has one place, and only trap addresses have           *)
Placed ==
  /\ \A r \in 1 .. Regions : \A i \in 1 .. Len(queue[r]) : IsSlot(queue[r][i])
  /\ \A r, s \in 1 .. Regions : \A i \in 1 .. Len(queue[r]), j \in 1 .. Len(queue[s]) :
       queue[r][i] = queue[s][j] => r = s /\ i = j
  /\ \A t \in Tasks : Holds(t) => IsSlot(addr[t]) /\ ~Queued(addr[t])
  /\ \A t, u \in Tasks : Holds(t) /\ Holds(u) /\ addr[t] = addr[u] => t = u
  /\ \A a \in Int : IsSlot(a) => Queued(a) \/ Held(a)

(* Guest code raises an event while its task lives.                         *)
Pending ==
  \A t \in Tasks :
    /\ at[t] \in Adds => trap[t] = NoTrap /\ result[t] = "none"
    /\ trap[t] # NoTrap /\ at[t] \in {"open", "free", "cancel"} => result[t] = "none"

IInv == Typed /\ Controls /\ OneAdds /\ NewRegion /\ AllListed /\ Placed /\ Pending

-----------------------------------------------------------------------------
(* Addresses of regions                                                     *)

LEMMA BaseApart ==
  ASSUME Count \in Nat, NEW r \in Nat, NEW s \in Nat, r < s
  PROVE  Base(r) \in Nat /\ Base(s) \in Nat /\ Base(r) + Count + 3 <= Base(s)
<1> DEFINE K == Count + 3
<1>1. K \in Nat /\ s - r \in Nat /\ s - r >= 1
  OBVIOUS
<1>2. s * K = r * K + (s - r) * K /\ r * K \in Nat /\ s * K \in Nat
  BY <1>1
<1>3. (s - r) * K = K + (s - r - 1) * K /\ s - r - 1 \in Nat
  BY <1>1
<1>4. (s - r - 1) * K \in Nat
  BY <1>1, <1>3
<1>5. Base(r) = r * K /\ Base(s) = s * K
  BY DEF Base
<1> HIDE DEF K
<1>6. Base(r) + K <= Base(s)
  BY <1>1, <1>2, <1>3, <1>4, <1>5
<1>7. QED
  BY <1>2, <1>5, <1>6 DEF K

LEMMA BaseType ==
  ASSUME Count \in Nat, NEW r \in Nat
  PROVE  Base(r) \in Nat
BY BaseApart, r + 1 \in Nat, r < r + 1

(* An address is in one region.                                             *)
LEMMA OneRegion ==
  ASSUME Count \in Nat, NEW r \in Nat, NEW s \in Nat, NEW a \in Slots(r), a \in Slots(s)
  PROVE  r = s
<1>1. /\ Base(r) \in Nat /\ Base(s) \in Nat
      /\ r < s => Base(r) + Count + 3 <= Base(s)
      /\ s < r => Base(s) + Count + 3 <= Base(r)
  BY BaseApart, BaseType
<1>2. PICK i \in 0 .. Count - 1 : a = Base(r) + i
  BY DEF Slots
<1>3. PICK j \in 0 .. Count - 1 : a = Base(s) + j
  BY DEF Slots
<1>4. ~(r < s) /\ ~(s < r)
  BY <1>1, <1>2, <1>3
<1>5. QED
  BY <1>4

(* A region that is full of addresses that are all different, in every      *)
(* region, leaves no address for anybody else.                              *)
LEMMA FullRegions ==
  ASSUME HookConstants, Typed, Placed,
         \A r \in 1 .. regions : Len(queue[r]) = Count,
         NEW a, IsSlot(a)
  PROVE  Queued(a)
<1> DEFINE P == (1 .. regions) \X (1 .. Count)
           A == {b \in Int : IsSlot(b)}
           F == [p \in P |-> queue[p[1]][p[2]]]
           G == [p \in P |-> Base(p[1]) + p[2] - 1]
<1>1. /\ Count \in Nat /\ regions \in Nat /\ regions <= Regions
      /\ 1 .. regions \subseteq 1 .. Regions
      /\ \A r \in 1 .. regions : Base(r) \in Nat
  <2>1. Count \in Nat /\ regions \in Nat /\ regions <= Regions /\ Regions \in Nat
    BY DEF HookConstants, Typed
  <2>2. QED
    BY <2>1, BaseType
<1>2. \A p \in P : p[1] \in 1 .. regions /\ p[2] \in 1 .. Count
  OBVIOUS
<1>3. IsFiniteSet(P)
  <2>1. IsFiniteSet(1 .. regions) /\ IsFiniteSet(1 .. Count)
    BY <1>1, FS_Interval
  <2>2. QED
    BY <2>1, FS_Product
<1>4. F \in Injection(P, A)
  <2>1. \A p \in P : F[p] \in A
    <3>1. SUFFICES ASSUME NEW p \in P PROVE queue[p[1]][p[2]] \in A
      OBVIOUS
    <3>2. p[1] \in 1 .. Regions /\ p[2] \in 1 .. Len(queue[p[1]]) /\ queue[p[1]] \in Seq(Int)
      BY <1>1, <1>2 DEF Typed
    <3>3. QED
      BY <3>2 DEF Placed
  <2>2. \A p, q \in P : F[p] = F[q] => p = q
    <3>1. SUFFICES ASSUME NEW p \in P, NEW q \in P, queue[p[1]][p[2]] = queue[q[1]][q[2]]
                   PROVE  p = q
      OBVIOUS
    <3>2. /\ p[1] \in 1 .. Regions /\ p[2] \in 1 .. Len(queue[p[1]])
          /\ q[1] \in 1 .. Regions /\ q[2] \in 1 .. Len(queue[q[1]])
      BY <1>1, <1>2
    <3>3. p[1] = q[1] /\ p[2] = q[2]
      BY <3>1, <3>2 DEF Placed
    <3>4. p = <<p[1], p[2]>> /\ q = <<q[1], q[2]>>
      OBVIOUS
    <3>5. QED
      BY <3>3, <3>4
  <2>3. QED
    BY <2>1, <2>2, Fun_IsInj
<1>5. G \in Bijection(P, A)
  <2>1. ASSUME NEW p \in P PROVE G[p] \in Slots(p[1]) /\ G[p] \in A
    <3>1. Base(p[1]) \in Nat /\ p[2] - 1 \in 0 .. Count - 1
      BY <1>1, <1>2
    <3>2. G[p] = Base(p[1]) + (p[2] - 1)
      BY <3>1
    <3>3. G[p] \in Slots(p[1]) /\ G[p] \in Int
      BY <3>1, <3>2 DEF Slots
    <3>4. QED
      BY <1>2, <3>3 DEF IsSlot
  <2>2. ASSUME NEW p \in P, NEW q \in P, G[p] = G[q] PROVE p = q
    <3>1. p[1] = q[1]
      BY <1>1, <1>2, <2>1, <2>2, OneRegion
    <3>2. Base(p[1]) \in Nat /\ Base(p[1]) + p[2] - 1 = Base(q[1]) + q[2] - 1
      BY <1>1, <1>2, <2>2
    <3>3. p[2] = q[2]
      BY <1>2, <3>1, <3>2
    <3>4. p = <<p[1], p[2]>> /\ q = <<q[1], q[2]>>
      OBVIOUS
    <3>5. QED
      BY <3>1, <3>3, <3>4
  <2>3. ASSUME NEW b \in A PROVE \E p \in P : G[p] = b
    <3>1. PICK r \in 1 .. regions : b \in Slots(r)
      BY DEF IsSlot
    <3>2. PICK i \in 0 .. Count - 1 : b = Base(r) + i
      BY <3>1 DEF Slots
    <3>3. Base(r) \in Nat /\ <<r, i + 1>> \in P
      BY <1>1
    <3>4. G[<<r, i + 1>>] = b
      BY <3>2, <3>3
    <3>5. QED
      BY <3>3, <3>4
  <2>4. G \in [P -> A]
    BY <2>1
  <2>5. QED
    BY <2>2, <2>3, <2>4, Fun_IsBij
<1>6. IsFiniteSet(A) /\ Cardinality(A) = Cardinality(P)
  <2>1. ExistsBijection(P, A)
    BY <1>5 DEF ExistsBijection
  <2>2. QED
    BY <1>3, <2>1, FS_Bijection
<1>7. F \in Surjection(P, A)
  BY <1>4, <1>6, FS_Injection
<1>8. a \in A
  <2>1. PICK r \in 1 .. regions : a \in Slots(r)
    BY DEF IsSlot
  <2>2. QED
    BY <1>1, <2>1 DEF Slots
<1>9. PICK p \in P : F[p] = a
  BY <1>7, <1>8 DEF Surjection
<1>10. p[1] \in 1 .. Regions /\ p[2] \in 1 .. Len(queue[p[1]]) /\ queue[p[1]][p[2]] = a
  BY <1>1, <1>2, <1>9
<1>11. QED
  BY <1>10 DEF Queued

(* So ctrlAddrFree always finds room.                                       *)
LEMMA RoomForHeld ==
  ASSUME HookConstants, IInv, NEW t \in Tasks, Holds(t)
  PROVE  \E i \in DOMAIN ctrlAddrs : Room(ctrlAddrs[i])
<1>1. SUFFICES ASSUME \A i \in DOMAIN ctrlAddrs : ~Room(ctrlAddrs[i]) PROVE FALSE
  OBVIOUS
<1>2. regions \in Nat /\ regions <= Regions /\ Count \in Nat /\ Regions \in Nat
  BY DEF IInv, Typed, HookConstants
<1>3. ASSUME NEW r \in 1 .. regions PROVE Len(queue[r]) = Count
  <2>1. r \in 1 .. Regions /\ Len(queue[r]) \in Nat /\ Len(queue[r]) <= Count
    BY <1>2 DEF IInv, Typed
  <2>2. CASE \E i \in DOMAIN ctrlAddrs : ctrlAddrs[i] = r
    BY <1>1, <1>2, <2>1, <2>2 DEF Room
  <2>3. CASE r = regions /\ \E u \in Tasks : at[u] \in {"list", "listed"}
    BY <2>3 DEF IInv, NewRegion, Lists
  <2>4. QED
    BY <2>2, <2>3 DEF IInv, AllListed
<1>4. IsSlot(addr[t]) /\ ~Queued(addr[t])
  BY DEF IInv, Placed
<1>5. QED
  BY <1>3, <1>4, FullRegions DEF IInv

-----------------------------------------------------------------------------
(* Steps that move no address                                               *)

LEMMA Moved ==
  ASSUME Typed, NEW t \in Tasks, NEW from, NEW to \in Steps, Move(t, from, to)
  PROVE  /\ at[t] = from /\ at' \in [Tasks -> Steps] /\ at'[t] = to
         /\ \A u \in Tasks \ {t} : at'[u] = at[u]
BY DEF Move, Typed

LEMMA PlacedKept ==
  ASSUME Placed, UNCHANGED <<regions, queue>>,
         \A t \in Tasks : (Holds(t)' <=> Holds(t)) /\ (Holds(t) => addr'[t] = addr[t])
  PROVE  Placed'
<1> USE DEF Placed
<1>1. regions' = regions /\ queue' = queue
  OBVIOUS
<1>2. \A a : (IsSlot(a)' <=> IsSlot(a)) /\ (Queued(a)' <=> Queued(a))
  BY <1>1 DEF IsSlot, Queued, Slots, Base
<1>3. \A a : Held(a)' <=> Held(a)
  BY DEF Held
<1>4. (\A r \in 1 .. Regions : \A i \in 1 .. Len(queue[r]) : IsSlot(queue[r][i]))'
  BY <1>1, <1>2
<1>5. (\A r, s \in 1 .. Regions : \A i \in 1 .. Len(queue[r]), j \in 1 .. Len(queue[s]) :
         queue[r][i] = queue[s][j] => r = s /\ i = j)'
  BY <1>1
<1>6. (\A t \in Tasks : Holds(t) => IsSlot(addr[t]) /\ ~Queued(addr[t]))'
  BY <1>2
<1>7. (\A t, u \in Tasks : Holds(t) /\ Holds(u) /\ addr[t] = addr[u] => t = u)'
  OBVIOUS
<1>8. (\A a \in Int : IsSlot(a) => Queued(a) \/ Held(a))'
  BY <1>2, <1>3
<1>9. QED
  BY <1>4, <1>5, <1>6, <1>7, <1>8

LEMMA AddControlStep ==
  ASSUME HookConstants, IInv, NEW t \in Tasks, AddControl(t)
  PROVE  IInv'
<1>1. /\ at[t] = "new" /\ at' \in [Tasks -> Steps] /\ at'[t] = "take"
      /\ \A u \in Tasks \ {t} : at'[u] = at[u]
  BY Moved DEF AddControl, IInv, Steps
<1>2. UNCHANGED <<regions, queue, ctrlAddrs, ctrlRange, hooks, addr, seen, closes, trap, result>>
  BY DEF AddControl
<1>3. Typed'
  BY <1>1, <1>2 DEF IInv, Typed
<1>4. Controls' /\ Pending'
  BY <1>1, <1>2 DEF IInv, Controls, Pending, Adds, NoTrap
<1>5. OneAdds'
  <2>1. \A u \in Tasks : ~Adding(u)
    BY DEF AddControl, HookConstants
  <2>2. QED
    BY <1>1, <2>1 DEF OneAdds, Adding
<1>6. NewRegion'
  BY <1>1, <1>2 DEF IInv, NewRegion, Lists, Base
<1>7. AllListed'
  BY <1>1, <1>2 DEF IInv, AllListed, Lists
<1>8. Placed'
  BY <1>1, <1>2, PlacedKept DEF IInv, Holds
<1>9. QED
  BY <1>3, <1>4, <1>5, <1>6, <1>7, <1>8 DEF IInv

LEMMA ReadListStep ==
  ASSUME HookConstants, IInv, NEW t \in Tasks, ReadList(t)
  PROVE  IInv'
<1>1. /\ UNCHANGED <<regions, queue, ctrlAddrs, ctrlRange, hooks, addr, closes, trap, result>>
      /\ at' \in [Tasks -> Steps]
      /\ \A u \in Tasks \ {t} : at'[u] = at[u] /\ seen'[u] = seen[u]
      /\ seen' = [u \in Tasks |-> seen'[u]]
      /\ \/ at[t] = "list" /\ at'[t] = "listed" /\ seen'[t] = ctrlAddrs
         \/ at[t] = "range" /\ at'[t] = "ranged" /\ seen'[t] = ctrlRange
  <2>1. Typed
    BY DEF IInv
  <2>2. UNCHANGED <<regions, queue, ctrlAddrs, ctrlRange, hooks, addr, closes, trap, result>>
    BY DEF ReadList
  <2>3. CASE Move(t, "list", "listed") /\ seen' = [seen EXCEPT ![t] = ctrlAddrs]
    BY <2>1, <2>2, <2>3, Moved DEF Steps, Typed
  <2>4. CASE Move(t, "range", "ranged") /\ seen' = [seen EXCEPT ![t] = ctrlRange]
    BY <2>1, <2>2, <2>4, Moved DEF Steps, Typed
  <2>5. QED
    BY <2>3, <2>4 DEF ReadList
<1>2. Typed'
  BY <1>1 DEF IInv, Typed
<1>3. Controls' /\ Pending'
  BY <1>1 DEF IInv, Controls, Pending, Adds, NoTrap
<1>4. OneAdds'
  BY <1>1 DEF IInv, OneAdds, Adding
<1>5. NewRegion'
  BY <1>1 DEF IInv, NewRegion, Lists, Base
<1>6. AllListed'
  BY <1>1 DEF IInv, AllListed, Lists
<1>7. Placed'
  BY <1>1, PlacedKept DEF IInv, Holds
<1>8. QED
  BY <1>2, <1>3, <1>4, <1>5, <1>6, <1>7 DEF IInv

(* An append to a list that was read before, and has not changed since.     *)
LEMMA Appended ==
  ASSUME NEW n, NEW s \in Seq(1 .. n), NEW r \in 1 .. n
  PROVE  /\ Append(s, r) \in Seq(1 .. n)
         /\ \A q : (\E i \in DOMAIN s : s[i] = q) \/ q = r =>
                   \E i \in DOMAIN Append(s, r) : Append(s, r)[i] = q
<1> DEFINE s2 == Append(s, r)
<1>1. /\ Len(s2) = Len(s) + 1 /\ s2[Len(s) + 1] = r /\ Len(s) \in Nat
      /\ \A i \in 1 .. Len(s) : s2[i] = s[i]
      /\ DOMAIN s = 1 .. Len(s) /\ DOMAIN s2 = 1 .. Len(s2)
      /\ s2 \in Seq(1 .. n)
  OBVIOUS
<1> HIDE DEF s2
<1>2. \A q : (\E i \in DOMAIN s : s[i] = q) \/ q = r => \E i \in DOMAIN s2 : s2[i] = q
  BY <1>1
<1>3. QED
  BY <1>1, <1>2 DEF s2

LEMMA WriteAddrsStep ==
  ASSUME HookConstants, IInv, NEW t \in Tasks, WriteAddrs(t)
  PROVE  IInv'
<1>1. /\ at[t] = "listed" /\ at' \in [Tasks -> Steps] /\ at'[t] = "range"
      /\ \A u \in Tasks \ {t} : at'[u] = at[u]
  BY Moved DEF WriteAddrs, IInv, Steps
<1>2. UNCHANGED <<regions, queue, ctrlRange, hooks, addr, seen, closes, trap, result>>
  BY DEF WriteAddrs
<1>3. regions \in Nat /\ regions \in 1 .. regions /\ addr[t] = regions
  BY <1>1 DEF IInv, Typed, NewRegion, Lists
<1>4. ctrlAddrs' = Append(ctrlAddrs, regions) /\ ctrlAddrs \in Seq(1 .. regions)
  BY <1>1, <1>3 DEF WriteAddrs, IInv, AllListed, Typed
<1>5. /\ ctrlAddrs' \in Seq(1 .. regions)
      /\ \A q : (\E i \in DOMAIN ctrlAddrs : ctrlAddrs[i] = q) \/ q = regions
                  => \E i \in DOMAIN ctrlAddrs' : ctrlAddrs'[i] = q
  BY <1>3, <1>4, Appended
<1>6. \A u \in Tasks \ {t} : at[u] \notin Lists
  BY <1>1 DEF IInv, OneAdds, Adding, Lists
<1>7. Typed'
  BY <1>1, <1>2, <1>5 DEF IInv, Typed
<1>8. Controls' /\ Pending'
  BY <1>1, <1>2 DEF IInv, Controls, Pending, Adds, NoTrap
<1>9. OneAdds'
  BY <1>1 DEF IInv, OneAdds, Adding
<1>10. NewRegion'
  BY <1>1, <1>2 DEF IInv, NewRegion, Lists, Base
<1>11. AllListed'
  <2>1. \A r \in 1 .. regions : \E i \in DOMAIN ctrlAddrs' : ctrlAddrs'[i] = r
    BY <1>5 DEF IInv, AllListed
  <2>2. \A r \in 1 .. regions :
          \/ \E i \in DOMAIN ctrlRange : ctrlRange[i] = r
          \/ r = regions /\ at'[t] \in Lists
    BY <1>1, <1>6 DEF IInv, AllListed, Lists
  <2>3. \A u \in Tasks : at'[u] # "listed" /\ at'[u] # "ranged"
    BY <1>1, <1>6 DEF Lists
  <2>4. QED
    BY <1>2, <2>1, <2>2, <2>3 DEF AllListed
<1>12. Placed'
  BY <1>1, <1>2, PlacedKept DEF IInv, Holds
<1>13. QED
  BY <1>7, <1>8, <1>9, <1>10, <1>11, <1>12 DEF IInv

LEMMA WriteRangeStep ==
  ASSUME HookConstants, IInv, NEW t \in Tasks, WriteRange(t)
  PROVE  IInv'
<1>1. /\ at[t] = "ranged" /\ at' \in [Tasks -> Steps] /\ at'[t] = "take"
      /\ \A u \in Tasks \ {t} : at'[u] = at[u]
  BY Moved DEF WriteRange, IInv, Steps
<1>2. UNCHANGED <<regions, queue, ctrlAddrs, hooks, addr, seen, closes, trap, result>>
  BY DEF WriteRange
<1>3. regions \in Nat /\ regions \in 1 .. regions /\ addr[t] = regions
  BY <1>1 DEF IInv, Typed, NewRegion, Lists
<1>4. ctrlRange' = Append(ctrlRange, regions) /\ ctrlRange \in Seq(1 .. regions)
  BY <1>1, <1>3 DEF WriteRange, IInv, AllListed, Typed
<1>5. /\ ctrlRange' \in Seq(1 .. regions)
      /\ \A q : (\E i \in DOMAIN ctrlRange : ctrlRange[i] = q) \/ q = regions
                  => \E i \in DOMAIN ctrlRange' : ctrlRange'[i] = q
  BY <1>3, <1>4, Appended
<1>6. \A u \in Tasks \ {t} : at[u] \notin Lists
  BY <1>1 DEF IInv, OneAdds, Adding, Lists
<1>7. Typed'
  BY <1>1, <1>2, <1>5 DEF IInv, Typed
<1>8. Controls' /\ Pending'
  BY <1>1, <1>2 DEF IInv, Controls, Pending, Adds, NoTrap
<1>9. OneAdds'
  BY <1>1 DEF IInv, OneAdds, Adding
<1>10. NewRegion'
  BY <1>1, <1>2 DEF IInv, NewRegion, Lists, Base
<1>11. AllListed'
  <2>1. \A r \in 1 .. regions : \E i \in DOMAIN ctrlRange' : ctrlRange'[i] = r
    BY <1>5 DEF IInv, AllListed
  <2>2. \A r \in 1 .. regions : \E i \in DOMAIN ctrlAddrs : ctrlAddrs[i] = r
    BY <1>1, <1>6 DEF IInv, AllListed, Lists
  <2>3. \A u \in Tasks : at'[u] # "listed" /\ at'[u] # "ranged"
    BY <1>1, <1>6 DEF Lists
  <2>4. QED
    BY <1>2, <2>1, <2>2, <2>3 DEF AllListed
<1>12. Placed'
  BY <1>1, <1>2, PlacedKept DEF IInv, Holds
<1>13. QED
  BY <1>7, <1>8, <1>9, <1>10, <1>11, <1>12 DEF IInv

LEMMA StoreControlStep ==
  ASSUME HookConstants, IInv, NEW t \in Tasks, StoreControl(t)
  PROVE  IInv'
<1>1. /\ at[t] = "hook" /\ at' \in [Tasks -> Steps] /\ at'[t] = "open"
      /\ \A u \in Tasks \ {t} : at'[u] = at[u]
  BY Moved DEF StoreControl, IInv, Steps
<1>2. /\ UNCHANGED <<regions, queue, ctrlAddrs, ctrlRange, addr, seen, closes, trap, result>>
      /\ hooks' = hooks \cup {t}
  BY DEF StoreControl
<1>3. Typed'
  BY <1>1, <1>2 DEF IInv, Typed
<1>4. Controls' /\ Pending'
  BY <1>1, <1>2 DEF IInv, Controls, Pending, Adds, NoTrap
<1>5. OneAdds'
  BY <1>1 DEF IInv, OneAdds, Adding
<1>6. NewRegion'
  BY <1>1, <1>2 DEF IInv, NewRegion, Lists, Base
<1>7. AllListed'
  BY <1>1, <1>2 DEF IInv, AllListed, Lists
<1>8. Placed'
  BY <1>1, <1>2, PlacedKept DEF IInv, Holds
<1>9. QED
  BY <1>3, <1>4, <1>5, <1>6, <1>7, <1>8 DEF IInv

LEMMA CloseHookStep ==
  ASSUME HookConstants, IInv, NEW t \in Tasks, CloseHook(t)
  PROVE  IInv'
<1>1. closes[t] = 0 /\ at[t] = "open"
  <2>1. closes[t] \in 0 .. 1 /\ closes[t] < MaxCloses /\ MaxCloses \in 0 .. 1
    BY DEF CloseHook, IInv, Typed, HookConstants
  <2>2. closes[t] = 0
    BY <2>1
  <2>3. QED
    BY <2>2 DEF CloseHook, IInv, Controls, Adds
<1>2. /\ at' \in [Tasks -> Steps] /\ at'[t] = "free" /\ closes' \in [Tasks -> 0 .. 1]
      /\ closes'[t] = 1 /\ hooks' = hooks \ {t}
      /\ \A u \in Tasks \ {t} : at'[u] = at[u] /\ closes'[u] = closes[u]
      /\ UNCHANGED <<regions, queue, ctrlAddrs, ctrlRange, addr, seen, trap, result>>
  BY <1>1 DEF CloseHook, IInv, Typed, Steps
<1>3. Typed'
  BY <1>1, <1>2 DEF IInv, Typed
<1>4. Controls' /\ Pending'
  BY <1>1, <1>2 DEF IInv, Controls, Pending, Adds, NoTrap
<1>5. OneAdds'
  BY <1>2 DEF IInv, OneAdds, Adding
<1>6. NewRegion'
  BY <1>2 DEF IInv, NewRegion, Lists, Base
<1>7. AllListed'
  BY <1>1, <1>2 DEF IInv, AllListed, Lists
<1>8. Placed'
  BY <1>1, <1>2, PlacedKept DEF IInv, Holds
<1>9. QED
  BY <1>3, <1>4, <1>5, <1>6, <1>7, <1>8 DEF IInv

LEMMA CancelStep ==
  ASSUME HookConstants, IInv, NEW t \in Tasks, Cancel(t)
  PROVE  IInv'
<1>1. /\ at[t] = "cancel" /\ at' \in [Tasks -> Steps] /\ at'[t] = "closed"
      /\ \A u \in Tasks \ {t} : at'[u] = at[u]
  BY Moved DEF Cancel, IInv, Steps
<1>2. /\ UNCHANGED <<regions, queue, ctrlAddrs, ctrlRange, hooks, addr, seen, closes, trap>>
      /\ result' \in [Tasks -> {"none", "done", "closed", "exception", "astray"}]
      /\ \A u \in Tasks \ {t} : result'[u] = result[u]
  BY DEF Cancel, IInv, Typed
<1>3. Typed'
  BY <1>1, <1>2 DEF IInv, Typed
<1>4. Controls' /\ Pending'
  BY <1>1, <1>2 DEF IInv, Controls, Pending, Adds, NoTrap
<1>5. OneAdds'
  BY <1>1 DEF IInv, OneAdds, Adding
<1>6. NewRegion'
  BY <1>1, <1>2 DEF IInv, NewRegion, Lists, Base
<1>7. AllListed'
  BY <1>1, <1>2 DEF IInv, AllListed, Lists
<1>8. Placed'
  BY <1>1, <1>2, PlacedKept DEF IInv, Holds
<1>9. QED
  BY <1>3, <1>4, <1>5, <1>6, <1>7, <1>8 DEF IInv

LEMMA UserHookStep ==
  ASSUME HookConstants, IInv, NEW h \in UserHooks, AddHook(h) \/ CloseUserHook(h)
  PROVE  IInv'
<1>1. UNCHANGED <<regions, queue, ctrlAddrs, ctrlRange, at, addr, seen, closes, trap, result>>
  BY DEF AddHook, CloseUserHook
<1>2. /\ hooks' \subseteq Tasks \cup UserHooks
      /\ \A t \in Tasks : t \in hooks' <=> t \in hooks
  BY DEF AddHook, CloseUserHook, IInv, Typed, HookConstants
<1>3. Typed'
  BY <1>1, <1>2 DEF IInv, Typed
<1>4. Controls' /\ Pending'
  BY <1>1, <1>2 DEF IInv, Controls, Pending, NoTrap
<1>5. OneAdds'
  BY <1>1 DEF IInv, OneAdds, Adding
<1>6. NewRegion'
  BY <1>1 DEF IInv, NewRegion, Base
<1>7. AllListed'
  BY <1>1 DEF IInv, AllListed
<1>8. Placed'
  BY <1>1, PlacedKept DEF IInv, Holds
<1>9. QED
  BY <1>3, <1>4, <1>5, <1>6, <1>7, <1>8 DEF IInv

LEMMA RaiseStep ==
  ASSUME HookConstants, IInv, NEW t \in Tasks, ReturnToControl(t) \/ GuestEvent(t)
  PROVE  IInv'
<1>1. PICK e \in [kind : Kinds, pc : Int] : Raise(t, e)
  <2>1. CASE ReturnToControl(t)
    <3>1. OwnTrap(t) \in [kind : Kinds, pc : Int]
      BY DEF OwnTrap, Kinds, IInv, Typed
    <3>2. QED
      BY <2>1, <3>1 DEF ReturnToControl
  <2>2. CASE GuestEvent(t)
    <3>1. PICK g \in GuestCode, kind \in Kinds : Raise(t, [kind |-> kind, pc |-> g + 1])
      BY <2>2 DEF GuestEvent
    <3>2. [kind |-> kind, pc |-> g + 1] \in [kind : Kinds, pc : Int]
      BY <3>1 DEF HookConstants
    <3>3. QED
      BY <3>1, <3>2
  <2>3. QED
    BY <2>1, <2>2
<1>2. /\ UNCHANGED <<regions, queue, ctrlAddrs, ctrlRange, hooks, at, addr, seen, closes, result>>
      /\ trap' \in [Tasks -> [kind : Kinds \cup {"none"}, pc : Int]]
      /\ \A u \in Tasks \ {t} : trap'[u] = trap[u]
      /\ at[t] \in {"open", "free", "cancel"} /\ result[t] = "none"
  BY <1>1 DEF Raise, Live, IInv, Typed
<1>3. Typed'
  BY <1>2 DEF IInv, Typed
<1>4. Controls' /\ Pending'
  BY <1>2 DEF IInv, Controls, Pending, NoTrap, Adds
<1>5. OneAdds'
  BY <1>2 DEF IInv, OneAdds, Adding
<1>6. NewRegion'
  BY <1>2 DEF IInv, NewRegion, Base
<1>7. AllListed'
  BY <1>2 DEF IInv, AllListed
<1>8. Placed'
  BY <1>2, PlacedKept DEF IInv, Holds
<1>9. QED
  BY <1>3, <1>4, <1>5, <1>6, <1>7, <1>8 DEF IInv

(* An event that is handled changes the result of its own task only.        *)
LEMMA Dispatched ==
  ASSUME Typed, NEW t \in Tasks, Dispatch(t)
  PROVE  /\ UNCHANGED <<regions, queue, ctrlAddrs, ctrlRange, hooks, at, addr, seen, closes>>
         /\ trap[t] # NoTrap /\ trap'[t] = NoTrap /\ \A u \in Tasks \ {t} : trap'[u] = trap[u]
         /\ trap' \in [Tasks -> [kind : Kinds \cup {"none"}, pc : Int]]
         /\ result' \in [Tasks -> {"none", "done", "closed", "exception", "astray"}]
         /\ \A u \in Tasks \ {t} : result'[u] = result[u]
<1>1. /\ UNCHANGED <<regions, queue, ctrlAddrs, ctrlRange, hooks, at, addr, seen, closes>>
      /\ trap[t] # NoTrap /\ trap' = [trap EXCEPT ![t] = NoTrap]
      /\ \/ \E h \in Answers(trap[t]) \cap Tasks : ControlCalled(t, h)
         \/ result' = IF trap[t] = OwnTrap(t) THEN [result EXCEPT ![t] = "astray"] ELSE result
         \/ result' = [result EXCEPT ![t] = IF @ = "none" THEN "exception" ELSE @]
  BY DEF Dispatch
<1>2. NoTrap \in [kind : Kinds \cup {"none"}, pc : Int]
  BY DEF NoTrap
<1>3. /\ trap' \in [Tasks -> [kind : Kinds \cup {"none"}, pc : Int]]
      /\ trap'[t] = NoTrap /\ \A u \in Tasks \ {t} : trap'[u] = trap[u]
  BY <1>1, <1>2 DEF Typed
<1>4. PICK v \in {"none", "done", "closed", "exception", "astray"} :
        result' = [result EXCEPT ![t] = v]
  <2>1. CASE \E h \in Answers(trap[t]) \cap Tasks : ControlCalled(t, h)
    BY <2>1 DEF ControlCalled, Typed
  <2>2. CASE result' = IF trap[t] = OwnTrap(t) THEN [result EXCEPT ![t] = "astray"] ELSE result
    <3>1. result = [result EXCEPT ![t] = result[t]]
          /\ result[t] \in {"none", "done", "closed", "exception", "astray"}
      BY DEF Typed
    <3>2. CASE trap[t] = OwnTrap(t)
      BY <2>2, <3>2
    <3>3. CASE trap[t] # OwnTrap(t)
      BY <2>2, <3>1, <3>3
    <3>4. QED
      BY <3>2, <3>3
  <2>3. CASE result' = [result EXCEPT ![t] = IF @ = "none" THEN "exception" ELSE @]
    BY <2>3 DEF Typed
  <2>4. QED
    BY <1>1, <2>1, <2>2, <2>3
<1>5. QED
  BY <1>1, <1>3, <1>4 DEF Typed

LEMMA DispatchStep ==
  ASSUME HookConstants, IInv, NEW t \in Tasks, Dispatch(t)
  PROVE  IInv'
<1>1. /\ UNCHANGED <<regions, queue, ctrlAddrs, ctrlRange, hooks, at, addr, seen, closes>>
      /\ trap[t] # NoTrap /\ trap'[t] = NoTrap /\ \A u \in Tasks \ {t} : trap'[u] = trap[u]
      /\ trap' \in [Tasks -> [kind : Kinds \cup {"none"}, pc : Int]]
      /\ result' \in [Tasks -> {"none", "done", "closed", "exception", "astray"}]
      /\ \A u \in Tasks \ {t} : result'[u] = result[u]
  BY Dispatched DEF IInv
<1>2. NoTrap' = NoTrap
  BY DEF NoTrap
<1>3. Typed'
  BY <1>1 DEF IInv, Typed
<1>4. Controls' /\ Pending'
  BY <1>1, <1>2 DEF IInv, Controls, Pending
<1>5. OneAdds'
  BY <1>1 DEF IInv, OneAdds, Adding
<1>6. NewRegion'
  BY <1>1 DEF IInv, NewRegion, Base
<1>7. AllListed'
  BY <1>1 DEF IInv, AllListed
<1>8. Placed'
  BY <1>1, PlacedKept DEF IInv, Holds
<1>9. QED
  BY <1>3, <1>4, <1>5, <1>6, <1>7, <1>8 DEF IInv

-----------------------------------------------------------------------------
(* Steps that move addresses                                                *)

LEMMA TailOf ==
  ASSUME Typed, NEW r \in 1 .. Regions, queue[r] # << >>,
         queue' = [queue EXCEPT ![r] = Tail(@)]
  PROVE  /\ queue' \in [1 .. Regions -> Seq(Int)]
         /\ Len(queue[r]) \in Nat \ {0} /\ Len(queue'[r]) = Len(queue[r]) - 1
         /\ Head(queue[r]) = queue[r][1] /\ queue[r][1] \in Int
         /\ \A i \in 1 .. Len(queue'[r]) : queue'[r][i] = queue[r][i + 1]
         /\ \A s \in 1 .. Regions \ {r} : queue'[s] = queue[s]
<1>1. queue[r] \in Seq(Int) /\ queue'[r] = Tail(queue[r])
  BY DEF Typed
<1>2. QED
  BY <1>1 DEF Typed

LEMMA AppendOf ==
  ASSUME Typed, NEW r \in 1 .. Regions, NEW a \in Int,
         queue' = [queue EXCEPT ![r] = Append(@, a)]
  PROVE  /\ queue' \in [1 .. Regions -> Seq(Int)]
         /\ Len(queue[r]) \in Nat /\ Len(queue'[r]) = Len(queue[r]) + 1
         /\ queue'[r][Len(queue[r]) + 1] = a
         /\ \A i \in 1 .. Len(queue[r]) : queue'[r][i] = queue[r][i]
         /\ \A s \in 1 .. Regions \ {r} : queue'[s] = queue[s]
<1>1. queue[r] \in Seq(Int) /\ queue'[r] = Append(queue[r], a)
  BY DEF Typed
<1>2. QED
  BY <1>1 DEF Typed

(* ctrlAddrAlloc takes an address out of its channel.                       *)
LEMMA TakeAddrStep ==
  ASSUME HookConstants, IInv, NEW t \in Tasks, TakeAddr(t)
  PROVE  IInv'
<1>1. /\ at[t] = "take" /\ at' \in [Tasks -> Steps] /\ at'[t] = "hook"
      /\ \A u \in Tasks \ {t} : at'[u] = at[u]
  BY Moved DEF TakeAddr, IInv, Steps
<1>2. UNCHANGED <<regions, ctrlAddrs, ctrlRange, hooks, seen, closes, trap, result>>
  BY DEF TakeAddr
<1>3. PICK r \in 1 .. Regions :
        /\ r \in 1 .. regions /\ queue[r] # << >>
        /\ addr' = [addr EXCEPT ![t] = Head(queue[r])]
        /\ queue' = [queue EXCEPT ![r] = Tail(@)]
  <2>1. PICK i \in DOMAIN ctrlAddrs :
          /\ queue[ctrlAddrs[i]] # << >>
          /\ addr' = [addr EXCEPT ![t] = Head(queue[ctrlAddrs[i]])]
          /\ queue' = [queue EXCEPT ![ctrlAddrs[i]] = Tail(@)]
    BY DEF TakeAddr, Empty
  <2>2. ctrlAddrs[i] \in 1 .. regions /\ 1 .. regions \subseteq 1 .. Regions
    BY DEF IInv, Typed, HookConstants
  <2>3. QED
    BY <2>1, <2>2
<1> PICK a : a = queue[r][1]
  OBVIOUS
<1>4. /\ queue' \in [1 .. Regions -> Seq(Int)]
      /\ Len(queue[r]) \in Nat \ {0} /\ Len(queue'[r]) = Len(queue[r]) - 1
      /\ a \in Int /\ addr' = [addr EXCEPT ![t] = a]
      /\ \A i \in 1 .. Len(queue'[r]) : queue'[r][i] = queue[r][i + 1]
      /\ \A s \in 1 .. Regions \ {r} : queue'[s] = queue[s]
  BY <1>3, TailOf DEF IInv
<1>5. addr' \in [Tasks -> Int] /\ addr'[t] = a /\ \A u \in Tasks \ {t} : addr'[u] = addr[u]
  BY <1>4 DEF IInv, Typed
<1>6. Typed'
  <2>1. ASSUME NEW s \in 1 .. Regions PROVE Len(queue'[s]) <= Count
    <3>1. Len(queue[s]) <= Count /\ Count \in Nat
      BY DEF IInv, Typed, HookConstants
    <3>2. QED
      BY <1>4, <3>1
  <2>2. \A s \in regions + 1 .. Regions : queue'[s] = << >>
    BY <1>3, <1>4 DEF IInv, Typed, HookConstants
  <2>3. QED
    BY <1>1, <1>2, <1>4, <1>5, <2>1, <2>2 DEF IInv, Typed
<1>7. Controls' /\ Pending'
  BY <1>1, <1>2 DEF IInv, Controls, Pending, Adds, NoTrap
<1>8. OneAdds'
  BY <1>1 DEF IInv, OneAdds, Adding
<1>9. NewRegion' /\ AllListed'
  <2>1. \A u \in Tasks : at[u] \notin Lists /\ at'[u] \notin Lists
    BY <1>1 DEF IInv, OneAdds, Adding, Lists
  <2>2. QED
    BY <1>2, <2>1 DEF IInv, NewRegion, AllListed, Lists
<1>10. Placed'
  <2> USE DEF Placed
  <2>1. \A b : IsSlot(b)' <=> IsSlot(b)
    BY <1>2 DEF IsSlot, Slots, Base
  <2>2. \A b : Queued(b)' => Queued(b) /\ b # a
    <3>1. SUFFICES ASSUME NEW s \in 1 .. Regions, NEW i \in 1 .. Len(queue'[s])
                   PROVE  Queued(queue'[s][i]) /\ queue'[s][i] # a
      BY DEF Queued
    <3>2. CASE s = r
      <4>1. i + 1 \in 1 .. Len(queue[r]) /\ queue'[s][i] = queue[r][i + 1] /\ i + 1 # 1
        BY <1>4, <3>2
      <4>2. 1 \in 1 .. Len(queue[r])
        BY <1>4
      <4>3. QED
        BY <4>1, <4>2 DEF Queued, IInv
    <3>3. CASE s # r
      <4>1. queue'[s] = queue[s] /\ 1 \in 1 .. Len(queue[r])
        BY <1>4, <3>3
      <4>2. QED
        BY <3>3, <4>1 DEF Queued, IInv
    <3>4. QED
      BY <3>2, <3>3
  <2>3. \A b : Queued(b) => Queued(b)' \/ b = a
    <3>1. SUFFICES ASSUME NEW s \in 1 .. Regions, NEW i \in 1 .. Len(queue[s]), queue[s][i] # a
                   PROVE  \E j \in 1 .. Len(queue'[s]) : queue'[s][j] = queue[s][i]
      BY DEF Queued
    <3>2. CASE s = r
      <4>1. i # 1
        BY <3>1, <3>2
      <4>2. i - 1 \in 1 .. Len(queue'[r]) /\ queue'[r][i - 1] = queue[r][i]
        BY <1>4, <3>2, <4>1
      <4>3. QED
        BY <3>2, <4>2
    <3>3. CASE s # r
      BY <1>4, <3>3
    <3>4. QED
      BY <3>2, <3>3
  <2>4. Queued(a) /\ IsSlot(a)
    <3>1. 1 \in 1 .. Len(queue[r])
      BY <1>4
    <3>2. QED
      BY <3>1 DEF Queued, IInv
  <2>5. ~Holds(t) /\ Holds(t)' /\ \A u \in Tasks \ {t} : Holds(u)' <=> Holds(u)
    BY <1>1, <1>2 DEF Holds
  <2>6. (\A s \in 1 .. Regions : \A i \in 1 .. Len(queue[s]) : IsSlot(queue[s][i]))'
    <3>1. SUFFICES ASSUME NEW s \in 1 .. Regions, NEW i \in 1 .. Len(queue'[s])
                   PROVE  IsSlot(queue'[s][i])
      BY <2>1
    <3>2. Queued(queue'[s][i])
      BY <2>2 DEF Queued
    <3>3. QED
      BY <3>2 DEF Queued, IInv
  <2>7. (\A s, q \in 1 .. Regions : \A i \in 1 .. Len(queue[s]), j \in 1 .. Len(queue[q]) :
           queue[s][i] = queue[q][j] => s = q /\ i = j)'
    <3>1. SUFFICES ASSUME NEW s \in 1 .. Regions, NEW q \in 1 .. Regions,
                          NEW i \in 1 .. Len(queue'[s]), NEW j \in 1 .. Len(queue'[q]),
                          queue'[s][i] = queue'[q][j]
                   PROVE  s = q /\ i = j
      OBVIOUS
    <3>2. PICK x \in 1 .. Len(queue[s]) :
            queue'[s][i] = queue[s][x] /\ x = IF s = r THEN i + 1 ELSE i
      BY <1>4
    <3>3. PICK y \in 1 .. Len(queue[q]) :
            queue'[q][j] = queue[q][y] /\ y = IF q = r THEN j + 1 ELSE j
      BY <1>4
    <3>4. s = q /\ x = y
      <4>1. queue[s][x] = queue[q][y]
        BY <3>1, <3>2, <3>3
      <4>2. Placed
        BY DEF IInv
      <4>3. QED
        BY <4>1, <4>2
    <3>5. QED
      BY <3>2, <3>3, <3>4
  <2>8. (\A u \in Tasks : Holds(u) => IsSlot(addr[u]) /\ ~Queued(addr[u]))'
    BY <1>5, <2>1, <2>2, <2>4, <2>5 DEF IInv
  <2>9. (\A u, v \in Tasks : Holds(u) /\ Holds(v) /\ addr[u] = addr[v] => u = v)'
    BY <1>5, <2>4, <2>5 DEF IInv
  <2>10. (\A b \in Int : IsSlot(b) => Queued(b) \/ Held(b))'
    <3>1. Held(a)'
      BY <1>5, <2>5 DEF Held
    <3>2. \A b : Held(b) => Held(b)'
      BY <1>5, <2>5 DEF Held
    <3>3. QED
      BY <2>1, <2>3, <3>1, <3>2 DEF IInv
  <2>11. QED
    BY <2>6, <2>7, <2>8, <2>9, <2>10
<1>11. QED
  BY <1>6, <1>7, <1>8, <1>9, <1>10 DEF IInv

(* allocCtrlAddrs adds a region, whose addresses are new.                   *)
LEMMA MapRegionStep ==
  ASSUME HookConstants, IInv, NEW t \in Tasks, MapRegion(t)
  PROVE  IInv'
<1>1. /\ at[t] = "take" /\ at' \in [Tasks -> Steps] /\ at'[t] = "list"
      /\ \A u \in Tasks \ {t} : at'[u] = at[u]
  BY Moved DEF MapRegion, IInv, Steps
<1>2. UNCHANGED <<ctrlAddrs, ctrlRange, hooks, seen, closes, trap, result>>
  BY DEF MapRegion
<1>3. PICK n \in 1 .. Regions : n = regions + 1
  BY DEF MapRegion, IInv, Typed, HookConstants
<1>4. /\ regions' = n /\ n > 0 /\ regions \in Nat /\ Regions \in Nat
      /\ Count \in Nat /\ Base(n) \in Nat
  BY <1>3, BaseType DEF MapRegion, IInv, Typed, HookConstants
<1>5. /\ addr' \in [Tasks -> Int] /\ addr'[t] = n
      /\ \A u \in Tasks \ {t} : addr'[u] = addr[u]
  BY <1>3, <1>4 DEF MapRegion, IInv, Typed
<1> DEFINE new == [i \in 1 .. Count |-> Base(n) + i - 1]
<1>6. /\ new \in Seq(Int) /\ Len(new) = Count
      /\ \A i \in 1 .. Count : new[i] = Base(n) + i - 1
  BY <1>4
<1>7. queue' = [queue EXCEPT ![n] = new] /\ queue[n] = << >>
  BY <1>3, <1>4 DEF MapRegion, IInv, Typed
<1> HIDE DEF new
<1>8. /\ queue' \in [1 .. Regions -> Seq(Int)] /\ queue'[n] = new
      /\ \A s \in 1 .. Regions \ {n} : queue'[s] = queue[s]
  BY <1>6, <1>7 DEF IInv, Typed
<1>9. \A b : IsSlot(b)' <=> IsSlot(b) \/ b \in Slots(n)
  <2>1. 1 .. n = (1 .. regions) \cup {n}
    BY <1>3, <1>4
  <2>2. QED
    BY <1>4, <2>1 DEF IsSlot, Slots, Base
<1>10. \A b : IsSlot(b) => b \notin Slots(n)
  <2>1. SUFFICES ASSUME NEW r \in 1 .. regions, NEW b \in Slots(r), b \in Slots(n)
                 PROVE  FALSE
    BY DEF IsSlot
  <2>2. r = n
    BY <1>4, <2>1, OneRegion
  <2>3. QED
    BY <1>3, <1>4, <2>2
<1>11. Typed'
  <2>1. ctrlAddrs' \in Seq(1 .. n) /\ ctrlRange' \in Seq(1 .. n)
    <3>1. 1 .. regions \subseteq 1 .. n
      BY <1>3, <1>4
    <3>2. ctrlAddrs \in Seq(1 .. n) /\ ctrlRange \in Seq(1 .. n)
      BY <3>1, SeqMonotonic DEF IInv, Typed
    <3>3. QED
      BY <1>2, <3>2
  <2>2. ASSUME NEW s \in 1 .. Regions PROVE Len(queue'[s]) <= Count
    <3>1. CASE s = n
      BY <1>4, <1>6, <1>8, <3>1
    <3>2. CASE s # n
      BY <1>8, <3>2 DEF IInv, Typed
    <3>3. QED
      BY <3>1, <3>2
  <2>3. ASSUME NEW s \in n + 1 .. Regions PROVE queue'[s] = << >>
    <3>1. s \in regions + 1 .. Regions /\ s \in 1 .. Regions \ {n}
      BY <1>3, <1>4
    <3>2. queue[s] = << >>
      BY <3>1 DEF IInv, Typed
    <3>3. QED
      BY <1>8, <3>1, <3>2
  <2>4. QED
    BY <1>1, <1>2, <1>4, <1>5, <1>8, <2>1, <2>2, <2>3 DEF IInv, Typed
<1>12. Controls' /\ Pending'
  BY <1>1, <1>2 DEF IInv, Controls, Pending, Adds, NoTrap
<1>13. OneAdds'
  BY <1>1 DEF IInv, OneAdds, Adding
<1>14. \A u \in Tasks \ {t} : at[u] \notin Lists /\ at'[u] \notin Lists
  BY <1>1 DEF IInv, OneAdds, Adding, Lists
<1>15. NewRegion'
  <2>1. \A i \in 1 .. Count : queue'[n][i] = Base(n) + i - 1
    BY <1>6, <1>8
  <2>2. QED
    BY <1>4, <1>5, <1>6, <1>8, <1>14, <2>1 DEF NewRegion, Base
<1>16. AllListed'
  <2>1. \A r \in 1 .. regions : \E i \in DOMAIN ctrlAddrs : ctrlAddrs[i] = r
    BY <1>1, <1>14 DEF IInv, AllListed, Lists
  <2>2. \A r \in 1 .. regions : \E i \in DOMAIN ctrlRange : ctrlRange[i] = r
    BY <1>1, <1>14 DEF IInv, AllListed, Lists
  <2>3. \A r \in 1 .. n : r \in 1 .. regions \/ r = n
    BY <1>3, <1>4
  <2>4. \A u \in Tasks : at'[u] # "listed" /\ at'[u] # "ranged"
    BY <1>1, <1>14 DEF Lists
  <2>5. at'[t] \in {"list", "listed"} /\ at'[t] \in Lists
    BY <1>1 DEF Lists
  <2>6. QED
    BY <1>2, <1>4, <2>1, <2>2, <2>3, <2>4, <2>5 DEF AllListed
<1>17. Placed'
  <2>1. Placed
    BY DEF IInv
  <2>2. \A b : Queued(b)' <=> Queued(b) \/ b \in Slots(n)
    <3>1. \A b \in Slots(n) : \E i \in 1 .. Len(queue'[n]) : queue'[n][i] = b
      <4>1. SUFFICES ASSUME NEW k \in 0 .. Count - 1
                     PROVE  \E i \in 1 .. Len(queue'[n]) : queue'[n][i] = Base(n) + k
        BY DEF Slots
      <4>2. k + 1 \in 1 .. Len(queue'[n]) /\ queue'[n][k + 1] = Base(n) + (k + 1) - 1
        BY <1>4, <1>6, <1>8
      <4>3. QED
        BY <1>4, <4>2
    <3>2. \A i \in 1 .. Len(queue'[n]) : queue'[n][i] \in Slots(n)
      <4>1. SUFFICES ASSUME NEW i \in 1 .. Count PROVE Base(n) + i - 1 \in Slots(n)
        BY <1>6, <1>8
      <4>2. i - 1 \in 0 .. Count - 1 /\ Base(n) + i - 1 = Base(n) + (i - 1)
        BY <1>4
      <4>3. QED
        BY <4>2 DEF Slots
    <3>3. 1 .. Len(queue[n]) = {}
      BY <1>7
    <3>4. \A b : Queued(b)' => Queued(b) \/ b \in Slots(n)
      BY <1>8, <3>2 DEF Queued
    <3>5. \A s \in 1 .. Regions : \A i \in 1 .. Len(queue[s]) :
            i \in 1 .. Len(queue'[s]) /\ queue'[s][i] = queue[s][i]
      <4>1. SUFFICES ASSUME NEW s \in 1 .. Regions, NEW i \in 1 .. Len(queue[s])
                     PROVE  i \in 1 .. Len(queue'[s]) /\ queue'[s][i] = queue[s][i]
        OBVIOUS
      <4>2. s # n
        BY <3>3
      <4>3. QED
        BY <1>8, <4>2
    <3>6. \A b : Queued(b) => Queued(b)'
      BY <3>5 DEF Queued
    <3>7. \A b \in Slots(n) : Queued(b)'
      BY <3>1 DEF Queued
    <3>8. QED
      BY <3>4, <3>6, <3>7
  <2>3. ~Holds(t) /\ ~Holds(t)' /\ \A u \in Tasks \ {t} : Holds(u)' <=> Holds(u)
    BY <1>1, <1>2 DEF Holds
  <2>4. \A b : Held(b) => Held(b)'
    BY <1>5, <2>3 DEF Held
  <2>5. (\A s \in 1 .. Regions : \A i \in 1 .. Len(queue[s]) : IsSlot(queue[s][i]))'
    <3>1. SUFFICES ASSUME NEW s \in 1 .. Regions, NEW i \in 1 .. Len(queue'[s]),
                          NEW b, b = queue'[s][i]
                   PROVE  IsSlot(b)'
      OBVIOUS
    <3>2. Queued(b)'
      BY <3>1 DEF Queued
    <3>3. QED
      BY <1>9, <2>1, <2>2, <3>2 DEF Queued, Placed
  <2>6. (\A s, q \in 1 .. Regions : \A i \in 1 .. Len(queue[s]), j \in 1 .. Len(queue[q]) :
           queue[s][i] = queue[q][j] => s = q /\ i = j)'
    <3>1. SUFFICES ASSUME NEW s \in 1 .. Regions, NEW q \in 1 .. Regions,
                          NEW i \in 1 .. Len(queue'[s]), NEW j \in 1 .. Len(queue'[q]),
                          queue'[s][i] = queue'[q][j]
                   PROVE  s = q /\ i = j
      OBVIOUS
    <3>2. \A k \in 1 .. Len(queue'[n]) : queue'[n][k] = Base(n) + k - 1 /\ queue'[n][k] \in Slots(n)
      <4>1. SUFFICES ASSUME NEW k \in 1 .. Count PROVE Base(n) + k - 1 \in Slots(n)
        BY <1>6, <1>8
      <4>2. k - 1 \in 0 .. Count - 1 /\ Base(n) + k - 1 = Base(n) + (k - 1)
        BY <1>4
      <4>3. QED
        BY <4>2 DEF Slots
    <3>3. \A r \in 1 .. Regions \ {n} : \A k \in 1 .. Len(queue'[r]) : queue'[r][k] \notin Slots(n)
      BY <1>8, <1>10, <2>1 DEF Placed
    <3>4. CASE s = n /\ q = n
      BY <1>4, <3>1, <3>2, <3>4
    <3>5. CASE s # n /\ q # n
      <4>1. queue'[s] = queue[s] /\ queue'[q] = queue[q]
        BY <1>8, <3>5
      <4>2. i \in 1 .. Len(queue[s]) /\ j \in 1 .. Len(queue[q]) /\ queue[s][i] = queue[q][j]
        BY <3>1, <4>1
      <4>3. QED
        BY <2>1, <4>2 DEF Placed
    <3>6. s = n <=> q = n
      BY <3>1, <3>2, <3>3
    <3>7. QED
      BY <3>4, <3>5, <3>6
  <2>7. (\A u \in Tasks : Holds(u) => IsSlot(addr[u]) /\ ~Queued(addr[u]))'
    BY <1>5, <1>9, <1>10, <2>1, <2>2, <2>3 DEF Placed
  <2>8. (\A u, v \in Tasks : Holds(u) /\ Holds(v) /\ addr[u] = addr[v] => u = v)'
    BY <1>5, <2>1, <2>3 DEF Placed
  <2>9. (\A b \in Int : IsSlot(b) => Queued(b) \/ Held(b))'
    BY <1>9, <2>1, <2>2, <2>4 DEF Placed
  <2>10. QED
    BY <2>5, <2>6, <2>7, <2>8, <2>9 DEF Placed
<1>18. QED
  BY <1>11, <1>12, <1>13, <1>15, <1>16, <1>17 DEF IInv

-----------------------------------------------------------------------------
(* A set of natural numbers has a least member: < is well-founded.          *)
LEMMA LeastOf ==
  ASSUME NEW T, T \subseteq Nat, T # {}
  PROVE  \E x \in T : \A y \in T : x <= y
<1> DEFINE less == {p \in Nat \X Nat : p[1] < p[2]}
<1>1. IsWellFoundedOn(less, Nat)
  BY NatLessThanWellFounded DEF OpToRel
<1>2. PICK x \in T : \A y \in T : <<y, x>> \notin less
  <2> HIDE DEF less
  <2>1. QED
    BY <1>1, WFMin
<1>3. ASSUME NEW y \in T, y < x PROVE FALSE
  <2>1. <<y, x>> \in less
    BY <1>3
  <2>2. QED
    BY <1>2, <2>1
<1>4. QED
  BY <1>3

(* ctrlAddrFree puts an address back into a channel with room, of some      *)
(* region: there is one.                                                    *)
LEMMA FreedTo ==
  ASSUME HookConstants, IInv, NEW t \in Tasks, Holds(t), CtrlAddrFree(addr[t])
  PROVE  \E r \in 1 .. regions :
           Room(r) /\ queue' = [queue EXCEPT ![r] = Append(@, addr[t])]
<1> DEFINE S == {i \in DOMAIN ctrlAddrs : Room(ctrlAddrs[i])}
<1>1. S # {}
  BY RoomForHeld
<1>2. ctrlAddrs \in Seq(1 .. regions) /\ S \subseteq Nat
  BY DEF IInv, Typed
<1>3. PICK i : i = CHOOSE k \in S : \A j \in S : k <= j
  OBVIOUS
<1>4. i \in S
  <2> HIDE DEF S
  <2>1. \E x \in S : \A y \in S : x <= y
    BY <1>1, <1>2, LeastOf
  <2>2. QED
    BY <1>3, <2>1, Zenon
<1>5. queue' = [queue EXCEPT ![ctrlAddrs[i]] = Append(@, addr[t])]
  BY <1>1, <1>3 DEF CtrlAddrFree
<1>6. ctrlAddrs[i] \in 1 .. regions /\ Room(ctrlAddrs[i])
  <2>1. i \in DOMAIN ctrlAddrs /\ Room(ctrlAddrs[i])
    BY <1>4
  <2>2. i \in 1 .. Len(ctrlAddrs)
    BY <1>2, <2>1, LenProperties
  <2>3. ctrlAddrs[i] \in 1 .. regions
    BY <1>2, <2>2, ElementOfSeq
  <2>4. QED
    BY <2>1, <2>3
<1>7. QED
  BY <1>5, <1>6

LEMMA CloseAddrStep ==
  ASSUME HookConstants, IInv, NEW t \in Tasks, CloseAddr(t)
  PROVE  IInv'
<1>1. /\ at[t] = "free" /\ at' \in [Tasks -> Steps] /\ at'[t] = "cancel"
      /\ \A u \in Tasks \ {t} : at'[u] = at[u]
  BY Moved DEF CloseAddr, IInv, Steps
<1>2. UNCHANGED <<regions, ctrlAddrs, ctrlRange, hooks, addr, seen, closes, trap, result>>
  BY DEF CloseAddr
<1>3. Holds(t) /\ ~Holds(t)' /\ \A u \in Tasks \ {t} : Holds(u)' <=> Holds(u)
  BY <1>1, <1>2 DEF Holds, IInv, Controls, Adds
<1>4. PICK a \in Int : a = addr[t]
  BY DEF IInv, Typed
<1>5. PICK r \in 1 .. regions : Room(r) /\ queue' = [queue EXCEPT ![r] = Append(@, a)]
  BY <1>3, <1>4, FreedTo DEF CloseAddr
<1>6. regions \in Nat /\ Regions \in Nat /\ regions <= Regions /\ r \in 1 .. Regions /\ Count \in Nat
  BY DEF IInv, Typed, HookConstants
<1>7. /\ queue' \in [1 .. Regions -> Seq(Int)]
      /\ Len(queue[r]) \in Nat /\ Len(queue'[r]) = Len(queue[r]) + 1
      /\ queue'[r][Len(queue[r]) + 1] = a
      /\ \A i \in 1 .. Len(queue[r]) : queue'[r][i] = queue[r][i]
      /\ \A s \in 1 .. Regions \ {r} : queue'[s] = queue[s]
  BY <1>5, <1>6, AppendOf DEF IInv
<1>8. Len(queue[r]) < Count
  BY <1>5 DEF Room
<1>9. Typed'
  <2>1. ASSUME NEW s \in 1 .. Regions PROVE Len(queue'[s]) <= Count
    <3>1. CASE s = r
      BY <1>6, <1>7, <1>8, <3>1
    <3>2. CASE s # r
      BY <1>7, <3>2 DEF IInv, Typed
    <3>3. QED
      BY <3>1, <3>2
  <2>2. ASSUME NEW s \in regions + 1 .. Regions PROVE queue'[s] = << >>
    BY <1>6, <1>7 DEF IInv, Typed
  <2>3. QED
    BY <1>1, <1>2, <1>7, <2>1, <2>2 DEF IInv, Typed
<1>10. Controls' /\ Pending'
  BY <1>1, <1>2 DEF IInv, Controls, Pending, Adds, NoTrap
<1>11. OneAdds'
  BY <1>1 DEF IInv, OneAdds, Adding
<1>12. NewRegion'
  <2>1. SUFFICES ASSUME NEW u \in Tasks, at'[u] \in Lists
                 PROVE  /\ addr'[u] = regions' /\ regions' > 0
                        /\ Len(queue'[regions]) = Count
                        /\ \A i \in 1 .. Count : queue'[regions][i] = Base(regions) + i - 1
    BY <1>2 DEF NewRegion, Base
  <2>2. at[u] \in Lists
    BY <1>1, <2>1 DEF Lists
  <2>3. /\ addr[u] = regions /\ regions > 0 /\ Len(queue[regions]) = Count
        /\ \A i \in 1 .. Count : queue[regions][i] = Base(regions) + i - 1
    BY <2>2 DEF IInv, NewRegion
  <2>4. r # regions /\ queue'[regions] = queue[regions]
    BY <1>6, <1>7, <1>8, <2>3
  <2>5. QED
    BY <1>2, <2>3, <2>4
<1>13. AllListed'
  BY <1>1, <1>2 DEF IInv, AllListed, Lists
<1>14. Placed'
  <2>1. Placed
    BY DEF IInv
  <2>2. \A b : IsSlot(b)' <=> IsSlot(b)
    BY <1>2 DEF IsSlot, Slots, Base
  <2>3. IsSlot(a) /\ ~Queued(a)
    BY <1>3, <1>4, <2>1 DEF Placed
  <2>4. \A s \in 1 .. Regions : \A i \in 1 .. Len(queue'[s]) :
          \/ i \in 1 .. Len(queue[s]) /\ queue'[s][i] = queue[s][i]
          \/ s = r /\ i = Len(queue[r]) + 1 /\ queue'[s][i] = a
    BY <1>7
  <2>5. \A b : Queued(b)' <=> Queued(b) \/ b = a
    <3>1. \A b : Queued(b)' => Queued(b) \/ b = a
      BY <2>4 DEF Queued
    <3>2. Len(queue[r]) + 1 \in 1 .. Len(queue'[r])
      BY <1>7
    <3>3. \A s \in 1 .. Regions : \A i \in 1 .. Len(queue[s]) :
            i \in 1 .. Len(queue'[s]) /\ queue'[s][i] = queue[s][i]
      BY <1>7
    <3>4. Queued(a)'
      BY <1>6, <1>7, <3>2 DEF Queued
    <3>5. \A b : Queued(b) => Queued(b)'
      BY <3>3 DEF Queued
    <3>6. QED
      BY <3>1, <3>4, <3>5
  <2>6. (\A s \in 1 .. Regions : \A i \in 1 .. Len(queue[s]) : IsSlot(queue[s][i]))'
    BY <2>1, <2>2, <2>3, <2>4 DEF Placed
  <2>7. (\A s, q \in 1 .. Regions : \A i \in 1 .. Len(queue[s]), j \in 1 .. Len(queue[q]) :
           queue[s][i] = queue[q][j] => s = q /\ i = j)'
    <3>1. \A s \in 1 .. Regions : \A i \in 1 .. Len(queue[s]) : queue[s][i] # a
      BY <2>3 DEF Queued
    <3>2. SUFFICES ASSUME NEW s \in 1 .. Regions, NEW q \in 1 .. Regions,
                          NEW i \in 1 .. Len(queue'[s]), NEW j \in 1 .. Len(queue'[q]),
                          queue'[s][i] = queue'[q][j]
                   PROVE  s = q /\ i = j
      OBVIOUS
    <3>3. CASE i \in 1 .. Len(queue[s]) /\ queue'[s][i] = queue[s][i]
      <4>1. j \in 1 .. Len(queue[q]) /\ queue'[q][j] = queue[q][j]
        BY <2>4, <3>1, <3>2, <3>3
      <4>2. queue[s][i] = queue[q][j]
        BY <3>2, <3>3, <4>1
      <4>3. QED
        BY <2>1, <3>3, <4>1, <4>2 DEF Placed
    <3>4. CASE s = r /\ i = Len(queue[r]) + 1 /\ queue'[s][i] = a
      BY <2>4, <3>1, <3>2, <3>4
    <3>5. QED
      BY <2>4, <3>3, <3>4
  <2>8. (\A u \in Tasks : Holds(u) => IsSlot(addr[u]) /\ ~Queued(addr[u]))'
    <3>1. \A u \in Tasks \ {t} : Holds(u) => addr[u] # a
      BY <1>3, <1>4, <2>1 DEF Placed
    <3>2. QED
      BY <1>2, <1>3, <2>1, <2>2, <2>5, <3>1 DEF Placed
  <2>9. (\A u, v \in Tasks : Holds(u) /\ Holds(v) /\ addr[u] = addr[v] => u = v)'
    BY <1>2, <1>3, <2>1 DEF Placed
  <2>10. (\A b \in Int : IsSlot(b) => Queued(b) \/ Held(b))'
    <3>1. \A b : Held(b) => Held(b)' \/ b = a
      BY <1>2, <1>3, <1>4 DEF Held
    <3>2. QED
      BY <2>1, <2>2, <2>5, <3>1 DEF Placed
  <2>11. QED
    BY <2>6, <2>7, <2>8, <2>9, <2>10 DEF Placed
<1>15. QED
  BY <1>9, <1>10, <1>11, <1>12, <1>13, <1>14 DEF IInv

-----------------------------------------------------------------------------
LEMMA InitInv ==
  ASSUME HookConstants, Init
  PROVE  IInv
<1>1. Typed
  <2>1. << >> \in Seq(Int) /\ << >> \in Seq(1 .. regions) /\ Len(<< >>) = 0
    BY EmptySeq
  <2>2. NoTrap \in [kind : Kinds \cup {"none"}, pc : Int]
    BY DEF NoTrap
  <2>3. QED
    BY <2>1, <2>2 DEF HookConstants, Init, Typed, Steps
<1>2. Controls /\ OneAdds /\ NewRegion /\ Pending
  BY DEF Init, Controls, OneAdds, NewRegion, Pending, Adds, Adding, Lists
<1>3. AllListed
  BY DEF Init, AllListed
<1>4. Placed
  <2>1. 1 .. regions = {} /\ \A r \in 1 .. Regions : 1 .. Len(queue[r]) = {}
    BY DEF Init
  <2>2. \A t \in Tasks : ~Holds(t)
    BY DEF Init, Holds
  <2>3. QED
    BY <2>1, <2>2 DEF Placed, IsSlot, Queued
<1>5. QED
  BY <1>1, <1>2, <1>3, <1>4 DEF IInv

LEMMA Unchanged ==
  ASSUME IInv, UNCHANGED vars
  PROVE  IInv'
<1>1. UNCHANGED <<regions, queue, ctrlAddrs, ctrlRange, hooks, at, addr, seen, closes,
                  trap, result>>
  BY DEF vars
<1>2. Typed' /\ Controls' /\ Pending'
  BY <1>1 DEF IInv, Typed, Controls, Pending
<1>3. OneAdds' /\ NewRegion' /\ AllListed'
  BY <1>1 DEF IInv, OneAdds, NewRegion, AllListed, Adding, Base
<1>4. Placed'
  BY <1>1, PlacedKept DEF IInv, Holds
<1>5. QED
  BY <1>2, <1>3, <1>4 DEF IInv

LEMMA NextInv ==
  ASSUME HookConstants, IInv, [Next]_vars
  PROVE  IInv'
<1>1. ASSUME NEW t \in Tasks,
             \/ AddControl(t) \/ TakeAddr(t) \/ MapRegion(t)
             \/ ReadList(t) \/ WriteAddrs(t) \/ WriteRange(t) \/ StoreControl(t)
      PROVE  IInv'
  BY <1>1, AddControlStep, TakeAddrStep, MapRegionStep, ReadListStep, WriteAddrsStep,
     WriteRangeStep, StoreControlStep
<1>2. ASSUME NEW t \in Tasks, CloseHook(t) \/ CloseAddr(t) \/ Cancel(t)
      PROVE  IInv'
  BY <1>2, CloseHookStep, CloseAddrStep, CancelStep
<1>3. ASSUME NEW t \in Tasks, ReturnToControl(t) \/ GuestEvent(t) \/ Dispatch(t)
      PROVE  IInv'
  BY <1>3, RaiseStep, DispatchStep
<1>4. ASSUME NEW h \in UserHooks, AddHook(h) \/ CloseUserHook(h)
      PROVE  IInv'
  BY <1>4, UserHookStep
<1>5. CASE UNCHANGED vars
  BY <1>5, Unchanged
<1>6. QED
  BY <1>1, <1>2, <1>3, <1>4, <1>5 DEF Next

-----------------------------------------------------------------------------
(* An address with one place is in one channel once, or with one control.   *)
LEMMA OnePlace ==
  ASSUME HookConstants, IInv
  PROVE  AddrsAccounted
<1>1. SUFFICES ASSUME NEW r \in 1 .. regions, NEW a \in Slots(r) PROVE Copies(a) = 1
  BY DEF AddrsAccounted
<1> DEFINE H == {t \in Tasks : Holds(t) /\ addr[t] = a}
           Q == {p \in (1 .. Regions) \X (1 .. Count) :
                   p[2] <= Len(queue[p[1]]) /\ queue[p[1]][p[2]] = a}
<1>2. IsSlot(a) /\ a \in Int
  <2>1. r \in Nat /\ Count \in Nat
    BY DEF IInv, Typed, HookConstants
  <2>2. Base(r) \in Nat
    BY <2>1, BaseType
  <2>3. QED
    BY <1>1, <2>1, <2>2 DEF IsSlot, Slots
<1>3. ASSUME NEW s \in 1 .. Regions, NEW i \in 1 .. Len(queue[s]), queue[s][i] = a
      PROVE  <<s, i>> \in Q
  BY <1>3 DEF IInv, Typed, HookConstants
<1>4. ASSUME NEW p \in Q
      PROVE  /\ p = <<p[1], p[2]>>
             /\ p[1] \in 1 .. Regions /\ p[2] \in 1 .. Len(queue[p[1]])
             /\ queue[p[1]][p[2]] = a
  BY DEF IInv, Typed, HookConstants
<1>5. Placed
  BY DEF IInv
<1>6. \A p, q \in Q : p = q
  <2>1. SUFFICES ASSUME NEW p \in Q, NEW q \in Q PROVE p = q
    OBVIOUS
  <2> HIDE DEF Q
  <2>2. p[1] = q[1] /\ p[2] = q[2]
    BY <1>4, <1>5 DEF Placed
  <2>3. QED
    BY <1>4, <2>2
<1>7. CASE Queued(a)
  <2>1. PICK s \in 1 .. Regions : \E i \in 1 .. Len(queue[s]) : queue[s][i] = a
    BY <1>7 DEF Queued
  <2>2. PICK i \in 1 .. Len(queue[s]) : queue[s][i] = a
    BY <2>1
  <2>3. <<s, i>> \in Q
    BY <1>3, <2>2
  <2>4. H = {}
    BY <1>5, <1>7 DEF Placed
  <2> HIDE DEF H, Q
  <2>5. Q = {<<s, i>>}
    BY <1>6, <2>3
  <2>6. Cardinality(H) = 0 /\ Cardinality(Q) = 1
    BY <2>4, <2>5, FS_EmptySet, FS_Singleton
  <2>7. QED
    BY <2>6 DEF Copies, H, Q
<1>8. CASE ~Queued(a)
  <2>1. PICK t \in Tasks : Holds(t) /\ addr[t] = a
    BY <1>2, <1>5, <1>8 DEF Placed, Held
  <2>2. t \in H /\ \A u \in H : u = t
    BY <1>5, <2>1 DEF Placed
  <2>3. Q = {}
    BY <1>4, <1>8 DEF Queued
  <2> HIDE DEF H, Q
  <2>4. H = {t}
    BY <2>2
  <2>5. Cardinality(H) = 1 /\ Cardinality(Q) = 0
    BY <2>3, <2>4, FS_EmptySet, FS_Singleton
  <2>6. QED
    BY <2>5 DEF Copies, H, Q
<1>9. QED
  BY <1>7, <1>8

(* No trap address is given out twice and none is lost (AddrsAccounted):    *)
(* what ctrlAddrAlloc takes out of a channel ctrlAddrFree can put back into *)
(* one, of whichever region.                                                *)
THEOREM AddrsAccountedAlways ==
  ASSUME HookConstants
  PROVE  Spec => []AddrsAccounted
<1>1. Init => IInv
  BY InitInv
<1>2. IInv /\ [Next]_vars => IInv'
  BY NextInv
<1>3. IInv => AddrsAccounted
  BY OnePlace
<1>4. QED
  BY <1>1, <1>2, <1>3, PTL DEF Spec

-----------------------------------------------------------------------------
(* Where events go                                                          *)

(* Only the handler of an event takes it.                                   *)
LEMMA OnlyDispatch ==
  ASSUME IInv, [Next]_vars, NEW t \in Tasks, trap[t] # NoTrap,
         trap'[t] # trap[t] \/ result'[t] \in {"done", "exception"} \ {result[t]}
  PROVE  Dispatch(t)
<1>1. Typed
  BY DEF IInv
<1>2. ASSUME UNCHANGED <<trap, result>> PROVE FALSE
  BY <1>2
<1>3. ~UNCHANGED vars
  BY <1>2 DEF vars
<1>4. ASSUME NEW h \in UserHooks PROVE ~AddHook(h) /\ ~CloseUserHook(h)
  BY <1>2 DEF AddHook, CloseUserHook
<1>5. PICK u \in Tasks :
        \/ AddControl(u) \/ TakeAddr(u) \/ MapRegion(u)
        \/ ReadList(u) \/ WriteAddrs(u) \/ WriteRange(u) \/ StoreControl(u)
        \/ CloseHook(u) \/ CloseAddr(u) \/ Cancel(u)
        \/ ReturnToControl(u) \/ GuestEvent(u) \/ Dispatch(u)
  BY <1>3, <1>4 DEF Next
<1>6. ~AddControl(u) /\ ~TakeAddr(u) /\ ~MapRegion(u) /\ ~ReadList(u)
  BY <1>2 DEF AddControl, TakeAddr, MapRegion, ReadList
<1>7. ~WriteAddrs(u) /\ ~WriteRange(u) /\ ~StoreControl(u) /\ ~CloseHook(u) /\ ~CloseAddr(u)
  BY <1>2 DEF WriteAddrs, WriteRange, StoreControl, CloseHook, CloseAddr
<1>8. ~Cancel(u)
  <2>1. SUFFICES ASSUME Cancel(u) PROVE FALSE
    OBVIOUS
  <2>2. trap' = trap /\ result' = [result EXCEPT ![u] = IF @ = "none" THEN "closed" ELSE @]
    BY <2>1 DEF Cancel
  <2>3. result'[t] = result[t] \/ result'[t] = "closed"
    BY <1>1, <2>2 DEF Typed
  <2>4. QED
    BY <2>2, <2>3
<1>9. ASSUME NEW e, Raise(u, e) PROVE FALSE
  <2>1. u # t
    BY <1>9 DEF Raise
  <2>2. trap'[t] = trap[t] /\ result' = result
    BY <1>1, <1>9, <2>1 DEF Raise, Typed
  <2>3. QED
    BY <2>2
<1>10. ~ReturnToControl(u) /\ ~GuestEvent(u)
  BY <1>9 DEF ReturnToControl, GuestEvent
<1>11. Dispatch(u)
  BY <1>5, <1>6, <1>7, <1>8, <1>10
<1>12. CASE u # t
  <2>1. trap'[t] = trap[t] /\ result'[t] = result[t]
    BY <1>1, <1>11, <1>12, Dispatched
  <2>2. QED
    BY <2>1
<1>13. QED
  BY <1>11, <1>12

(* isControl knows the region of every control that is open.                *)
LEMMA OpenIsControl ==
  ASSUME HookConstants, IInv, NEW t \in Tasks, at[t] = "open"
  PROVE  IsControl(addr[t] + 1)
<1>1. Holds(t) /\ Placed
  BY DEF Holds, IInv
<1>2. PICK r \in 1 .. regions : addr[t] \in Slots(r)
  BY <1>1 DEF Placed, IsSlot
<1>3. regions \in Nat /\ Regions \in Nat /\ regions <= Regions /\ Count \in Nat
  BY DEF IInv, Typed, HookConstants
<1>4. Base(r) \in Nat
  BY <1>3, BaseType
<1>5. PICK k \in 0 .. Count - 1 : addr[t] = Base(r) + k
  BY <1>2 DEF Slots
<1>6. ASSUME r = regions, NEW u \in Tasks, at[u] \in Lists PROVE FALSE
  <2>1. /\ Len(queue[regions]) = Count
        /\ \A i \in 1 .. Count : queue[regions][i] = Base(regions) + i - 1
    BY <1>6 DEF IInv, NewRegion
  <2>2. k + 1 \in 1 .. Count /\ Base(r) + (k + 1) - 1 = Base(r) + k
    BY <1>3, <1>4
  <2>3. r \in 1 .. Regions /\ k + 1 \in 1 .. Len(queue[r]) /\ queue[r][k + 1] = addr[t]
    BY <1>3, <1>5, <1>6, <2>1, <2>2
  <2>4. Queued(addr[t])
    BY <2>3 DEF Queued
  <2>5. QED
    BY <1>1, <2>4 DEF Placed
<1>7. PICK i \in DOMAIN ctrlRange : ctrlRange[i] = r
  BY <1>6 DEF IInv, AllListed
<1>8. addr[t] + 1 > Base(r) /\ addr[t] + 1 <= Base(r) + Count + 1
  BY <1>3, <1>4, <1>5
<1>9. QED
  BY <1>7, <1>8 DEF IsControl

(* The trap of an open control has one hook that takes it.                  *)
LEMMA OwnAnswer ==
  ASSUME HookConstants, IInv, NEW t \in Tasks, at[t] = "open", trap[t] = OwnTrap(t)
  PROVE  Answers(trap[t]) = {t}
<1>1. Holds(t) /\ t \in hooks /\ IsControl(addr[t] + 1)
  BY OpenIsControl DEF Holds, IInv, Controls
<1>2. t \in Answers(trap[t])
  BY <1>1 DEF Answers, Valid
<1>3. ASSUME NEW h \in Answers(trap[t]) PROVE h = t
  <2>1. h \in hooks /\ h \in Tasks \cup Done /\ Valid(h, OwnTrap(t))
    BY <1>3 DEF Answers
  <2>2. CASE h \in Tasks
    <3>1. addr[h] + 1 = addr[t] + 1 /\ addr[h] \in Int /\ addr[t] \in Int
      BY <2>1, <2>2 DEF Valid, OwnTrap, IInv, Typed
    <3>2. addr[h] = addr[t]
      BY <3>1
    <3>3. Holds(h)
      BY <2>1, <2>2 DEF Holds, IInv, Controls
    <3>4. QED
      BY <1>1, <2>2, <3>2, <3>3 DEF IInv, Placed
  <2>3. CASE h \notin Tasks
    BY <1>1, <2>1, <2>3 DEF Valid, OwnTrap
  <2>4. QED
    BY <2>2, <2>3
<1>4. QED
  BY <1>2, <1>3

(* A return to an open control ends the task as done (ReturnEndsTask):      *)
(* TaskControl finds the task of the control, and no other hook is called.  *)
LEMMA ReturnStep ==
  ASSUME HookConstants, IInv, [Next]_vars, NEW t \in Tasks,
         trap[t] = OwnTrap(t), trap'[t] = NoTrap, at[t] = "open"
  PROVE  result'[t] = "done"
<1>1. trap[t] # NoTrap
  BY DEF OwnTrap, NoTrap
<1>2. Dispatch(t)
  BY <1>1, OnlyDispatch
<1>3. Answers(trap[t]) = {t}
  BY OwnAnswer
<1>4. t \notin UserHooks
  BY DEF HookConstants
<1>5. ControlCalled(t, t)
  <2>1. {t} \cap Tasks = {t} /\ {t} \cap UserHooks = {} /\ {t} # {}
    BY <1>4
  <2>2. QED
    BY <1>2, <1>3, <2>1 DEF Dispatch
<1>6. result[t] = "none"
  BY <1>1 DEF IInv, Pending
<1>7. QED
  BY <1>5, <1>6 DEF ControlCalled, IInv, Typed

(* Only the trap of its own control ends a task as done (EndedByOwnReturn). *)
LEMMA DoneStep ==
  ASSUME HookConstants, IInv, [Next]_vars, NEW t \in Tasks,
         result'[t] = "done", result[t] # "done"
  PROVE  trap[t] = OwnTrap(t)
<1>1. Typed
  BY DEF IInv
<1>2. CASE trap[t] # NoTrap
  <2>1. Dispatch(t)
    BY <1>2, OnlyDispatch
  <2>2. PICK h \in Answers(trap[t]) \cap Tasks : ControlCalled(t, h)
    BY <1>1, <2>1 DEF Dispatch, Typed
  <2>3. h = t
    BY <1>1, <2>2 DEF ControlCalled, Typed
  <2>4. QED
    BY <2>2, <2>3 DEF Answers, Valid
<1>3. CASE trap[t] = NoTrap
  <2>1. result' # result
    OBVIOUS
  <2>2. ASSUME NEW u \in Tasks, Cancel(u) PROVE FALSE
    BY <1>1, <2>2 DEF Cancel, Typed
  <2>3. ASSUME NEW u \in Tasks, Dispatch(u) PROVE FALSE
    BY <1>1, <1>3, <2>3, Dispatched
  <2>4. QED
    BY <2>1, <2>2, <2>3 DEF Next, vars, AddControl, TakeAddr, MapRegion, ReadList,
       WriteAddrs, WriteRange, StoreControl, CloseHook, CloseAddr, ReturnToControl,
       GuestEvent, Raise, AddHook, CloseUserHook
<1>4. QED
  BY <1>2, <1>3

(* An event of guest code is not an exception while a hook of the user is   *)
(* there that takes its kind (GuestServed): the code is not in a region of  *)
(* traps, so isControl is false and no control takes the event.             *)
LEMMA ServedStep ==
  ASSUME HookConstants, IInv, [Next]_vars, NEW t \in Tasks, NEW h \in Done,
         trap[t] # NoTrap, trap'[t] = NoTrap, trap[t].pc - 1 \in GuestCode,
         h \in hooks, KindOf[h] = trap[t].kind
  PROVE  result'[t] # "exception" \/ result[t] = "exception"
<1>1. Typed /\ Placed
  BY DEF IInv
<1>2. Dispatch(t)
  BY OnlyDispatch
<1>3. h \in UserHooks /\ h \notin Tasks
  BY DEF HookConstants
<1>4. PICK g \in GuestCode : g = trap[t].pc - 1
  OBVIOUS
<1>5. trap[t].pc \in Int /\ g \in Int /\ trap[t].pc = g + 1
  <2>1. trap[t] \in [kind : Kinds \cup {"none"}, pc : Int]
    BY <1>1 DEF Typed
  <2>2. QED
    BY <1>4, <2>1
<1>6. \A r \in 1 .. regions : Base(r) \in Nat /\ g \notin Base(r) .. Base(r) + Count
  <2>1. /\ Count \in Nat /\ Regions \in Nat /\ regions \in 0 .. Regions
        /\ \A r \in 1 .. Regions : g \notin Base(r) .. Base(r) + Count
    BY <1>1 DEF HookConstants, Typed
  <2>2. \A r \in 1 .. regions : r \in 1 .. Regions /\ r \in Nat
    BY <2>1
  <2>3. QED
    BY <2>1, <2>2, BaseType
<1>7. Count \in Nat
  BY DEF HookConstants
<1>8. ~IsControl(trap[t].pc)
  <2>1. SUFFICES ASSUME NEW r \in 1 .. regions, g + 1 > Base(r), g + 1 <= Base(r) + Count + 1
                 PROVE  FALSE
    <3>1. \A i \in DOMAIN ctrlRange : ctrlRange[i] \in 1 .. regions
      BY <1>1 DEF Typed
    <3>2. QED
      BY <1>5, <3>1 DEF IsControl
  <2>2. QED
    BY <1>5, <1>6, <1>7, <2>1
<1>9. h \in Answers(trap[t]) \cap UserHooks
  BY <1>3, <1>8 DEF Answers, Valid
<1>10. ASSUME NEW u \in Answers(trap[t]) \cap Tasks PROVE FALSE
  <2>1. u \in Tasks /\ u \in hooks /\ trap[t] = OwnTrap(u)
    BY <1>10 DEF Answers, Valid
  <2>2. Holds(u)
    BY <2>1 DEF Holds, IInv, Controls
  <2>3. PICK r \in 1 .. regions : addr[u] \in Slots(r)
    BY <1>1, <2>1, <2>2 DEF Placed, IsSlot
  <2>4. addr[u] = g
    BY <1>1, <1>5, <2>1 DEF OwnTrap, Typed
  <2>5. PICK k \in 0 .. Count - 1 : g = Base(r) + k
    BY <2>3, <2>4 DEF Slots
  <2>6. QED
    BY <1>6, <1>7, <2>5
<1>11. \/ result' = [result EXCEPT ![t] = "astray"]
       \/ result' = result
  BY <1>2, <1>9, <1>10 DEF Dispatch
<1>12. QED
  BY <1>1, <1>11 DEF Typed

(* A task whose guest returns to its control ends as done (ReturnEndsTask), *)
(* whatever hooks of the user and controls of other tasks are there.        *)
THEOREM ReturnEndsTaskAlways ==
  ASSUME HookConstants
  PROVE  Spec => ReturnEndsTask
<1>1. IInv /\ [Next]_vars =>
        \A t \in Tasks :
          trap[t] = OwnTrap(t) /\ trap'[t] = NoTrap /\ at[t] = "open" => result'[t] = "done"
  BY ReturnStep
<1>2. QED
  BY <1>1, InitInv, NextInv, PTL DEF Spec, ReturnEndsTask

(* A task ends as done only by the trap of its own control                  *)
(* (EndedByOwnReturn), wherever its address has gone since.                 *)
THEOREM EndedByOwnReturnAlways ==
  ASSUME HookConstants
  PROVE  Spec => EndedByOwnReturn
<1>1. IInv /\ [Next]_vars =>
        \A t \in Tasks :
          result'[t] = "done" /\ result[t] # "done" => trap[t] = OwnTrap(t)
  BY DoneStep
<1>2. QED
  BY <1>1, InitInv, NextInv, PTL DEF Spec, EndedByOwnReturn

(* Events of guest code reach the hook of the user for their kind           *)
(* (GuestServed).                                                           *)
THEOREM GuestServedAlways ==
  ASSUME HookConstants
  PROVE  Spec => GuestServed
<1>1. IInv /\ [Next]_vars =>
        \A t \in Tasks, h \in Done :
          /\ trap[t] # NoTrap /\ trap'[t] = NoTrap
          /\ trap[t].pc - 1 \in GuestCode
          /\ h \in hooks /\ KindOf[h] = trap[t].kind
          => result'[t] # "exception" \/ result[t] = "exception"
  BY ServedStep
<1>2. QED
  BY <1>1, InitInv, NextInv, PTL DEF Spec, GuestServed
=============================================================================
