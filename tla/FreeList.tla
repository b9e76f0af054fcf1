------------------------------ MODULE FreeList ------------------------------
(***************************************************************************)
(* The doubly linked list of free blocks behind memAlloc and memFree       *)
(* (memBlock in internal/debugger/mem.go), pointer by pointer, with the    *)
(* pool its blocks come from and go back to.  It implements HeapAllocator, *)
(* whose free is the content of the list.                                  *)
(*                                                                         *)
(* The list goes from high addresses to low ones: next is below.           *)
(* "After" in InsertAfter means addresses, so it inserts before mb in the  *)
(* order of next.                                                          *)
(***************************************************************************)
EXTENDS Integers, FiniteSets

CONSTANTS
  PageSize, Sizes, Limit,   (* as in HeapAllocator                         *)
  Blocks,                   (* the memBlock objects (bound: how many)      *)
  Nil

ASSUME FreeListAssumption ==
  /\ PageSize \in Nat \ {0} /\ Sizes \subseteq Nat \ {0} /\ Limit \in Nat
  /\ IsFiniteSet(Blocks) /\ Nil \notin Blocks

VARIABLES
  mapAddr, memory, used, lost,   (* as in HeapAllocator                    *)
  head,                          (* mm.free                                *)
  node,                          (* the fields of every block              *)
  pool                           (* blocks of blockPool, and new ones      *)

heap == <<mapAddr, memory, used, lost>>
list == <<head, node, pool>>
vars == <<heap, list>>

(* The blocks in the order of Range; at the end Nil, if the list ends       *)
Visited ==
  LET at[k \in 0 .. Cardinality(Blocks)] ==
        IF k = 0 THEN head
        ELSE IF at[k - 1] = Nil THEN Nil ELSE node[at[k - 1]].next
  IN  at

Listed == {Visited[k] : k \in DOMAIN Visited} \ {Nil}

FreeOf ==
  [a \in {node[b].addr : b \in Listed} |->
     node[CHOOSE b \in Listed : node[b].addr = a].size]

Alloc == INSTANCE HeapAllocator WITH free <- FreeOf

Unused == [addr |-> 0, size |-> 0, prev |-> Nil, next |-> Nil]

End(b) == node[b].addr + node[b].size

Init ==
  /\ mapAddr = PageSize
  /\ memory = {} /\ used = Alloc!Nothing /\ lost = {}
  /\ head = Nil
  /\ node = [b \in Blocks |-> Unused]
  /\ pool = Blocks

-----------------------------------------------------------------------------
(* Operations on the list: the fields afterwards.  n is the block from the  *)
(* pool, which keeps the prev and next it has until they are assigned.      *)

InsertAfter(mb, n, addr, size) ==
  LET up == IF mb = Nil THEN node[n].prev ELSE node[mb].prev
  IN  [b \in Blocks |->
         CASE b = n -> [addr |-> addr, size |-> size, prev |-> up, next |-> mb]
           [] b = mb -> [node[b] EXCEPT !.prev = n]
           [] b = up /\ mb # Nil -> [node[b] EXCEPT !.next = n]
           [] OTHER -> node[b]]

InsertBefore(mb, n, addr, size) ==
  LET down == node[mb].next
  IN  [b \in Blocks |->
         CASE b = n -> [addr |-> addr, size |-> size, prev |-> mb, next |-> down]
           [] b = mb -> [node[b] EXCEPT !.next = n]
           [] b = down -> [node[b] EXCEPT !.prev = n]
           [] OTHER -> node[b]]

Unlinked(from, b) ==
  [c \in Blocks |->
     CASE c = from[b].prev -> [from[c] EXCEPT !.next = from[b].next]
       [] c = from[b].next -> [from[c] EXCEPT !.prev = from[b].prev]
       [] OTHER -> from[c]]

(* Changed: a block goes back to the pool with its links *)
RemoveKeepsLinks(from, b) ==
  [Unlinked(from, b) EXCEPT ![b].addr = 0, ![b].size = 0]

(* addr and size are assigned when the block is taken again: 0 stands for   *)
(* any value                                                                *)
Remove(from, b) ==
  [Unlinked(from, b) EXCEPT ![b] = Unused]

-----------------------------------------------------------------------------
(* memAlloc *)

(* The search of the list stops at its first block in S *)
Finds(S, b) ==
  \E k \in DOMAIN Visited :
    /\ Visited[k] = b /\ b \in S
    /\ \A j \in 0 .. k - 1 : Visited[j] \notin S

Fitting(size) == {b \in Listed : node[b].size >= size}

AllocWhole(size, b) ==
  /\ node[b].size = size
  /\ head' = IF head = b THEN node[b].next ELSE head
  /\ node' = Remove(node, b)
  /\ pool' = pool \cup {b}

AllocPart(size, b) ==
  /\ node[b].size > size
  /\ node' = [node EXCEPT ![b].addr = @ + size, ![b].size = @ - size]
  /\ UNCHANGED <<head, pool>>

AllocFree(size) ==
  \E b \in Blocks :
    /\ Finds(Fitting(size), b)
    /\ used' = Alloc!Put(used, node[b].addr, size)
    /\ AllocWhole(size, b) \/ AllocPart(size, b)
    /\ UNCHANGED <<mapAddr, memory, lost>>

AllocMapped(size) ==
  LET n == Alloc!Align(size) IN
  /\ Fitting(size) = {}
  /\ Alloc!Takes(size)
  /\ memory' = memory \cup Alloc!Bytes(mapAddr, n)
  /\ used' = Alloc!Put(used, mapAddr, size)
  /\ \/ n = size /\ UNCHANGED list
     \/ /\ n > size
        /\ \E b \in pool :
             /\ head' = b
             /\ node' = InsertAfter(head, b, mapAddr + size, n - size)
             /\ pool' = pool \ {b}
  /\ UNCHANGED lost

(* mapAlloc of others, or of memAlloc when the emulator refuses *)
MapAlloc(size) ==
  /\ Alloc!Takes(size)
  /\ UNCHANGED <<memory, used, lost, list>>

-----------------------------------------------------------------------------
(* memFree of the block in use at addr, which ends at end *)

(* Where the search stops: a block that ends at addr, or one that is below  *)
Stops(addr, end) ==
  {b \in Listed : End(b) = addr \/ node[b].addr < end}

FreeJoins(addr, end) ==
  \E b \in Blocks :
    /\ Finds(Stops(addr, end), b)
    /\ End(b) = addr
    /\ LET up == node[b].prev IN
       \/ /\ up = Nil \/ (up # Nil /\ node[up].addr # end)
          /\ node' = [node EXCEPT ![b].size = @ + (end - addr)]
          /\ UNCHANGED pool
       \/ /\ up # Nil /\ node[up].addr = end
          /\ node' = Remove([node EXCEPT
                               ![up].addr = node[b].addr,
                               ![up].size = @ + node[b].size + (end - addr)], b)
          /\ pool' = pool \cup {b}
    /\ UNCHANGED head

(* Changed: the head of the list is not moved *)
FreeInsertsBehindHead(addr, end) ==
  \E b \in Blocks, n \in pool :
    /\ Finds(Stops(addr, end), b)
    /\ End(b) # addr
    /\ node' = InsertAfter(b, n, addr, end - addr)
    /\ pool' = pool \ {n}
    /\ UNCHANGED head

FreeInserts(addr, end) ==
  \E b \in Blocks, n \in pool :
    /\ Finds(Stops(addr, end), b)
    /\ End(b) # addr
    /\ node' = InsertAfter(b, n, addr, end - addr)
    /\ head' = IF head = b THEN n ELSE head
    /\ pool' = pool \ {n}

Last(b) == b \in Listed /\ node[b].next = Nil

FreeLowest(addr, end) ==
  /\ Stops(addr, end) = {}
  /\ \E b \in Blocks :
       /\ Last(b)
       /\ \/ /\ node[b].addr = end
             /\ node' = [node EXCEPT ![b].addr = addr, ![b].size = @ + (end - addr)]
             /\ UNCHANGED pool
          \/ /\ node[b].addr # end
             /\ \E n \in pool :
                  /\ node' = InsertBefore(b, n, addr, end - addr)
                  /\ pool' = pool \ {n}
  /\ UNCHANGED head

MemFree(addr) ==
  LET end == addr + used[addr] IN
  /\ used' = Alloc!Drop(used, {addr})
  /\ FreeJoins(addr, end) \/ FreeInserts(addr, end) \/ FreeLowest(addr, end)
  /\ UNCHANGED <<mapAddr, memory, lost>>

FreePanics(addr) ==
  /\ head = Nil
  /\ used' = Alloc!Drop(used, {addr})
  /\ lost' = lost \cup Alloc!Bytes(addr, used[addr])
  /\ UNCHANGED <<mapAddr, memory, list>>

-----------------------------------------------------------------------------
Next ==
  \/ \E size \in Sizes : AllocFree(size) \/ AllocMapped(size) \/ MapAlloc(size)
  \/ \E addr \in DOMAIN used : MemFree(addr) \/ FreePanics(addr)

Spec == Init /\ [][Next]_vars

-----------------------------------------------------------------------------
(* Properties *)

(* The links of the list agree: it ends, prev undoes next, the head has     *)
(* nothing above it, addresses descend, and every other block is in the     *)
(* pool with no links left (InsertAfter relies on it for an empty list).    *)
LinksAgree ==
  /\ Visited[Cardinality(Blocks)] = Nil
  /\ head # Nil => node[head].prev = Nil
  /\ \A b \in Listed : node[b].next # Nil =>
       /\ node[node[b].next].prev = b
       /\ node[node[b].next].addr < node[b].addr
  /\ pool = Blocks \ Listed
  /\ \A b \in pool : node[b].prev = Nil /\ node[b].next = Nil

(* The pointer operations of memAlloc and memFree do to the content of the  *)
(* list what HeapAllocator says.                                            *)
ListImplements == Alloc!Spec
=============================================================================
