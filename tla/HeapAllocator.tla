--------------------------- MODULE HeapAllocator ---------------------------
(***************************************************************************)
(* memAlloc and memFree of internal/debugger/mem.go: a first-fit allocator *)
(* of guest memory.  The free blocks are a list in descending order of     *)
(* their addresses; here they are a function from address to size, and     *)
(* "the first in the list" is the highest (FreeList has the list itself).  *)
(* Both operations hold memMu from beginning to end, so each is one step.  *)
(***************************************************************************)
EXTENDS Integers

CONSTANTS
  PageSize,   (* of the emulator                                           *)
  Sizes,      (* sizes that are asked for                                  *)
  Limit       (* bound: mapAddr stays below                                *)

ASSUME HeapAssumption ==
  /\ PageSize \in Nat \ {0}
  /\ Sizes \subseteq Nat \ {0}
  /\ Limit \in Nat

VARIABLES
  mapAddr,    (* where mapAlloc maps next                                  *)
  memory,     (* the bytes memAlloc has mapped                             *)
  used,       (* mm.used: the size of each block in use, by its address    *)
  free,       (* mm.free: the size of each free block, by its address      *)
  lost        (* bytes whose memFree has panicked                          *)

vars == <<mapAddr, memory, used, free, lost>>

Bytes(addr, size) == addr .. addr + size - 1
BytesOf(f) == UNION {Bytes(a, f[a]) : a \in DOMAIN f}

Nothing == [a \in {} |-> 0]
Put(f, a, v) == [x \in DOMAIN f \cup {a} |-> IF x = a THEN v ELSE f[x]]
Drop(f, S) == [x \in DOMAIN f \ S |-> f[x]]

Align(size) == ((size + PageSize - 1) \div PageSize) * PageSize

Init ==
  /\ mapAddr = PageSize
  /\ memory = {} /\ used = Nothing /\ free = Nothing /\ lost = {}

-----------------------------------------------------------------------------
(* memAlloc *)

(* Changed: the rest of the block keeps the address of the whole            *)
RestKeepsAddr(b, size) ==
  IF free[b] = size THEN Drop(free, {b}) ELSE [free EXCEPT ![b] = @ - size]

(* Changed: a block that is used up stays in the list                       *)
RestKeepsEmpty(b, size) == Put(Drop(free, {b}), b + size, free[b] - size)

(* What is left of the free block at b when its first bytes are taken       *)
Rest(b, size) ==
  IF free[b] = size THEN Drop(free, {b})
  ELSE Put(Drop(free, {b}), b + size, free[b] - size)

(* The first block in the list that is large enough *)
AllocFree(size) ==
  \E b \in DOMAIN free :
    /\ free[b] >= size
    /\ \A c \in DOMAIN free : c > b => free[c] < size
    /\ used' = Put(used, b, size)
    /\ free' = Rest(b, size)
    /\ UNCHANGED <<mapAddr, memory, lost>>

NoneFits(size) == \A b \in DOMAIN free : free[b] < size

(* mapAlloc: the address is taken before the emulator maps it, so a mapping *)
(* that fails uses it up                                                    *)
Takes(size) ==
  /\ mapAddr + Align(size) <= Limit
  /\ mapAddr' = mapAddr + Align(size)

AllocMapped(size) ==
  /\ NoneFits(size)
  /\ Takes(size)
  /\ memory' = memory \cup Bytes(mapAddr, Align(size))
  /\ used' = Put(used, mapAddr, size)
  /\ free' = IF Align(size) > size
             THEN Put(free, mapAddr + size, Align(size) - size) ELSE free
  /\ UNCHANGED lost

AllocFails(size) ==
  /\ NoneFits(size)
  /\ Takes(size)
  /\ UNCHANGED <<memory, used, free, lost>>

(* mapAlloc for others: stacks, control addresses, the user's MapAlloc *)
MapAlloc(size) ==
  /\ Takes(size)
  /\ UNCHANGED <<memory, used, free, lost>>

-----------------------------------------------------------------------------
(* memFree of the block in use at addr.  The search of the list stops at    *)
(* the highest free block below it, if there is one.                        *)

Highest(S, b) == b \in S /\ \A c \in S : c <= b
Below(addr) == {b \in DOMAIN free : b < addr}

SizeAt(a) == IF a \in DOMAIN free THEN free[a] ELSE 0

(* Changed: the block above is merged and stays in the list                 *)
JoinKeepsUpper(b, addr) ==
  Put(free, b, free[b] + used[addr] + SizeAt(addr + used[addr]))

(* The block at b ends where the freed one begins; so may one above begin   *)
(* where it ends                                                            *)
Join(b, addr) ==
  Put(Drop(free, {addr + used[addr]}), b,
      free[b] + used[addr] + SizeAt(addr + used[addr]))

(* Not merged with a block above, even if that begins where it ends *)
Insert(addr) == Put(free, addr, used[addr])

(* Nothing below: the search ended at the lowest block, at b *)
ExtendDown(b, addr) ==
  IF b = addr + used[addr]
  THEN Put(Drop(free, {b}), addr, used[addr] + free[b])
  ELSE Insert(addr)

FreeJoins(addr) ==
  \E b \in DOMAIN free :
    /\ Highest(Below(addr), b)
    /\ b + free[b] = addr
    /\ free' = Join(b, addr)

FreeInserts(addr) ==
  \E b \in DOMAIN free :
    /\ Highest(Below(addr), b)
    /\ b + free[b] # addr
    /\ free' = Insert(addr)

FreeLowest(addr) ==
  /\ Below(addr) = {}
  /\ \E b \in DOMAIN free :
       /\ \A c \in DOMAIN free : b <= c
       /\ free' = ExtendDown(b, addr)

MemFree(addr) ==
  /\ addr \in DOMAIN used
  /\ used' = Drop(used, {addr})
  /\ FreeJoins(addr) \/ FreeInserts(addr) \/ FreeLowest(addr)
  /\ UNCHANGED <<mapAddr, memory, lost>>

(* No free block at all: the variable of the search is still nil when it is *)
(* used after the loop.  The block has left mm.used by then.                *)
FreePanics(addr) ==
  /\ addr \in DOMAIN used
  /\ free = Nothing
  /\ used' = Drop(used, {addr})
  /\ lost' = lost \cup Bytes(addr, used[addr])
  /\ UNCHANGED <<mapAddr, memory, free>>

-----------------------------------------------------------------------------
Next ==
  \/ \E size \in Sizes :
       AllocFree(size) \/ AllocMapped(size) \/ AllocFails(size) \/ MapAlloc(size)
  \/ \E addr \in DOMAIN used : MemFree(addr) \/ FreePanics(addr)

Spec == Init /\ [][Next]_vars

-----------------------------------------------------------------------------
(* Properties *)

(* The tables hold addresses and sizes of blocks that are not empty.        *)
TypeOK ==
  /\ mapAddr \in Nat
  /\ memory \subseteq Nat /\ lost \subseteq Nat
  /\ DOMAIN used \subseteq Nat /\ used \in [DOMAIN used -> Nat \ {0}]
  /\ DOMAIN free \subseteq Nat /\ free \in [DOMAIN free -> Nat \ {0}]

(* No two blocks of a table share a byte.                                   *)
Apart(f) ==
  \A a, b \in DOMAIN f : a < b => a + f[a] <= b

(* Every byte the heap has mapped is in one block in use, in one free block *)
(* or lost to a panic: memAlloc and memFree split and merge without gap or  *)
(* overlap.                                                                 *)
BytesAccounted ==
  /\ Apart(used) /\ Apart(free)
  /\ memory = BytesOf(used) \cup BytesOf(free) \cup lost
  /\ BytesOf(used) \cap BytesOf(free) = {}
  /\ lost \cap (BytesOf(used) \cup BytesOf(free)) = {}

(* memAlloc and memFree keep the promise of Heap.                           *)
Promise == INSTANCE Heap WITH Addresses <- 0 .. Limit

HeapSpec == Promise!Spec

(* MemFree of a block in use gives it back: every byte that leaves mm.used  *)
(* is free from then on.                                                    *)
FreeSucceeds ==
  [][BytesOf(used) \ BytesOf(used') \subseteq BytesOf(free')]_vars
=============================================================================
