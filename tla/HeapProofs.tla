----------------------------- MODULE HeapProofs -----------------------------
(***************************************************************************)
(* Proofs about HeapAllocator, for every page size, every set of sizes and *)
(* every bound: the accounts of memory are exact, and the promise of Heap  *)
(* is kept.                                                                *)
(***************************************************************************)
EXTENDS HeapAllocator, TLAPS

(* A table of blocks, none of them empty, that share no byte.               *)
Table(f) ==
  /\ DOMAIN f \subseteq Nat /\ f \in [DOMAIN f -> Nat \ {0}]
  /\ Apart(f)

(* What the heap has mapped lies below the next address to map, and below   *)
(* the bound.                                                               *)
MappedBelow ==
  \A x \in memory : x < mapAddr /\ x < Limit

IInv == TypeOK /\ BytesAccounted /\ MappedBelow

-----------------------------------------------------------------------------
(* Tables                                                                   *)

(* The bytes of a block are the numbers from its address to its end.        *)
LEMMA InBytes ==
  ASSUME NEW a \in Nat, NEW n \in Nat, NEW x
  PROVE  x \in Bytes(a, n) <=> x \in Nat /\ a <= x /\ x < a + n
BY DEF Bytes

(* A byte is in a table if it is in one of its blocks.                      *)
LEMMA InBytesOf ==
  ASSUME NEW f, NEW x
  PROVE  x \in BytesOf(f) <=> \E a \in DOMAIN f : x \in Bytes(a, f[a])
BY DEF BytesOf

(* A rounded size is not smaller.                                           *)
LEMMA AlignGrows ==
  ASSUME NEW size \in Nat \ {0}
  PROVE  Align(size) \in Nat /\ Align(size) >= size
<1> DEFINE n == size + PageSize - 1
           q == n \div PageSize
<1>1. PageSize \in Nat \ {0} /\ n \in Nat
  BY HeapAssumption
<1>2. q \in Nat /\ n = q * PageSize + (n % PageSize) /\ n % PageSize \in 0 .. PageSize - 1
  BY <1>1
<1>3. q * PageSize \in Nat
  BY <1>1, <1>2
<1>4. QED
  BY <1>1, <1>2, <1>3 DEF Align

(* A table without one of its blocks is a table, of the bytes that remain.  *)
LEMMA DropBlock ==
  ASSUME NEW f, Table(f), NEW a \in DOMAIN f
  PROVE  /\ Table(Drop(f, {a}))
         /\ BytesOf(Drop(f, {a})) = BytesOf(f) \ Bytes(a, f[a])
         /\ Bytes(a, f[a]) \subseteq BytesOf(f)
<1> DEFINE g == Drop(f, {a})
<1>1. DOMAIN g = DOMAIN f \ {a} /\ \A b \in DOMAIN g : g[b] = f[b]
  BY DEF Drop
<1>2. Table(g)
  <2>1. g \in [DOMAIN g -> Nat \ {0}]
    BY DEF Table, Drop
  <2>2. Apart(g)
    BY <1>1 DEF Table, Apart
  <2>3. QED
    BY <1>1, <2>1, <2>2 DEF Table
<1>3. ASSUME NEW b \in DOMAIN g, NEW x \in Bytes(b, g[b]) PROVE x \notin Bytes(a, f[a])
  <2>1. a \in Nat /\ b \in Nat /\ f[a] \in Nat /\ f[b] \in Nat /\ a # b /\ b \in DOMAIN f
    BY <1>1 DEF Table
  <2>2. b + f[b] <= a \/ a + f[a] <= b
    BY <2>1 DEF Table, Apart
  <2>3. x \in Nat /\ b <= x /\ x < b + f[b]
    BY <1>1, <1>3, <2>1, InBytes
  <2>4. QED
    BY <2>1, <2>2, <2>3, InBytes
<1>4. BytesOf(g) = BytesOf(f) \ Bytes(a, f[a])
  <2>1. ASSUME NEW x \in BytesOf(g) PROVE x \in BytesOf(f) /\ x \notin Bytes(a, f[a])
    BY <1>1, <1>3, <2>1, InBytesOf
  <2>2. ASSUME NEW x \in BytesOf(f), x \notin Bytes(a, f[a]) PROVE x \in BytesOf(g)
    BY <1>1, <2>2, InBytesOf
  <2>3. QED
    BY <2>1, <2>2
<1>5. QED
  BY <1>2, <1>4, InBytesOf

(* Adding a block that shares no byte with a table.                         *)
LEMMA PutBlock ==
  ASSUME NEW f, Table(f), NEW a \in Nat, NEW n \in Nat \ {0},
         Bytes(a, n) \cap BytesOf(f) = {}
  PROVE  /\ Table(Put(f, a, n))
         /\ BytesOf(Put(f, a, n)) = BytesOf(f) \cup Bytes(a, n)
<1> DEFINE g == Put(f, a, n)
<1>1. ASSUME NEW b \in DOMAIN f
      PROVE  /\ b \in Nat /\ f[b] \in Nat /\ f[b] > 0
             /\ b + f[b] <= a \/ a + n <= b
  <2>1. b \in Nat /\ f[b] \in Nat \ {0}
    BY DEF Table
  <2>2. a \in Bytes(a, n) /\ b \in Bytes(b, f[b])
    BY <2>1, InBytes
  <2>3. a \notin Bytes(b, f[b]) /\ b \notin Bytes(a, n)
    BY <2>2, InBytesOf
  <2>4. QED
    BY <2>1, <2>3, InBytes
<1>2. a \notin DOMAIN f
  BY <1>1
<1>3. DOMAIN g = DOMAIN f \cup {a} /\ g[a] = n /\ \A b \in DOMAIN f : g[b] = f[b]
  BY <1>2 DEF Put
<1>4. Table(g)
  <2>1. g \in [DOMAIN g -> Nat \ {0}] /\ DOMAIN g \subseteq Nat
    BY <1>3 DEF Table, Put
  <2>2. Apart(g)
    <3>1. SUFFICES ASSUME NEW b \in DOMAIN g, NEW c \in DOMAIN g, b < c
                   PROVE  b + g[b] <= c
      BY DEF Apart
    <3>2. CASE b # a /\ c # a
      BY <1>3, <3>1, <3>2 DEF Table, Apart
    <3>3. CASE b = a
      BY <1>1, <1>3, <3>1, <3>3
    <3>4. CASE c = a
      BY <1>1, <1>3, <3>1, <3>4
    <3>5. QED
      BY <3>2, <3>3, <3>4
  <2>3. QED
    BY <2>1, <2>2 DEF Table
<1>5. BytesOf(g) = BytesOf(f) \cup Bytes(a, n)
  <2>1. ASSUME NEW x \in BytesOf(g) PROVE x \in BytesOf(f) \cup Bytes(a, n)
    BY <1>3, <2>1, InBytesOf
  <2>2. ASSUME NEW x \in BytesOf(f) \cup Bytes(a, n) PROVE x \in BytesOf(g)
    BY <1>3, <2>2, InBytesOf
  <2>3. QED
    BY <2>1, <2>2
<1>6. QED
  BY <1>4, <1>5

(* Two neighbours are the block they make together.                         *)
LEMMA BytesSplit ==
  ASSUME NEW a \in Nat, NEW m \in Nat, NEW n \in Nat
  PROVE  /\ Bytes(a, m + n) = Bytes(a, m) \cup Bytes(a + m, n)
         /\ Bytes(a, m) \cap Bytes(a + m, n) = {}
<1>1. a + m \in Nat /\ m + n \in Nat
  OBVIOUS
<1>2. ASSUME NEW x
      PROVE  x \in Bytes(a, m + n) <=> x \in Bytes(a, m) \/ x \in Bytes(a + m, n)
  BY <1>1, InBytes
<1>3. ASSUME NEW x \in Bytes(a, m) PROVE x \notin Bytes(a + m, n)
  BY <1>1, <1>3, InBytes
<1>4. QED
  BY <1>2, <1>3

(* Writing an entry does not depend on what was there.                      *)
LEMMA PutOverwrites ==
  ASSUME NEW f, NEW a, NEW n
  PROVE  Put(f, a, n) = Put(Drop(f, {a}), a, n)
<1>1. DOMAIN Put(f, a, n) = DOMAIN Put(Drop(f, {a}), a, n)
  BY DEF Put, Drop
<1>2. \A x \in DOMAIN Put(f, a, n) : Put(f, a, n)[x] = Put(Drop(f, {a}), a, n)[x]
  BY DEF Put, Drop
<1>3. QED
  BY <1>1, <1>2 DEF Put

(* A block of a table grows by the block that begins where it ends.         *)
LEMMA MergeAbove ==
  ASSUME NEW f, Table(f), NEW b \in DOMAIN f, NEW a \in Nat, NEW n \in Nat,
         b + f[b] = a, Bytes(a, n) \cap BytesOf(f) = {}
  PROVE  /\ Table(Put(f, b, f[b] + n))
         /\ BytesOf(Put(f, b, f[b] + n)) = BytesOf(f) \cup Bytes(a, n)
<1> DEFINE D == Drop(f, {b})
<1>1. PICK m \in Nat : m = f[b] /\ m # 0
  BY DEF Table
<1>2. PICK k \in Nat : k = m + n /\ k # 0
  BY <1>1
<1>3. b \in Nat
  BY DEF Table
<1>4. Bytes(b, k) = Bytes(b, m) \cup Bytes(a, n)
  <2>1. \A c \in Nat : Bytes(c, m + n) = Bytes(c, m) \cup Bytes(c + m, n)
    BY BytesSplit
  <2>2. QED
    BY <1>1, <1>2, <1>3, <2>1
<1>5. /\ Table(D) /\ BytesOf(D) = BytesOf(f) \ Bytes(b, m)
      /\ Bytes(b, m) \subseteq BytesOf(f)
  BY <1>1, DropBlock
<1>6. Bytes(b, k) \cap BytesOf(D) = {}
  BY <1>4, <1>5
<1>7. Table(Put(D, b, k)) /\ BytesOf(Put(D, b, k)) = BytesOf(D) \cup Bytes(b, k)
  BY <1>2, <1>3, <1>5, <1>6, PutBlock
<1>8. Put(f, b, f[b] + n) = Put(D, b, k)
  BY <1>1, <1>2, PutOverwrites
<1>9. QED
  BY <1>4, <1>5, <1>7, <1>8

(* A block of a table grows down by the block that ends where it begins.    *)
LEMMA MergeBelow ==
  ASSUME NEW f, Table(f), NEW b \in DOMAIN f, NEW a \in Nat, NEW n \in Nat,
         n # 0, a + n = b, Bytes(a, n) \cap BytesOf(f) = {}
  PROVE  /\ Table(Put(Drop(f, {b}), a, n + f[b]))
         /\ BytesOf(Put(Drop(f, {b}), a, n + f[b])) = BytesOf(f) \cup Bytes(a, n)
<1> DEFINE D == Drop(f, {b})
<1>1. PICK m \in Nat : m = f[b] /\ m # 0
  BY DEF Table
<1>2. PICK k \in Nat : k = n + m /\ k # 0
  BY <1>1
<1>3. b \in Nat
  BY DEF Table
<1>4. Bytes(a, k) = Bytes(a, n) \cup Bytes(b, m)
  <2>1. Bytes(a, n + m) = Bytes(a, n) \cup Bytes(a + n, m)
    BY BytesSplit
  <2>2. QED
    BY <1>2, <2>1
<1>5. /\ Table(D) /\ BytesOf(D) = BytesOf(f) \ Bytes(b, m)
      /\ Bytes(b, m) \subseteq BytesOf(f)
  BY <1>1, DropBlock
<1>6. Bytes(a, k) \cap BytesOf(D) = {}
  BY <1>4, <1>5
<1>7. Table(Put(D, a, k)) /\ BytesOf(Put(D, a, k)) = BytesOf(D) \cup Bytes(a, k)
  BY <1>2, <1>5, <1>6, PutBlock
<1>8. QED
  BY <1>1, <1>2, <1>4, <1>5, <1>7

-----------------------------------------------------------------------------
(* What the operations do to the list of free blocks                        *)

(* memAlloc takes the first bytes of a free block, and nothing else.        *)
LEMMA RestOfBlock ==
  ASSUME Table(free), NEW b \in DOMAIN free, NEW size \in Nat \ {0}, size <= free[b]
  PROVE  /\ Table(Rest(b, size))
         /\ BytesOf(Rest(b, size)) = BytesOf(free) \ Bytes(b, size)
         /\ Bytes(b, size) \subseteq BytesOf(free)
<1> DEFINE D == Drop(free, {b})
           n == free[b] - size
<1>1. b \in Nat /\ free[b] \in Nat /\ n \in Nat /\ size + n = free[b] /\ b + size \in Nat
  BY DEF Table
<1>2. /\ Table(D) /\ BytesOf(D) = BytesOf(free) \ Bytes(b, free[b])
      /\ Bytes(b, free[b]) \subseteq BytesOf(free)
  BY DropBlock
<1>3. /\ Bytes(b, free[b]) = Bytes(b, size) \cup Bytes(b + size, n)
      /\ Bytes(b, size) \cap Bytes(b + size, n) = {}
  <2> HIDE DEF n
  <2>1. size \in Nat
    OBVIOUS
  <2>2. /\ Bytes(b, size + n) = Bytes(b, size) \cup Bytes(b + size, n)
        /\ Bytes(b, size) \cap Bytes(b + size, n) = {}
    BY <1>1, <2>1, BytesSplit
  <2>3. QED
    BY <1>1, <2>2
<1>4. CASE free[b] = size
  BY <1>2, <1>4 DEF Rest
<1>5. CASE free[b] # size
  <2>1. n \in Nat \ {0}
    BY <1>1, <1>5
  <2>2. Bytes(b + size, n) \cap BytesOf(D) = {}
    BY <1>2, <1>3
  <2>3. /\ Table(Put(D, b + size, n))
        /\ BytesOf(Put(D, b + size, n)) = BytesOf(D) \cup Bytes(b + size, n)
    BY <1>1, <1>2, <2>1, <2>2, PutBlock
  <2>4. QED
    BY <1>2, <1>3, <1>5, <2>3 DEF Rest
<1>6. QED
  BY <1>4, <1>5

(* The block that begins at end, if there is one, leaves the list.          *)
LEMMA DropNeighbour ==
  ASSUME Table(free), NEW end \in Nat
  PROVE  /\ Table(Drop(free, {end})) /\ SizeAt(end) \in Nat
         /\ BytesOf(Drop(free, {end})) = BytesOf(free) \ Bytes(end, SizeAt(end))
         /\ Bytes(end, SizeAt(end)) \subseteq BytesOf(free)
<1>1. CASE end \in DOMAIN free
  BY <1>1, DropBlock DEF SizeAt, Table
<1>2. CASE end \notin DOMAIN free
  <2>1. Drop(free, {end}) = free
    BY <1>2 DEF Drop, Table
  <2>2. Bytes(end, SizeAt(end)) = {}
    BY <1>2, InBytes DEF SizeAt
  <2>3. QED
    BY <1>2, <2>1, <2>2 DEF SizeAt
<1>3. QED
  BY <1>1, <1>2

(* memFree adds the bytes of the freed block to the free ones, with or      *)
(* without a merge.                                                         *)
LEMMA FreedBlock ==
  ASSUME Table(free), Table(used), BytesOf(used) \cap BytesOf(free) = {},
         NEW addr \in DOMAIN used,
         FreeJoins(addr) \/ FreeInserts(addr) \/ FreeLowest(addr)
  PROVE  /\ Table(free')
         /\ BytesOf(free') = BytesOf(free) \cup Bytes(addr, used[addr])
<1>1. PICK n \in Nat \ {0} : n = used[addr]
  BY DEF Table
<1>2. addr \in Nat
  BY DEF Table
<1>3. PICK end \in Nat : end = addr + n
  BY <1>2
<1>4. Bytes(addr, n) \cap BytesOf(free) = {}
  BY <1>1, DropBlock
<1>5. CASE FreeJoins(addr)
  <2>1. PICK b \in DOMAIN free : b + free[b] = addr /\ free' = Join(b, addr)
    BY <1>5 DEF FreeJoins
  <2>2. b \in Nat /\ free[b] \in Nat /\ b # end
    BY <1>2, <1>3, <2>1 DEF Table
  <2> DEFINE D == Drop(free, {end})
  <2>3. PICK up \in Nat : up = SizeAt(end)
    BY DropNeighbour
  <2>4. /\ Table(D)
        /\ BytesOf(D) = BytesOf(free) \ Bytes(end, up)
        /\ Bytes(end, up) \subseteq BytesOf(free)
    BY <2>3, DropNeighbour
  <2>5. b \in DOMAIN D /\ D[b] = free[b]
    BY <2>2 DEF Drop
  <2>6. PICK rest \in Nat : rest = n + up
    OBVIOUS
  <2>7. Bytes(addr, rest) = Bytes(addr, n) \cup Bytes(end, up)
    <3>1. Bytes(addr, n + up) = Bytes(addr, n) \cup Bytes(addr + n, up)
      BY <1>2, BytesSplit
    <3>2. QED
      BY <1>3, <2>6, <3>1
  <2>8. Bytes(addr, rest) \cap BytesOf(D) = {}
    BY <1>4, <2>4, <2>7
  <2>9. /\ Table(Put(D, b, D[b] + rest))
        /\ BytesOf(Put(D, b, D[b] + rest)) = BytesOf(D) \cup Bytes(addr, rest)
    <3> HIDE DEF D
    <3>1. b + D[b] = addr
      BY <2>1, <2>5
    <3>2. QED
      BY <1>2, <2>4, <2>5, <2>8, <3>1, MergeAbove
  <2>10. free' = Put(D, b, D[b] + rest)
    <3>1. free' = Put(D, b, free[b] + n + up)
      BY <1>1, <1>3, <2>1, <2>3 DEF Join
    <3>2. free[b] + n + up = D[b] + rest
      BY <2>2, <2>5, <2>6
    <3>3. QED
      BY <3>1, <3>2
  <2>11. QED
    BY <1>1, <2>4, <2>7, <2>9, <2>10
<1>6. ASSUME free' = Insert(addr)
      PROVE  Table(free') /\ BytesOf(free') = BytesOf(free) \cup Bytes(addr, n)
  BY <1>1, <1>2, <1>4, <1>6, PutBlock DEF Insert
<1>7. CASE FreeLowest(addr)
  <2>1. PICK b \in DOMAIN free : free' = ExtendDown(b, addr)
    BY <1>7 DEF FreeLowest
  <2>2. CASE b = end
    <3>1. free' = Put(Drop(free, {b}), addr, n + free[b])
      BY <1>1, <1>3, <2>1, <2>2 DEF ExtendDown
    <3>2. QED
      BY <1>1, <1>2, <1>3, <1>4, <2>2, <3>1, MergeBelow
  <2>3. CASE b # end
    BY <1>1, <1>3, <1>6, <2>1, <2>3 DEF ExtendDown
  <2>4. QED
    BY <2>2, <2>3
<1>8. QED
  BY <1>1, <1>5, <1>6, <1>7 DEF FreeInserts

-----------------------------------------------------------------------------
(* Every operation keeps the accounts, and does what Heap promises          *)

(* The invariant, with the tables as tables.                                *)
LEMMA IInvTables ==
  IInv <=> /\ mapAddr \in Nat /\ memory \subseteq Nat /\ lost \subseteq Nat
           /\ Table(used) /\ Table(free)
           /\ memory = BytesOf(used) \cup BytesOf(free) \cup lost
           /\ BytesOf(used) \cap BytesOf(free) = {}
           /\ lost \cap (BytesOf(used) \cup BytesOf(free)) = {}
           /\ MappedBelow
BY DEF IInv, TypeOK, BytesAccounted, Table

(* The same of the next state.                                              *)
LEMMA IInvNext ==
  ASSUME mapAddr' \in Nat, memory' \subseteq Nat, lost' \subseteq Nat,
         Table(used'), Table(free'),
         memory' = BytesOf(used') \cup BytesOf(free') \cup lost',
         BytesOf(used') \cap BytesOf(free') = {},
         lost' \cap (BytesOf(used') \cup BytesOf(free')) = {},
         MappedBelow'
  PROVE  IInv'
BY DEF IInv, TypeOK, BytesAccounted, Table

(* Heap's tables and bytes are those of HeapAllocator.                      *)
LEMMA PromiseSame ==
  /\ \A a, n : Promise!Bytes(a, n) = Bytes(a, n)
  /\ \A f, a, v : Promise!Put(f, a, v) = Put(f, a, v)
  /\ \A f, S : Promise!Drop(f, S) = Drop(f, S)
BY DEF Promise!Bytes, Bytes, Promise!Put, Put, Promise!Drop, Drop

(* A block of mapped memory that no block in use touches may be handed out. *)
LEMMA MayHandOut ==
  ASSUME IInv, NEW size \in Nat \ {0}, NEW a \in 0 .. Limit,
         memory \subseteq memory', Bytes(a, size) \subseteq memory',
         Bytes(a, size) \cap BytesOf(used) = {}, used' = Put(used, a, size)
  PROVE  Promise!Alloc(a, size)
<1>1. ASSUME NEW b \in DOMAIN used PROVE Bytes(b, used[b]) \cap Bytes(a, size) = {}
  BY InBytesOf
<1>2. QED
  BY <1>1, PromiseSame DEF Promise!Alloc

(* memAlloc from the list of free blocks.                                   *)
LEMMA AllocFreeKeeps ==
  ASSUME IInv, NEW size \in Nat \ {0}, AllocFree(size)
  PROVE  IInv' /\ \E a \in 0 .. Limit : Promise!Alloc(a, size)
<1>1. PICK b \in DOMAIN free : /\ free[b] >= size
                              /\ used' = Put(used, b, size)
                              /\ free' = Rest(b, size)
  BY DEF AllocFree
<1>2. UNCHANGED <<mapAddr, memory, lost>>
  BY DEF AllocFree
<1>3. b \in Nat /\ free[b] \in Nat /\ size <= free[b]
  BY <1>1, IInvTables DEF Table
<1>4. /\ Table(free')
      /\ BytesOf(free') = BytesOf(free) \ Bytes(b, size)
      /\ Bytes(b, size) \subseteq BytesOf(free)
  BY <1>1, <1>3, IInvTables, RestOfBlock
<1>5. Bytes(b, size) \cap BytesOf(used) = {}
  BY <1>4, IInvTables
<1>6. Table(used') /\ BytesOf(used') = BytesOf(used) \cup Bytes(b, size)
  BY <1>1, <1>3, <1>5, IInvTables, PutBlock
<1>7. IInv'
  <2>1. MappedBelow'
    BY <1>2, IInvTables DEF MappedBelow
  <2>2. QED
    BY <1>2, <1>4, <1>6, <2>1, IInvTables, IInvNext
<1>8. b \in 0 .. Limit
  <2>1. b \in Bytes(b, size)
    BY <1>3, InBytes
  <2>2. b \in memory
    BY <1>4, <2>1, IInvTables
  <2>3. QED
    BY <1>3, <2>2, HeapAssumption, IInvTables DEF MappedBelow
<1>9. Promise!Alloc(b, size)
  BY <1>1, <1>2, <1>4, <1>5, <1>8, IInvTables, MayHandOut
<1>10. QED
  BY <1>7, <1>8, <1>9

(* memAlloc from a new mapping.                                             *)
LEMMA AllocMappedKeeps ==
  ASSUME IInv, NEW size \in Nat \ {0}, AllocMapped(size)
  PROVE  IInv' /\ \E a \in 0 .. Limit : Promise!Alloc(a, size)
<1>1. PICK n \in Nat : n = Align(size) /\ n >= size
  BY AlignGrows
<1>2. /\ mapAddr + n <= Limit /\ mapAddr' = mapAddr + n
      /\ memory' = memory \cup Bytes(mapAddr, n)
      /\ used' = Put(used, mapAddr, size)
      /\ free' = IF n > size THEN Put(free, mapAddr + size, n - size) ELSE free
      /\ lost' = lost
  BY <1>1 DEF AllocMapped, Takes
<1>3. PICK rest \in Nat : rest = n - size /\ n = size + rest
  BY <1>1
<1>4. mapAddr \in Nat /\ mapAddr + size \in Nat
  BY IInvTables
<1>5. /\ Bytes(mapAddr, n) = Bytes(mapAddr, size) \cup Bytes(mapAddr + size, rest)
      /\ Bytes(mapAddr, size) \cap Bytes(mapAddr + size, rest) = {}
  <2>1. \A s \in Nat :
          /\ Bytes(mapAddr, s + rest) = Bytes(mapAddr, s) \cup Bytes(mapAddr + s, rest)
          /\ Bytes(mapAddr, s) \cap Bytes(mapAddr + s, rest) = {}
    BY <1>4, BytesSplit
  <2>2. QED
    BY <1>3, <2>1
<1>6. Bytes(mapAddr, n) \cap memory = {}
  <2>1. ASSUME NEW x \in Bytes(mapAddr, n) PROVE x \notin memory
    BY <1>4, <2>1, InBytes, IInvTables DEF MappedBelow
  <2>2. QED
    BY <2>1
<1>7. Table(used') /\ BytesOf(used') = BytesOf(used) \cup Bytes(mapAddr, size)
  <2>1. Bytes(mapAddr, size) \cap BytesOf(used) = {}
    BY <1>5, <1>6, IInvTables
  <2>2. QED
    BY <1>2, <1>4, <2>1, IInvTables, PutBlock
<1>8. Table(free') /\ BytesOf(free') = BytesOf(free) \cup Bytes(mapAddr + size, rest)
  <2>1. CASE n > size
    <3>1. rest \in Nat \ {0} /\ free' = Put(free, mapAddr + size, rest)
      BY <1>1, <1>2, <1>3, <2>1
    <3>2. Bytes(mapAddr + size, rest) \cap BytesOf(free) = {}
      BY <1>5, <1>6, IInvTables
    <3>3. QED
      BY <1>4, <3>1, <3>2, IInvTables, PutBlock
  <2>2. CASE ~ n > size
    <3>1. rest = 0 /\ free' = free
      BY <1>1, <1>2, <1>3, <2>2
    <3>2. Bytes(mapAddr + size, rest) = {}
      BY <1>4, <3>1, InBytes
    <3>3. QED
      BY <3>1, <3>2, IInvTables
  <2>3. QED
    BY <2>1, <2>2
<1>9. ASSUME NEW x \in Bytes(mapAddr, n) PROVE x \in Nat /\ x < mapAddr + n /\ x < Limit
  BY <1>2, <1>4, <1>9, InBytes, HeapAssumption
<1>10. IInv'
  <2>1. MappedBelow'
    BY <1>2, <1>4, <1>9, IInvTables DEF MappedBelow
  <2>2. memory' \subseteq Nat /\ mapAddr' \in Nat
    BY <1>2, <1>4, <1>9, IInvTables
  <2>3. memory' = BytesOf(used') \cup BytesOf(free') \cup lost'
    BY <1>2, <1>5, <1>7, <1>8, IInvTables
  <2>4. /\ BytesOf(used') \cap BytesOf(free') = {}
        /\ lost' \cap (BytesOf(used') \cup BytesOf(free')) = {}
    BY <1>2, <1>5, <1>6, <1>7, <1>8, IInvTables
  <2>5. QED
    BY <1>2, <1>7, <1>8, <2>1, <2>2, <2>3, <2>4, IInvTables, IInvNext
<1>11. mapAddr \in 0 .. Limit
  BY <1>1, <1>2, <1>4, HeapAssumption
<1>12. Promise!Alloc(mapAddr, size)
  BY <1>2, <1>5, <1>6, <1>11, IInvTables, MayHandOut
<1>13. QED
  BY <1>10, <1>11, <1>12

(* mapAlloc for others, or one that the emulator refuses.                   *)
LEMMA TakesKeeps ==
  ASSUME IInv, NEW size \in Nat \ {0}, Takes(size),
         UNCHANGED <<memory, used, free, lost>>
  PROVE  IInv' /\ UNCHANGED Promise!vars
<1>1. PICK n \in Nat : n = Align(size)
  BY AlignGrows
<1>2. mapAddr \in Nat /\ mapAddr' = mapAddr + n
  BY <1>1, IInvTables DEF Takes
<1>3. MappedBelow'
  BY <1>2, IInvTables DEF MappedBelow
<1>4. QED
  BY <1>2, <1>3, IInvTables, IInvNext DEF Promise!vars

(* memFree of a block in use.                                               *)
LEMMA MemFreeKeeps ==
  ASSUME IInv, NEW addr \in DOMAIN used, MemFree(addr)
  PROVE  IInv'
<1>1. /\ used' = Drop(used, {addr}) /\ UNCHANGED <<mapAddr, memory, lost>>
      /\ FreeJoins(addr) \/ FreeInserts(addr) \/ FreeLowest(addr)
  BY DEF MemFree
<1>2. Table(free') /\ BytesOf(free') = BytesOf(free) \cup Bytes(addr, used[addr])
  BY <1>1, IInvTables, FreedBlock
<1>3. /\ Table(used') /\ BytesOf(used') = BytesOf(used) \ Bytes(addr, used[addr])
      /\ Bytes(addr, used[addr]) \subseteq BytesOf(used)
  BY <1>1, IInvTables, DropBlock
<1>4. MappedBelow'
  BY <1>1, IInvTables DEF MappedBelow
<1>5. QED
  BY <1>1, <1>2, <1>3, <1>4, IInvTables, IInvNext

(* memFree that panics: what it took from mm.used is lost.                  *)
LEMMA FreePanicsKeeps ==
  ASSUME IInv, NEW addr \in DOMAIN used, FreePanics(addr)
  PROVE  IInv'
<1>1. /\ used' = Drop(used, {addr}) /\ lost' = lost \cup Bytes(addr, used[addr])
      /\ UNCHANGED <<mapAddr, memory, free>>
  BY DEF FreePanics
<1>2. /\ Table(used') /\ BytesOf(used') = BytesOf(used) \ Bytes(addr, used[addr])
      /\ Bytes(addr, used[addr]) \subseteq BytesOf(used)
  BY <1>1, IInvTables, DropBlock
<1>3. MappedBelow'
  BY <1>1, IInvTables DEF MappedBelow
<1>4. lost' \subseteq Nat
  BY <1>1, <1>2, IInvTables
<1>5. QED
  BY <1>1, <1>2, <1>3, <1>4, IInvTables, IInvNext

(* Either way, a block leaves mm.used and nothing else does.                *)
LEMMA FreeIsPromised ==
  ASSUME IInv, NEW addr \in DOMAIN used, MemFree(addr) \/ FreePanics(addr)
  PROVE  \E a \in 0 .. Limit : Promise!Free(a)
<1>1. used' = Drop(used, {addr}) /\ memory' = memory
  BY DEF MemFree, FreePanics
<1>2. addr \in Nat /\ used[addr] \in Nat \ {0}
  BY IInvTables DEF Table
<1>3. addr \in Bytes(addr, used[addr])
  BY <1>2, InBytes
<1>4. addr \in memory
  BY <1>3, IInvTables, InBytesOf
<1>5. addr \in 0 .. Limit
  BY <1>2, <1>4, HeapAssumption, IInvTables DEF MappedBelow
<1>6. Promise!Free(addr)
  BY <1>1, PromiseSame DEF Promise!Free
<1>7. QED
  BY <1>5, <1>6

-----------------------------------------------------------------------------
(* Theorems                                                                 *)

(* Nothing is mapped before the first memAlloc.                             *)
LEMMA IInvInit == Init => IInv
<1>1. SUFFICES ASSUME Init PROVE IInv
  OBVIOUS
<1>2. Nothing \in [{} -> Nat \ {0}] /\ DOMAIN Nothing = {} /\ BytesOf(Nothing) = {}
  BY DEF Nothing, BytesOf
<1>3. PageSize \in Nat
  BY HeapAssumption
<1>4. QED
  BY <1>1, <1>2, <1>3 DEF Init, IInv, TypeOK, BytesAccounted, Apart, MappedBelow

(* A step of the allocator keeps the invariant and is a step of Heap, or    *)
(* none.                                                                    *)
LEMMA IInvStep == IInv /\ [Next]_vars => IInv' /\ [Promise!Next]_(Promise!vars)
<1>1. SUFFICES ASSUME IInv, [Next]_vars
               PROVE  IInv' /\ [Promise!Next]_(Promise!vars)
  OBVIOUS
<1>2. ASSUME NEW size \in Sizes, AllocFree(size) \/ AllocMapped(size)
      PROVE  IInv' /\ Promise!Next
  <2>1. size \in Nat \ {0}
    BY HeapAssumption
  <2>2. IInv' /\ \E a \in 0 .. Limit : Promise!Alloc(a, size)
    BY <1>1, <1>2, <2>1, AllocFreeKeeps, AllocMappedKeeps
  <2>3. QED
    BY <2>2 DEF Promise!Next
<1>3. ASSUME NEW size \in Sizes, AllocFails(size) \/ MapAlloc(size)
      PROVE  IInv' /\ UNCHANGED Promise!vars
  <2>1. size \in Nat \ {0}
    BY HeapAssumption
  <2>2. QED
    BY <1>1, <1>3, <2>1, TakesKeeps DEF AllocFails, MapAlloc
<1>4. ASSUME NEW addr \in DOMAIN used, MemFree(addr) \/ FreePanics(addr)
      PROVE  IInv' /\ Promise!Next
  <2>1. IInv'
    BY <1>1, <1>4, MemFreeKeeps, FreePanicsKeeps
  <2>2. \E a \in 0 .. Limit : Promise!Free(a)
    BY <1>1, <1>4, FreeIsPromised
  <2>3. QED
    BY <2>1, <2>2 DEF Promise!Next
<1>5. CASE UNCHANGED vars
  <2>1. IInv'
    BY <1>1, <1>5 DEF vars, IInv, TypeOK, BytesAccounted, MappedBelow, Apart
  <2>2. QED
    BY <1>5, <2>1 DEF vars, Promise!vars
<1>6. QED
  BY <1>1, <1>2, <1>3, <1>4, <1>5 DEF Next

(* The accounts are right in every reachable state.                         *)
THEOREM AllocatorKeepsAccounts == Spec => []IInv
<1>1. IInv /\ [Next]_vars => IInv'
  BY IInvStep
<1>2. QED
  BY <1>1, IInvInit, PTL DEF Spec

(* The tables of the allocator are well-typed (TypeOK).                     *)
THEOREM AllocatorTypeCorrect == Spec => []TypeOK
<1>1. IInv => TypeOK
  BY DEF IInv
<1>2. QED
  BY <1>1, AllocatorKeepsAccounts, PTL

(* However memAlloc and memFree split and merge, every byte mapped for the  *)
(* heap stays in exactly one place (BytesAccounted).                        *)
THEOREM MappedBytesAccounted == Spec => []BytesAccounted
<1>1. IInv => BytesAccounted
  BY DEF IInv
<1>2. QED
  BY <1>1, AllocatorKeepsAccounts, PTL

(* The allocator implements Heap: it hands out mapped memory that nobody    *)
(* else uses, and takes a block back only from MemFree.                     *)
THEOREM AllocatorImplementsHeap == Spec => HeapSpec
<1>1. Init => Promise!Init
  BY DEF Init, Promise!Init, Nothing
<1>2. IInv /\ [Next]_vars => [Promise!Next]_(Promise!vars)
  BY IInvStep
<1>3. QED
  BY <1>1, <1>2, AllocatorKeepsAccounts, PTL DEF Spec, HeapSpec, Promise!Spec
=============================================================================
