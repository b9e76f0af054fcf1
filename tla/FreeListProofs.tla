--------------------------- MODULE FreeListProofs ---------------------------
(***************************************************************************)
(* Proofs about FreeList, for every finite set of blocks, every page size  *)
(* and every set of sizes: the links of the list agree, and the list       *)
(* implements HeapAllocator.                                               *)
(*                                                                         *)
(* The order in which the list is visited is the order of the addresses:   *)
(* the block with k blocks above it is visited as the k-th.  So everything *)
(* about the recursive Visited is one lemma (ListIsOrder), and the         *)
(* operations are about neighbours in the order of addresses.              *)
(***************************************************************************)
EXTENDS FreeList, FiniteSetTheorems, WellFoundedInduction, TLAPS

(* The allocator that the list implements, with what is proved about it     *)
Allocator == INSTANCE HeapProofs WITH free <- FreeOf

(* The blocks in the list are those that are not in the pool *)
Linked == Blocks \ pool

Block ==
  [addr : Nat, size : Nat, prev : Blocks \cup {Nil}, next : Blocks \cup {Nil}]

(* With head h and fields nd, the blocks of L are a list in descending      *)
(* order of their addresses, and prev undoes next.                          *)
InOrder(h, nd, L) ==
  /\ nd \in [Blocks -> Block] /\ L \subseteq Blocks
  /\ \A b, c \in L : nd[b].addr = nd[c].addr => b = c
  /\ IF h = Nil THEN L = {}
     ELSE h \in L /\ \A c \in L : nd[c].addr <= nd[h].addr
  /\ \A b \in L :
       /\ IF nd[b].prev = Nil THEN h = b
          ELSE nd[b].prev \in L /\ nd[nd[b].prev].next = b
       /\ IF nd[b].next = Nil THEN \A c \in L : nd[b].addr <= nd[c].addr
          ELSE /\ nd[b].next \in L /\ nd[nd[b].next].prev = b
               /\ nd[nd[b].next].addr < nd[b].addr
               /\ \A c \in L : nd[c].addr < nd[b].addr =>
                                 nd[c].addr <= nd[nd[b].next].addr

(* Blocks in the pool have no links.                                        *)
PoolUnlinked ==
  /\ pool \subseteq Blocks
  /\ \A b \in pool : node[b].prev = Nil /\ node[b].next = Nil

ListInv == InOrder(head, node, Linked) /\ PoolUnlinked

-----------------------------------------------------------------------------
(* Induction over the natural numbers                                       *)

(* A set of natural numbers has a least member: < is well-founded.          *)
LEMMA LeastOf ==
  ASSUME NEW T, T \subseteq Nat, T # {}
  PROVE  \E x \in T : \A y \in T : x <= y
<1> DEFINE less == {p \in Nat \X Nat : p[1] < p[2]}
<1>1. IsWellFoundedOn(less, Nat)
  BY NatLessThanWellFounded DEF OpToRel
<1>2. PICK x \in T : \A y \in T : <<y, x>> \notin less
  <2> HIDE DEF less
  <2>1. QED
    BY <1>1, WFMin
<1>3. ASSUME NEW y \in T, y < x PROVE FALSE
  <2>1. <<y, x>> \in less
    BY <1>3
  <2>2. QED
    BY <1>2, <2>1
<1>4. QED
  BY <1>3

(* A set with zero and every successor has every number.                    *)
LEMMA EveryNumber ==
  ASSUME NEW T, 0 \in T, \A k \in Nat : k \in T => k + 1 \in T
  PROVE  Nat \subseteq T
<1>1. SUFFICES ASSUME Nat \ T # {} PROVE FALSE
  OBVIOUS
<1>2. PICK x \in Nat \ T : \A y \in Nat \ T : x <= y
  BY <1>1, LeastOf
<1>3. x # 0 /\ x - 1 \in Nat
  BY <1>2
<1>4. x - 1 \in T
  BY <1>2, <1>3
<1>5. QED
  BY <1>3, <1>4

(* The function that follows next from h exists: for k + 1 blocks it is     *)
(* that for k blocks and one more.                                          *)
Follows(f, n, h, nd) ==
  f = [k \in 0 .. n |->
         IF k = 0 THEN h ELSE IF f[k - 1] = Nil THEN Nil ELSE nd[f[k - 1]].next]

LEMMA FollowsExists ==
  ASSUME NEW n \in Nat, NEW h, NEW nd
  PROVE  \E f : Follows(f, n, h, nd)
<1> DEFINE T == {m \in Nat : \E f : Follows(f, m, h, nd)}
<1>1. 0 \in T
  <2>1. Follows([k \in 0 .. 0 |-> h], 0, h, nd)
    BY DEF Follows
  <2>2. QED
    BY <2>1
<1>2. ASSUME NEW m \in Nat, m \in T PROVE m + 1 \in T
  <2>1. PICK f : Follows(f, m, h, nd)
    BY <1>2
  <2> DEFINE last == IF f[m] = Nil THEN Nil ELSE nd[f[m]].next
             g == [k \in 0 .. m + 1 |-> IF k = m + 1 THEN last ELSE f[k]]
  <2>2. \A k \in 0 .. m : f[k] = IF k = 0 THEN h
                                 ELSE IF f[k - 1] = Nil THEN Nil ELSE nd[f[k - 1]].next
    BY <2>1 DEF Follows
  <2>3. ASSUME NEW k \in 0 .. m + 1
        PROVE  g[k] = IF k = 0 THEN h
                      ELSE IF g[k - 1] = Nil THEN Nil ELSE nd[g[k - 1]].next
    <3>1. CASE k = m + 1
      BY <3>1
    <3>2. CASE k # m + 1
      <4>1. k \in 0 .. m /\ g[k] = f[k]
        BY <3>2
      <4>2. k # 0 => k - 1 \in 0 .. m /\ g[k - 1] = f[k - 1]
        BY <3>2
      <4>3. QED
        BY <2>2, <4>1, <4>2
    <3>3. QED
      BY <3>1, <3>2
  <2>4. Follows(g, m + 1, h, nd)
    <3> HIDE DEF last
    <3>1. g = [k \in 0 .. m + 1 |-> g[k]]
      OBVIOUS
    <3>2. QED
      BY <2>3, <3>1, Zenon DEF Follows
  <2>5. QED
    BY <2>4
<1>3. QED
  BY <1>1, <1>2, EveryNumber

-----------------------------------------------------------------------------
(* The list is visited in the order of the addresses                        *)

N == Cardinality(Blocks)

LEMMA BlocksFinite == N \in Nat /\ \A S \in SUBSET Blocks : IsFiniteSet(S)
BY FreeListAssumption, FS_CardinalityType, FS_Subset DEF N

(* What the recursion of Visited means.                                     *)
LEMMA VisitedIs ==
  /\ DOMAIN Visited = 0 .. N /\ Visited[0] = head
  /\ \A k \in 0 .. N : k # 0 =>
       Visited[k] = IF Visited[k - 1] = Nil THEN Nil ELSE node[Visited[k - 1]].next
<1>1. PICK f : Follows(f, N, head, node)
  BY BlocksFinite, FollowsExists
<1>2. Follows(Visited, N, head, node)
  <2>1. Visited = CHOOSE at : Follows(at, N, head, node)
    BY DEF Visited, Follows, N
  <2>2. QED
    BY <1>1, <2>1
<1>3. QED
  BY <1>2, BlocksFinite DEF Follows

(* How many blocks of the list are above b                                  *)
Above(b) == {c \in Linked : node[c].addr > node[b].addr}
Rank(b) == Cardinality(Above(b))

LEMMA AddrType ==
  ASSUME ListInv, NEW b \in Linked
  PROVE  /\ b \in Blocks /\ b # Nil
         /\ node[b].addr \in Nat /\ node[b].size \in Nat
         /\ node[b].next \in Linked \cup {Nil} /\ node[b].prev \in Linked \cup {Nil}
BY FreeListAssumption DEF ListInv, InOrder, Linked, Block

LEMMA RankType ==
  ASSUME ListInv, NEW b \in Linked
  PROVE  Rank(b) \in Nat /\ Rank(b) < N
<1>1. Above(b) \subseteq Blocks \ {b} /\ b \in Blocks
  BY AddrType DEF Above, Linked
<1>2. IsFiniteSet(Blocks \ {b}) /\ Cardinality(Blocks \ {b}) = N - 1
  BY <1>1, FreeListAssumption, FS_RemoveElement DEF N
<1>3. Rank(b) \in Nat /\ Rank(b) <= N - 1
  BY <1>1, <1>2, FS_Subset, FS_CardinalityType DEF Rank
<1>4. QED
  BY <1>3, BlocksFinite

(* The head is the one block with none above it ...                         *)
LEMMA RankHead ==
  ASSUME ListInv, NEW b \in Linked
  PROVE  Rank(b) = 0 <=> b = head
<1>1. head \in Linked /\ head # Nil /\ \A c \in Linked : node[c].addr <= node[head].addr
  BY FreeListAssumption DEF ListInv, InOrder, Linked
<1>2. \A c \in Linked : node[c].addr \in Nat
  BY AddrType
<1>3. Above(b) = {} <=> b = head
  BY <1>1, <1>2 DEF Above, ListInv, InOrder
<1>4. IsFiniteSet(Above(b))
  BY BlocksFinite DEF Above, Linked
<1>5. Rank(b) = 0 <=> Above(b) = {}
  BY <1>4, FS_EmptySet DEF Rank
<1>6. QED
  BY <1>3, <1>5

(* ... and next leads to the block with one more above it.                  *)
LEMMA RankNext ==
  ASSUME ListInv, NEW b \in Linked, node[b].next # Nil
  PROVE  Rank(node[b].next) = Rank(b) + 1
<1> DEFINE c == node[b].next
<1>1. /\ c \in Linked /\ node[c].addr < node[b].addr
      /\ \A d \in Linked : node[d].addr < node[b].addr => node[d].addr <= node[c].addr
  BY DEF ListInv, InOrder
<1>2. \A d \in Linked : node[d].addr \in Nat
  BY AddrType
<1>3. \A d \in Linked : node[d].addr = node[b].addr => d = b
  BY DEF ListInv, InOrder
<1>4. Above(c) = Above(b) \cup {b} /\ b \notin Above(b)
  BY <1>1, <1>2, <1>3 DEF Above
<1>5. IsFiniteSet(Above(b))
  BY BlocksFinite DEF Above, Linked
<1>6. QED
  BY <1>4, <1>5, FS_AddElement DEF Rank

(* The k-th block that is visited has k above it, until the list ends.      *)
LEMMA VisitedRank ==
  ASSUME ListInv
  PROVE  \A k \in 0 .. N :
           Visited[k] = Nil \/ (Visited[k] \in Linked /\ Rank(Visited[k]) = k)
<1> DEFINE ok(k) == Visited[k] = Nil \/ (Visited[k] \in Linked /\ Rank(Visited[k]) = k)
           T == {k \in Nat : k <= N => ok(k)}
<1>1. N \in Nat
  BY BlocksFinite
<1>2. 0 \in T
  <2>1. head = Nil \/ head \in Linked
    BY DEF ListInv, InOrder
  <2>2. QED
    BY <2>1, VisitedIs, RankHead
<1>3. ASSUME NEW k \in Nat, k \in T PROVE k + 1 \in T
  <2>1. SUFFICES ASSUME k + 1 <= N PROVE ok(k + 1)
    OBVIOUS
  <2>2. k \in 0 .. N /\ k + 1 \in 0 .. N /\ ok(k) /\ k + 1 # 0 /\ (k + 1) - 1 = k
    BY <1>1, <1>3, <2>1
  <2>3. Visited[k + 1] = IF Visited[k] = Nil THEN Nil ELSE node[Visited[k]].next
    BY <2>2, VisitedIs
  <2>4. CASE Visited[k] = Nil
    BY <2>3, <2>4
  <2>5. CASE Visited[k] # Nil
    <3>1. PICK b \in Linked : b = Visited[k] /\ Rank(b) = k
      BY <2>2, <2>5
    <3>2. Visited[k + 1] = node[b].next
      BY <2>3, <2>5, <3>1
    <3>3. node[b].next \in Linked \cup {Nil}
      BY AddrType
    <3>4. QED
      BY <3>1, <3>2, <3>3, RankNext
  <2>6. QED
    BY <2>4, <2>5
<1>4. Nat \subseteq T
  <2> HIDE DEF T
  <2>1. QED
    BY <1>2, <1>3, EveryNumber
<1>5. QED
  BY <1>1, <1>4

(* And every block is visited.                                              *)
LEMMA RankVisited ==
  ASSUME ListInv
  PROVE  \A b \in Linked : Visited[Rank(b)] = b
<1> DEFINE T == {k \in Nat : \A b \in Linked : Rank(b) = k => Visited[k] = b}
<1>1. 0 \in T
  BY RankHead, VisitedIs
<1>2. ASSUME NEW k \in Nat, k \in T PROVE k + 1 \in T
  <2>1. SUFFICES ASSUME NEW b \in Linked, Rank(b) = k + 1 PROVE Visited[k + 1] = b
    OBVIOUS
  <2>2. b # head /\ k + 1 < N
    BY <2>1, RankHead, RankType
  <2>3. PICK c \in Linked : c = node[b].prev /\ node[c].next = b
    BY <2>2 DEF ListInv, InOrder
  <2>4. b # Nil /\ c # Nil
    BY AddrType
  <2>5. Rank(c) = k
    <3>1. Rank(b) = Rank(c) + 1 /\ Rank(c) \in Nat
      BY <2>3, <2>4, RankNext, RankType
    <3>2. QED
      BY <2>1, <3>1
  <2>6. Visited[k] = c
    BY <1>2, <2>5
  <2>7. k + 1 \in 0 .. N /\ k + 1 # 0 /\ (k + 1) - 1 = k
    BY <2>2, BlocksFinite
  <2>8. QED
    BY <2>3, <2>4, <2>6, <2>7, VisitedIs
<1>3. Nat \subseteq T
  <2> HIDE DEF T
  <2>1. QED
    BY <1>1, <1>2, EveryNumber
<1>4. QED
  BY <1>3, RankType

(* The list ends, it consists of the blocks that are not in the pool, and   *)
(* its first block in a set is the highest.                                 *)
LEMMA ListIsOrder ==
  ListInv => /\ Visited[N] = Nil
             /\ Listed = Linked
             /\ \A S \in SUBSET Linked, b \in Blocks : Finds(S, b) =>
                  b \in S /\ \A c \in S : node[c].addr <= node[b].addr
<1>1. SUFFICES ASSUME ListInv
               PROVE  /\ Visited[N] = Nil
                      /\ Listed = Linked
                      /\ \A S \in SUBSET Linked, b \in Blocks : Finds(S, b) =>
                           b \in S /\ \A c \in S : node[c].addr <= node[b].addr
  OBVIOUS
<1>2. Visited[N] = Nil
  <2>1. N \in 0 .. N
    BY BlocksFinite
  <2>2. \A b \in Linked : Rank(b) # N
    BY <1>1, RankType, BlocksFinite
  <2>3. QED
    BY <1>1, <2>1, <2>2, VisitedRank
<1>3. Listed = Linked
  <2>1. ASSUME NEW b \in Listed PROVE b \in Linked
    BY <1>1, VisitedRank, VisitedIs DEF Listed
  <2>2. ASSUME NEW b \in Linked PROVE b \in Listed
    <3>1. Rank(b) \in 0 .. N /\ Visited[Rank(b)] = b /\ b # Nil
      BY <1>1, RankType, RankVisited, BlocksFinite, AddrType
    <3>2. QED
      BY <3>1, VisitedIs DEF Listed
  <2>3. QED
    BY <2>1, <2>2
<1>4. ASSUME NEW S \in SUBSET Linked, NEW b \in Blocks, Finds(S, b), NEW c \in S
      PROVE  b \in S /\ node[c].addr <= node[b].addr
  <2>1. PICK k \in 0 .. N : /\ Visited[k] = b /\ b \in S
                           /\ \A j \in 0 .. k - 1 : Visited[j] \notin S
    BY <1>4, VisitedIs DEF Finds
  <2>2. Rank(b) = k /\ Rank(c) \in Nat /\ Visited[Rank(c)] = c
    <3>1. b \in Linked /\ b # Nil /\ c \in Linked
      BY <1>1, <2>1, AddrType
    <3>2. QED
      BY <1>1, <2>1, <3>1, VisitedRank, RankVisited, RankType
  <2>3. Rank(c) >= k
    BY <2>1, <2>2, BlocksFinite
  <2>4. ASSUME node[c].addr > node[b].addr PROVE FALSE
    <3>1. /\ node[b].addr \in Nat /\ node[c].addr \in Nat
          /\ \A d \in Linked : node[d].addr \in Nat
      BY <1>1, <2>1, AddrType
    <3>2. Above(c) \subseteq Above(b) /\ c \in Above(b) /\ c \notin Above(c)
      BY <2>4, <3>1 DEF Above
    <3>3. IsFiniteSet(Above(b)) /\ IsFiniteSet(Above(c))
      BY BlocksFinite DEF Above, Linked
    <3>4. Rank(c) < Rank(b)
      BY <3>2, <3>3, FS_Subset, FS_CardinalityType DEF Rank
    <3>5. QED
      BY <2>2, <2>3, <3>4, BlocksFinite
  <2>5. node[b].addr \in Nat /\ node[c].addr \in Nat
    BY <1>1, <2>1, AddrType
  <2>6. QED
    BY <2>1, <2>4, <2>5
<1>5. ASSUME NEW S \in SUBSET Linked, NEW b \in Blocks, Finds(S, b) PROVE b \in S
  BY <1>5 DEF Finds
<1>6. QED
  BY <1>2, <1>3, <1>4, <1>5

-----------------------------------------------------------------------------
(* What the operations on the list do to the fields                         *)

(* Remove gives the neighbours of b to each other.                          *)
LEMMA RemoveFields ==
  ASSUME NEW nd \in [Blocks -> Block], NEW b \in Blocks,
         nd[b].prev = nd[b].next => nd[b].prev = Nil
  PROVE  /\ Remove(nd, b) \in [Blocks -> Block]
         /\ Remove(nd, b)[b] = Unused
         /\ \A c \in Blocks \ {b} :
              /\ Remove(nd, b)[c].addr = nd[c].addr /\ Remove(nd, b)[c].size = nd[c].size
              /\ Remove(nd, b)[c].next = IF c = nd[b].prev THEN nd[b].next ELSE nd[c].next
              /\ Remove(nd, b)[c].prev = IF c = nd[b].next THEN nd[b].prev ELSE nd[c].prev
<1> DEFINE un == Unlinked(nd, b)
<1>1. Unused \in Block
  BY DEF Unused, Block
<1>2. /\ nd[b].prev \in Blocks \cup {Nil} /\ nd[b].next \in Blocks \cup {Nil}
  BY DEF Block
<1>3. un = [c \in Blocks |-> un[c]]
  BY DEF Unlinked
<1>4. ASSUME NEW c \in Blocks
      PROVE  /\ un[c] \in Block
             /\ un[c].addr = nd[c].addr /\ un[c].size = nd[c].size
             /\ un[c].next = IF c = nd[b].prev THEN nd[b].next ELSE nd[c].next
             /\ un[c].prev = IF c = nd[b].next THEN nd[b].prev ELSE nd[c].prev
  <2>1. nd[c] \in Block
    OBVIOUS
  <2>2. CASE c = nd[b].prev
    <3>1. c # nd[b].next
      BY <2>2, FreeListAssumption
    <3>2. un[c] = [nd[c] EXCEPT !.next = nd[b].next]
      BY <2>2, <3>1 DEF Unlinked
    <3>3. QED
      BY <1>2, <2>1, <2>2, <3>1, <3>2 DEF Block
  <2>3. CASE c # nd[b].prev /\ c = nd[b].next
    <3>1. un[c] = [nd[c] EXCEPT !.prev = nd[b].prev]
      BY <2>3 DEF Unlinked
    <3>2. QED
      BY <1>2, <2>1, <2>3, <3>1 DEF Block
  <2>4. CASE c # nd[b].prev /\ c # nd[b].next
    <3>1. un[c] = nd[c]
      BY <2>4 DEF Unlinked
    <3>2. QED
      BY <2>1, <2>4, <3>1
  <2>5. QED
    BY <2>2, <2>3, <2>4
<1>5. /\ Remove(nd, b) = [c \in Blocks |-> IF c = b THEN Unused ELSE un[c]]
  BY <1>3 DEF Remove
<1>6. QED
  <2> HIDE DEF un
  <2>1. QED
    BY <1>1, <1>4, <1>5

(* InsertAfter puts n between the block above mb and mb, or alone.          *)
LEMMA InsertAfterFields ==
  ASSUME node \in [Blocks -> Block], NEW mb \in Blocks \cup {Nil}, NEW n \in Blocks,
         NEW addr \in Nat, NEW size \in Nat, mb = Nil => node[n].prev = Nil,
         n # mb, mb # Nil => node[mb].prev \notin {n, mb},
         NEW up, up = IF mb = Nil THEN Nil ELSE node[mb].prev
  PROVE  LET ins == InsertAfter(mb, n, addr, size)
         IN  /\ ins \in [Blocks -> Block]
             /\ ins[n] = [addr |-> addr, size |-> size, prev |-> up, next |-> mb]
             /\ \A c \in Blocks \ {n} :
                  /\ ins[c].addr = node[c].addr /\ ins[c].size = node[c].size
                  /\ ins[c].prev = IF c = mb THEN n ELSE node[c].prev
                  /\ ins[c].next = IF c = up THEN n ELSE node[c].next
<1> DEFINE ins == InsertAfter(mb, n, addr, size)
<1>1. IF mb = Nil THEN up = Nil ELSE up \in (Blocks \cup {Nil}) \ {n, mb}
  BY DEF Block
<1>2. up = IF mb = Nil THEN node[n].prev ELSE node[mb].prev
  OBVIOUS
<1>3. ins = [c \in Blocks |->
               CASE c = n -> [addr |-> addr, size |-> size, prev |-> up, next |-> mb]
                 [] c = mb -> [node[c] EXCEPT !.prev = n]
                 [] c = up /\ mb # Nil -> [node[c] EXCEPT !.next = n]
                 [] OTHER -> node[c]]
  BY <1>2 DEF InsertAfter
<1> HIDE DEF ins
<1>4. ins[n] = [addr |-> addr, size |-> size, prev |-> up, next |-> mb] /\ ins[n] \in Block
  BY <1>1, <1>3, FreeListAssumption DEF Block
<1>5. ASSUME NEW c \in Blocks \ {n}
      PROVE  /\ ins[c] \in Block
             /\ ins[c].addr = node[c].addr /\ ins[c].size = node[c].size
             /\ ins[c].prev = IF c = mb THEN n ELSE node[c].prev
             /\ ins[c].next = IF c = up THEN n ELSE node[c].next
  <2>1. node[c] \in Block
    OBVIOUS
  <2>2. CASE c = mb
    <3>1. ins[c] = [node[c] EXCEPT !.prev = n]
      BY <1>1, <1>3, <2>2, FreeListAssumption
    <3>2. QED
      BY <1>1, <2>1, <2>2, <3>1, FreeListAssumption DEF Block
  <2>3. CASE c # mb /\ c = up /\ mb # Nil
    <3>1. ins[c] = [node[c] EXCEPT !.next = n]
      BY <1>3, <2>3
    <3>2. QED
      BY <2>1, <2>3, <3>1 DEF Block
  <2>4. CASE c # mb /\ ~(c = up /\ mb # Nil)
    <3>1. ins[c] = node[c]
      BY <1>3, <2>4
    <3>2. QED
      BY <1>1, <2>1, <2>4, <3>1, FreeListAssumption
  <2>5. QED
    BY <2>2, <2>3, <2>4
<1>6. ins = [c \in Blocks |-> ins[c]]
  BY <1>3
<1>7. QED
  BY <1>4, <1>5, <1>6 DEF ins

(* InsertBefore puts n between mb and the block below it.                   *)
LEMMA InsertBeforeFields ==
  ASSUME node \in [Blocks -> Block], NEW mb \in Blocks, NEW n \in Blocks,
         NEW addr \in Nat, NEW size \in Nat, n # mb, node[mb].next \notin {n, mb}
  PROVE  LET ins == InsertBefore(mb, n, addr, size)
             down == node[mb].next
         IN  /\ ins \in [Blocks -> Block]
             /\ ins[n] = [addr |-> addr, size |-> size, prev |-> mb, next |-> down]
             /\ \A c \in Blocks \ {n} :
                  /\ ins[c].addr = node[c].addr /\ ins[c].size = node[c].size
                  /\ ins[c].next = IF c = mb THEN n ELSE node[c].next
                  /\ ins[c].prev = IF c = down THEN n ELSE node[c].prev
<1> DEFINE ins == InsertBefore(mb, n, addr, size)
           down == node[mb].next
<1>1. down \in (Blocks \cup {Nil}) \ {n, mb}
  BY DEF Block
<1>2. ins = [c \in Blocks |->
               CASE c = n -> [addr |-> addr, size |-> size, prev |-> mb, next |-> down]
                 [] c = mb -> [node[c] EXCEPT !.next = n]
                 [] c = down -> [node[c] EXCEPT !.prev = n]
                 [] OTHER -> node[c]]
  BY DEF InsertBefore
<1> HIDE DEF ins, down
<1>3. ins[n] = [addr |-> addr, size |-> size, prev |-> mb, next |-> down] /\ ins[n] \in Block
  BY <1>1, <1>2 DEF Block
<1>4. ASSUME NEW c \in Blocks \ {n}
      PROVE  /\ ins[c] \in Block
             /\ ins[c].addr = node[c].addr /\ ins[c].size = node[c].size
             /\ ins[c].next = IF c = mb THEN n ELSE node[c].next
             /\ ins[c].prev = IF c = down THEN n ELSE node[c].prev
  <2>1. node[c] \in Block
    OBVIOUS
  <2>2. CASE c = mb
    <3>1. ins[c] = [node[c] EXCEPT !.next = n]
      BY <1>1, <1>2, <2>2
    <3>2. QED
      BY <1>1, <2>1, <2>2, <3>1, FreeListAssumption DEF Block
  <2>3. CASE c # mb /\ c = down
    <3>1. ins[c] = [node[c] EXCEPT !.prev = n]
      BY <1>2, <2>3
    <3>2. QED
      BY <2>1, <2>3, <3>1 DEF Block
  <2>4. CASE c # mb /\ c # down
    <3>1. ins[c] = node[c]
      BY <1>2, <2>4
    <3>2. QED
      BY <2>1, <2>4, <3>1
  <2>5. QED
    BY <2>2, <2>3, <2>4
<1>5. ins = [c \in Blocks |-> ins[c]]
  BY <1>2
<1>6. QED
  BY <1>3, <1>4, <1>5 DEF ins, down

-----------------------------------------------------------------------------
(* ... and to the order of the list                                         *)

(* The neighbours of a block in the order.                                  *)
LEMMA Neighbours ==
  ASSUME NEW h, NEW nd, NEW L, InOrder(h, nd, L), NEW b \in L
  PROVE  /\ b \in Blocks /\ b # Nil
         /\ nd[b].addr \in Nat /\ nd[b].size \in Nat
         /\ nd[b].next \in L \cup {Nil} /\ nd[b].prev \in L \cup {Nil}
         /\ nd[b].next # Nil => /\ nd[nd[b].next].prev = b
                                /\ nd[nd[b].next].addr < nd[b].addr
         /\ nd[b].prev # Nil => /\ nd[nd[b].prev].next = b
                                /\ nd[b].addr < nd[nd[b].prev].addr
         /\ nd[b].prev = Nil <=> h = b
<1>1. /\ b \in Blocks /\ b # Nil /\ nd[b].addr \in Nat /\ nd[b].size \in Nat
      /\ nd[b].next \in L \cup {Nil} /\ nd[b].prev \in L \cup {Nil}
  BY FreeListAssumption DEF InOrder, Block
<1>2. nd[b].next # Nil => nd[nd[b].next].prev = b /\ nd[nd[b].next].addr < nd[b].addr
  BY DEF InOrder
<1>3. ASSUME nd[b].prev # Nil
      PROVE  nd[nd[b].prev].next = b /\ nd[b].addr < nd[nd[b].prev].addr
  <2>1. nd[b].prev \in L /\ nd[nd[b].prev].next = b
    BY <1>3 DEF InOrder
  <2>2. QED
    BY <1>1, <2>1 DEF InOrder
<1>4. ASSUME h = b, nd[b].prev # Nil PROVE FALSE
  <2>1. PICK p \in L : p = nd[b].prev /\ nd[b].addr < nd[p].addr
    BY <1>1, <1>3, <1>4
  <2>2. nd[p].addr <= nd[b].addr /\ nd[p].addr \in Nat
    BY <1>1, <1>4 DEF InOrder, Block
  <2>3. QED
    BY <1>1, <2>1, <2>2
<1>5. nd[b].prev = Nil => h = b
  BY DEF InOrder
<1>6. QED
  BY <1>1, <1>2, <1>3, <1>4, <1>5

(* A list without one of its blocks is a list.                              *)
LEMMA RemoveOrder ==
  ASSUME NEW h, NEW nd, NEW L, InOrder(h, nd, L), NEW b \in L
  PROVE  InOrder(IF h = b THEN nd[b].next ELSE h, Remove(nd, b), L \ {b})
<1> DEFINE g == IF h = b THEN nd[b].next ELSE h
           M == L \ {b}
<1>1. /\ nd \in [Blocks -> Block] /\ L \subseteq Blocks
      /\ \A c, d \in L : nd[c].addr = nd[d].addr => c = d
  BY DEF InOrder
<1>2. nd[b].prev = nd[b].next => nd[b].prev = Nil
  <2>1. ASSUME NEW c \in L, nd[b].prev = c, nd[b].next = c PROVE FALSE
    <3>1. nd[c].addr < nd[b].addr /\ nd[b].addr < nd[c].addr
      BY <2>1, Neighbours
    <3>2. nd[c].addr \in Nat /\ nd[b].addr \in Nat
      BY Neighbours
    <3>3. QED
      BY <3>1, <3>2
  <2>2. nd[b].prev \in L \cup {Nil}
    BY Neighbours
  <2>3. QED
    BY <2>1, <2>2
<1>3. PICK r : r = Remove(nd, b)
  OBVIOUS
<1>4. /\ r \in [Blocks -> Block]
      /\ \A c \in Blocks \ {b} :
           /\ r[c].addr = nd[c].addr
           /\ r[c].next = IF c = nd[b].prev THEN nd[b].next ELSE nd[c].next
           /\ r[c].prev = IF c = nd[b].next THEN nd[b].prev ELSE nd[c].prev
  BY <1>1, <1>2, <1>3, RemoveFields
<1>5. \A c \in M : /\ r[c].addr = nd[c].addr /\ nd[c].addr \in Nat /\ c # Nil
                   /\ r[c].next = IF c = nd[b].prev THEN nd[b].next ELSE nd[c].next
                   /\ r[c].prev = IF c = nd[b].next THEN nd[b].prev ELSE nd[c].prev
  BY <1>1, <1>4, Neighbours
<1>6. IF g = Nil THEN M = {} ELSE g \in M /\ \A c \in M : r[c].addr <= r[g].addr
  <2>1. CASE h = b
    <3>1. \A c \in M : nd[c].addr < nd[b].addr
      <4>1. \A c \in M : nd[c].addr <= nd[b].addr /\ nd[c].addr # nd[b].addr
        BY <1>1, <2>1, Neighbours DEF InOrder
      <4>2. QED
        BY <1>5, <4>1, Neighbours
    <3>2. CASE nd[b].next = Nil
      <4>1. \A c \in L : nd[b].addr <= nd[c].addr
        BY <3>2 DEF InOrder
      <4>2. M = {}
        BY <1>5, <3>1, <4>1, Neighbours
      <4>3. QED
        BY <2>1, <3>2, <4>2
    <3>3. CASE nd[b].next # Nil
      <4>1. PICK c \in L : c = nd[b].next /\ nd[c].addr < nd[b].addr
                           /\ \A d \in L : nd[d].addr < nd[b].addr => nd[d].addr <= nd[c].addr
        BY <3>3 DEF InOrder
      <4>2. c # b
        BY <4>1, Neighbours
      <4>3. QED
        BY <1>5, <2>1, <3>1, <3>3, <4>1, <4>2
    <3>4. QED
      BY <3>2, <3>3
  <2>2. CASE h # b
    BY <1>5, <2>2 DEF InOrder
  <2>3. QED
    BY <2>1, <2>2
<1>7. ASSUME NEW c \in M
      PROVE  IF r[c].prev = Nil THEN g = c
             ELSE r[c].prev \in M /\ r[r[c].prev].next = c
  <2>1. CASE c = nd[b].next
    <3>1. r[c].prev = nd[b].prev
      BY <1>5, <2>1
    <3>2. CASE nd[b].prev = Nil
      BY <2>1, <3>1, <3>2, Neighbours
    <3>3. CASE nd[b].prev # Nil
      <4>1. PICK p \in L : p = nd[b].prev /\ nd[b].addr < nd[p].addr
        BY <3>3, Neighbours
      <4>2. p # b
        BY <4>1, Neighbours
      <4>3. QED
        BY <1>5, <2>1, <3>1, <3>3, <4>1, <4>2
    <3>4. QED
      BY <3>2, <3>3
  <2>2. CASE c # nd[b].next
    <3>1. r[c].prev = nd[c].prev
      BY <1>5, <2>2
    <3>2. CASE nd[c].prev = Nil
      BY <3>1, <3>2, Neighbours
    <3>3. CASE nd[c].prev # Nil
      <4>1. PICK p \in L : p = nd[c].prev /\ nd[p].next = c
        BY <3>3, Neighbours
      <4>2. p # b
        BY <2>2, <4>1
      <4>3. p # nd[b].prev
        <5>1. nd[b].prev # Nil => nd[nd[b].prev].next = b
          BY Neighbours
        <5>2. QED
          BY <1>5, <4>1, <4>2, <5>1
      <4>4. QED
        BY <1>5, <3>1, <3>3, <4>1, <4>2, <4>3
    <3>4. QED
      BY <3>2, <3>3
  <2>3. QED
    BY <2>1, <2>2
<1>8. ASSUME NEW c \in M
      PROVE  IF r[c].next = Nil THEN \A d \in M : r[c].addr <= r[d].addr
             ELSE /\ r[c].next \in M /\ r[r[c].next].prev = c
                  /\ r[r[c].next].addr < r[c].addr
                  /\ \A d \in M : r[d].addr < r[c].addr =>
                                    r[d].addr <= r[r[c].next].addr
  <2>1. CASE c = nd[b].prev
    <3>1. r[c].next = nd[b].next /\ nd[c].next = b /\ nd[b].addr < nd[c].addr
      BY <1>5, <2>1, Neighbours
    <3>2. \A d \in M : nd[d].addr < nd[c].addr => nd[d].addr < nd[b].addr
      <4>1. \A d \in L : nd[d].addr < nd[c].addr => nd[d].addr <= nd[b].addr
        BY <3>1, Neighbours DEF InOrder
      <4>2. \A d \in M : nd[d].addr # nd[b].addr
        BY <1>1
      <4>3. QED
        BY <1>5, <4>1, <4>2, Neighbours
    <3>3. CASE nd[b].next = Nil
      <4>1. \A d \in L : nd[b].addr <= nd[d].addr
        BY <3>3 DEF InOrder
      <4>2. \A d \in M : r[c].addr <= r[d].addr
        BY <1>5, <3>2, <4>1, Neighbours
      <4>3. QED
        BY <3>1, <3>3, <4>2
    <3>4. CASE nd[b].next # Nil
      <4>1. PICK x \in L : x = nd[b].next /\ nd[x].addr < nd[b].addr
                           /\ \A d \in L : nd[d].addr < nd[b].addr => nd[d].addr <= nd[x].addr
        BY <3>4 DEF InOrder
      <4>2. x # b /\ nd[b].addr \in Nat
        BY <4>1, Neighbours
      <4>3. r[x].prev = c
        BY <1>5, <2>1, <4>1, <4>2
      <4>4. r[x].addr < r[c].addr /\ \A d \in M : r[d].addr < r[c].addr => r[d].addr <= r[x].addr
        BY <1>5, <3>1, <3>2, <4>1, <4>2
      <4>5. QED
        BY <3>1, <3>4, <4>1, <4>2, <4>3, <4>4
    <3>5. QED
      BY <3>3, <3>4
  <2>2. CASE c # nd[b].prev
    <3>1. r[c].next = nd[c].next
      BY <1>5, <2>2
    <3>2. CASE nd[c].next = Nil
      BY <1>5, <3>1, <3>2 DEF InOrder
    <3>3. CASE nd[c].next # Nil
      <4>1. PICK x \in L : x = nd[c].next /\ nd[x].prev = c /\ nd[x].addr < nd[c].addr
                           /\ \A d \in L : nd[d].addr < nd[c].addr => nd[d].addr <= nd[x].addr
        BY <3>3 DEF InOrder
      <4>2. x # b
        BY <2>2, <4>1
      <4>3. x # nd[b].next
        <5>1. nd[b].next # Nil => nd[nd[b].next].prev = b
          BY Neighbours
        <5>2. QED
          BY <3>3, <4>1, <5>1
      <4>4. r[x].prev = c
        BY <1>5, <4>1, <4>2, <4>3
      <4>5. QED
        BY <1>5, <3>1, <3>3, <4>1, <4>2, <4>4
    <3>4. QED
      BY <3>2, <3>3
  <2>3. QED
    BY <2>1, <2>2
<1>9. \A c, d \in M : r[c].addr = r[d].addr => c = d
  BY <1>1, <1>5
<1>10. InOrder(g, r, M)
  <2> HIDE DEF g, M
  <2>1. M \subseteq Blocks
    BY <1>1 DEF M
  <2>2. QED
    BY <1>4, <1>6, <1>7, <1>8, <1>9, <2>1 DEF InOrder
<1>11. QED
  BY <1>3, <1>10

(* In r, which is nd for every block of L but for links to n, the block n   *)
(* is between the neighbours up and down, either of which may be missing,   *)
(* and so is its address.                                                   *)
Inserted(r, nd, L, n, up, down) ==
  /\ r \in [Blocks -> Block] /\ n \in Blocks \ L
  /\ up \in L \cup {Nil} /\ down \in L \cup {Nil}
  /\ up # Nil => nd[up].next = down /\ r[n].addr < nd[up].addr
  /\ down # Nil => nd[down].prev = up /\ nd[down].addr < r[n].addr
  /\ up = Nil /\ down = Nil => L = {}
  /\ r[n].prev = up /\ r[n].next = down
  /\ \A c \in L : /\ r[c].addr = nd[c].addr
                  /\ r[c].next = IF c = up THEN n ELSE nd[c].next
                  /\ r[c].prev = IF c = down THEN n ELSE nd[c].prev

(* A list with a block inserted is a list.                                  *)
LEMMA InsertOrder ==
  ASSUME NEW h, NEW nd, NEW L, NEW r, NEW n, NEW up, NEW down,
         InOrder(h, nd, L), Inserted(r, nd, L, n, up, down)
  PROVE  InOrder(IF up = Nil THEN n ELSE h, r, L \cup {n})
<1>0. PICK addr \in Nat : r[n].addr = addr
  BY DEF Inserted, Block
<1> USE <1>0 DEF Inserted
<1> DEFINE g == IF up = Nil THEN n ELSE h
           M == L \cup {n}
<1>1. n # Nil /\ n \in Blocks /\ n \notin L /\ L \subseteq Blocks
  BY FreeListAssumption DEF InOrder
<1>2. \A c \in L : /\ nd[c].addr \in Nat /\ c # Nil /\ c # n
                   /\ nd[c].next \in L \cup {Nil} /\ nd[c].prev \in L \cup {Nil}
                   /\ nd[c].prev = Nil <=> h = c
  BY Neighbours
<1>3. ASSUME NEW c \in L
      PROVE  \/ up # Nil /\ nd[up].addr <= nd[c].addr
             \/ down # Nil /\ nd[c].addr <= nd[down].addr
  <2>1. CASE up = Nil
    <3>1. down # Nil
      BY <2>1
    <3>2. h = down
      BY <1>2, <2>1, <3>1
    <3>3. QED
      BY <3>1, <3>2 DEF InOrder
  <2>2. CASE up # Nil /\ down = Nil
    BY <2>2 DEF InOrder
  <2>3. CASE up # Nil /\ down # Nil
    <3>1. nd[c].addr < nd[up].addr => nd[c].addr <= nd[down].addr
      BY <2>3 DEF InOrder
    <3>2. QED
      BY <1>2, <2>3, <3>1
  <2>4. QED
    BY <2>1, <2>2, <2>3
<1>4. \A c \in L : /\ addr < nd[c].addr => up # Nil /\ nd[up].addr <= nd[c].addr
                   /\ nd[c].addr < addr => down # Nil /\ nd[c].addr <= nd[down].addr
                   /\ nd[c].addr # addr
  BY <1>2, <1>3
<1>5. \A c, d \in M : r[c].addr = r[d].addr => c = d
  <2>1. \A c, d \in L : nd[c].addr = nd[d].addr => c = d
    BY DEF InOrder
  <2>2. QED
    BY <1>4, <2>1
<1>6. IF g = Nil THEN M = {} ELSE g \in M /\ \A c \in M : r[c].addr <= r[g].addr
  <2>1. CASE up = Nil
    <3>1. \A c \in L : nd[c].addr < addr
      BY <1>2, <1>4, <2>1
    <3>2. QED
      BY <1>1, <1>2, <2>1, <3>1
  <2>2. CASE up # Nil
    <3>1. h # Nil /\ h \in L /\ \A c \in L : nd[c].addr <= nd[h].addr
      BY <2>2 DEF InOrder
    <3>2. addr <= nd[h].addr
      BY <1>2, <2>2, <3>1
    <3>3. QED
      BY <1>2, <2>2, <3>1, <3>2
  <2>3. QED
    BY <2>1, <2>2
<1>7. ASSUME NEW c \in M
      PROVE  IF r[c].prev = Nil THEN g = c
             ELSE r[c].prev \in M /\ r[r[c].prev].next = c
  <2>1. CASE c = n
    BY <2>1
  <2>2. CASE c = down /\ c # n
    BY <1>1, <2>2
  <2>3. CASE c # down /\ c # n
    <3>1. c \in L /\ r[c].prev = nd[c].prev
      BY <2>3
    <3>2. CASE nd[c].prev = Nil
      <4>1. h = c
        BY <1>2, <3>1, <3>2
      <4>2. up # Nil
        <5>1. ASSUME up = Nil PROVE FALSE
          <6>1. down # Nil
            BY <3>1, <5>1
          <6>2. h = down
            BY <1>2, <5>1, <6>1
          <6>3. QED
            BY <2>3, <4>1, <6>2
        <5>2. QED
          BY <5>1
      <4>3. QED
        BY <3>1, <3>2, <4>1, <4>2
    <3>3. CASE nd[c].prev # Nil
      <4>1. PICK p \in L : p = nd[c].prev /\ nd[p].next = c
        BY <3>1, <3>3, Neighbours
      <4>2. p # up
        BY <1>2, <2>3, <4>1
      <4>3. QED
        BY <3>1, <3>3, <4>1, <4>2
    <3>4. QED
      BY <3>2, <3>3
  <2>4. QED
    BY <2>1, <2>2, <2>3
<1>8. ASSUME NEW c \in M
      PROVE  IF r[c].next = Nil THEN \A d \in M : r[c].addr <= r[d].addr
             ELSE /\ r[c].next \in M /\ r[r[c].next].prev = c
                  /\ r[r[c].next].addr < r[c].addr
                  /\ \A d \in M : r[d].addr < r[c].addr =>
                                    r[d].addr <= r[r[c].next].addr
  <2>1. CASE c = n
    <3>1. CASE down = Nil
      <4>1. \A d \in L : addr <= nd[d].addr
        BY <1>2, <1>4, <3>1
      <4>2. QED
        BY <2>1, <3>1, <4>1
    <3>2. CASE down # Nil
      <4>1. down \in L /\ r[down].prev = n /\ r[down].addr < addr
        BY <3>2
      <4>2. \A d \in L : nd[d].addr < addr => nd[d].addr <= nd[down].addr
        BY <1>4
      <4>3. QED
        BY <1>2, <2>1, <3>2, <4>1, <4>2
    <3>3. QED
      BY <3>1, <3>2
  <2>2. CASE c = up /\ c # n
    <3>1. c \in L /\ c # Nil /\ r[c].next = n /\ addr < nd[c].addr
      BY <1>2, <2>2
    <3>2. \A d \in L : nd[d].addr < nd[c].addr => nd[d].addr <= addr
      BY <1>2, <1>4, <2>2, <3>1
    <3>3. QED
      BY <1>1, <1>2, <2>2, <3>1, <3>2
  <2>3. CASE c # up /\ c # n
    <3>1. c \in L /\ r[c].next = nd[c].next /\ r[c].addr = nd[c].addr
      BY <2>3
    <3>2. CASE nd[c].next = Nil
      <4>1. \A d \in L : nd[c].addr <= nd[d].addr
        BY <3>1, <3>2 DEF InOrder
      <4>2. nd[c].addr <= addr
        <5>1. CASE up # Nil
          <6>1. down # Nil
            <7>1. ASSUME down = Nil PROVE FALSE
              <8>1. \A d \in L : nd[up].addr <= nd[d].addr
                BY <5>1, <7>1 DEF InOrder
              <8>2. nd[up].addr = nd[c].addr
                BY <1>2, <3>1, <4>1, <5>1, <8>1
              <8>3. QED
                BY <2>3, <3>1, <5>1, <8>2 DEF InOrder
            <7>2. QED
              BY <7>1
          <6>2. QED
            BY <1>2, <3>1, <4>1, <6>1
        <5>2. CASE up = Nil
          <6>1. down # Nil
            BY <3>1, <5>2
          <6>2. QED
            BY <1>2, <3>1, <4>1, <6>1
        <5>3. QED
          BY <5>1, <5>2
      <4>3. QED
        BY <3>1, <3>2, <4>1, <4>2
    <3>3. CASE nd[c].next # Nil
      <4>1. PICK x \in L : x = nd[c].next /\ nd[x].prev = c /\ nd[x].addr < nd[c].addr
                           /\ \A d \in L : nd[d].addr < nd[c].addr => nd[d].addr <= nd[x].addr
        BY <3>1, <3>3 DEF InOrder
      <4>2. x # down
        BY <1>2, <2>3, <3>1, <4>1
      <4>3. r[x].prev = c /\ r[x].addr = nd[x].addr
        BY <4>1, <4>2
      <4>4. addr < nd[c].addr => addr <= nd[x].addr
        <5>1. SUFFICES ASSUME addr < nd[c].addr PROVE addr <= nd[x].addr
          OBVIOUS
        <5>2. up # Nil /\ nd[up].addr <= nd[c].addr
          BY <1>4, <3>1, <5>1
        <5>3. nd[up].addr # nd[c].addr
          BY <2>3, <3>1, <5>2 DEF InOrder
        <5>4. nd[up].addr <= nd[x].addr
          BY <1>2, <3>1, <4>1, <5>2, <5>3
        <5>5. QED
          BY <1>2, <4>1, <5>2, <5>4
      <4>5. QED
        BY <3>1, <3>3, <4>1, <4>3, <4>4
    <3>4. QED
      BY <3>2, <3>3
  <2>4. QED
    BY <2>1, <2>2, <2>3
<1>9. InOrder(g, r, M)
  <2> HIDE DEF g, M
  <2>1. M \subseteq Blocks
    BY <1>1 DEF M
  <2>2. QED
    BY <1>5, <1>6, <1>7, <1>8, <2>1 DEF InOrder
<1>10. QED
  BY <1>9

(* A list whose blocks get other addresses in the same order is a list.     *)
LEMMA MoveOrder ==
  ASSUME NEW h, NEW nd, NEW L, InOrder(h, nd, L), NEW r \in [Blocks -> Block],
         \A c \in L : r[c].prev = nd[c].prev /\ r[c].next = nd[c].next,
         \A c, d \in L : r[c].addr < r[d].addr <=> nd[c].addr < nd[d].addr
  PROVE  InOrder(h, r, L)
<1>1. L \subseteq Blocks /\ \A c \in L : r[c].addr \in Nat /\ nd[c].addr \in Nat
  BY DEF InOrder, Block
<1>2. \A c, d \in L : r[c].addr <= r[d].addr <=> nd[c].addr <= nd[d].addr
  BY <1>1
<1>3. \A c, d \in L : r[c].addr = r[d].addr => c = d
  <2>1. \A c, d \in L : nd[c].addr = nd[d].addr => c = d
    BY DEF InOrder
  <2>2. QED
    BY <1>1, <2>1
<1>4. IF h = Nil THEN L = {} ELSE h \in L /\ \A c \in L : r[c].addr <= r[h].addr
  BY <1>2 DEF InOrder
<1>5. ASSUME NEW b \in L
      PROVE  /\ IF r[b].prev = Nil THEN h = b
                ELSE r[b].prev \in L /\ r[r[b].prev].next = b
             /\ IF r[b].next = Nil THEN \A c \in L : r[b].addr <= r[c].addr
                ELSE /\ r[b].next \in L /\ r[r[b].next].prev = b
                     /\ r[r[b].next].addr < r[b].addr
                     /\ \A c \in L : r[c].addr < r[b].addr =>
                                       r[c].addr <= r[r[b].next].addr
  <2>1. r[b].prev = nd[b].prev /\ r[b].next = nd[b].next
    OBVIOUS
  <2>2. IF r[b].prev = Nil THEN h = b ELSE r[b].prev \in L /\ r[r[b].prev].next = b
    BY <2>1 DEF InOrder
  <2>3. CASE nd[b].next = Nil
    <3>1. \A c \in L : nd[b].addr <= nd[c].addr
      BY <2>3 DEF InOrder
    <3>2. QED
      BY <1>2, <2>1, <2>2, <2>3, <3>1
  <2>4. CASE nd[b].next # Nil
    <3>1. PICK x \in L : x = nd[b].next /\ nd[x].prev = b /\ nd[x].addr < nd[b].addr
                         /\ \A c \in L : nd[c].addr < nd[b].addr => nd[c].addr <= nd[x].addr
      BY <2>4 DEF InOrder
    <3>2. QED
      BY <1>2, <2>1, <2>2, <2>4, <3>1
  <2>5. QED
    BY <2>3, <2>4
<1>6. QED
  BY <1>1, <1>3, <1>4, <1>5 DEF InOrder

(* InsertAfter keeps the order, in the middle of the list, at its head and  *)
(* in an empty list.                                                        *)
LEMMA InsertAfterOrder ==
  ASSUME ListInv, NEW mb \in Linked \cup {Nil}, NEW n \in pool,
         NEW addr \in Nat, NEW size \in Nat,
         mb = Nil => head = Nil,
         mb # Nil => /\ node[mb].addr < addr
                     /\ node[mb].prev # Nil => addr < node[node[mb].prev].addr
  PROVE  InOrder(IF head = mb THEN n ELSE head, InsertAfter(mb, n, addr, size),
                 Linked \cup {n})
<1>0. PICK up : up = IF mb = Nil THEN Nil ELSE node[mb].prev
  OBVIOUS
<1>1. PICK r : r = InsertAfter(mb, n, addr, size)
  OBVIOUS
<1>2. /\ InOrder(head, node, Linked) /\ node \in [Blocks -> Block]
      /\ n \in Blocks \ Linked /\ node[n].prev = Nil
      /\ mb \in Blocks \cup {Nil} /\ n # mb
  BY FreeListAssumption DEF ListInv, InOrder, PoolUnlinked, Linked
<1>3. mb # Nil => /\ node[mb].prev \in Linked \cup {Nil} /\ node[mb].prev # mb
                  /\ node[mb].prev = Nil <=> head = mb
                  /\ node[mb].prev # Nil => node[node[mb].prev].next = mb
  BY <1>2, Neighbours
<1>4. mb # Nil => node[mb].prev \notin {n, mb}
  BY <1>2, <1>3, FreeListAssumption
<1>5. /\ r \in [Blocks -> Block]
      /\ r[n] = [addr |-> addr, size |-> size, prev |-> up, next |-> mb]
      /\ \A c \in Blocks \ {n} :
           /\ r[c].addr = node[c].addr
           /\ r[c].prev = IF c = mb THEN n ELSE node[c].prev
           /\ r[c].next = IF c = up THEN n ELSE node[c].next
  <2>1. n \in Blocks /\ (mb = Nil => node[n].prev = Nil)
    BY <1>2
  <2>2. QED
    BY <1>0, <1>1, <1>2, <1>4, <2>1, InsertAfterFields
<1>6. /\ up \in Linked \cup {Nil}
      /\ up # Nil => node[up].next = mb /\ addr < node[up].addr
      /\ mb # Nil => node[mb].prev = up /\ node[mb].addr < addr
      /\ up = Nil /\ mb = Nil => Linked = {}
      /\ head = mb <=> up = Nil
  <2>1. mb = Nil => Linked = {} /\ head = mb
    BY DEF ListInv, InOrder
  <2>2. QED
    BY <1>0, <1>3, <2>1
<1>7. r[n].addr = addr /\ r[n].prev = up /\ r[n].next = mb
  BY <1>5
<1>8. \A c \in Linked : /\ r[c].addr = node[c].addr
                        /\ r[c].next = IF c = up THEN n ELSE node[c].next
                        /\ r[c].prev = IF c = mb THEN n ELSE node[c].prev
  BY <1>2, <1>5 DEF Linked
<1>9. InOrder(IF up = Nil THEN n ELSE head, r, Linked \cup {n})
  <2>1. Inserted(r, node, Linked, n, up, mb)
    BY <1>2, <1>5, <1>6, <1>7, <1>8 DEF Inserted
  <2>2. QED
    BY <1>2, <2>1, InsertOrder
<1>10. QED
  BY <1>1, <1>6, <1>9

(* So does InsertBefore at the end of the list.                             *)
LEMMA InsertBeforeOrder ==
  ASSUME ListInv, NEW mb \in Linked, node[mb].next = Nil, NEW n \in pool,
         NEW addr \in Nat, NEW size \in Nat, addr < node[mb].addr
  PROVE  InOrder(head, InsertBefore(mb, n, addr, size), Linked \cup {n})
<1>1. PICK r : r = InsertBefore(mb, n, addr, size)
  OBVIOUS
<1>2. /\ InOrder(head, node, Linked) /\ node \in [Blocks -> Block]
      /\ n \in Blocks \ Linked /\ mb \in Blocks /\ mb # Nil /\ n # mb
      /\ n # Nil
  BY FreeListAssumption DEF ListInv, InOrder, PoolUnlinked, Linked
<1>3. /\ r \in [Blocks -> Block]
      /\ r[n] = [addr |-> addr, size |-> size, prev |-> mb, next |-> Nil]
      /\ \A c \in Blocks \ {n} :
           /\ r[c].addr = node[c].addr
           /\ r[c].next = IF c = mb THEN n ELSE node[c].next
           /\ r[c].prev = IF c = Nil THEN n ELSE node[c].prev
  BY <1>1, <1>2, InsertBeforeFields
<1>4. \A c \in Linked : /\ r[c].addr = node[c].addr
                        /\ r[c].next = IF c = mb THEN n ELSE node[c].next
                        /\ r[c].prev = IF c = Nil THEN n ELSE node[c].prev
  BY <1>2, <1>3 DEF Linked
<1>5. r[n].addr = addr /\ r[n].prev = mb /\ r[n].next = Nil
  BY <1>3
<1>6. InOrder(IF mb = Nil THEN n ELSE head, r, Linked \cup {n})
  <2>1. Inserted(r, node, Linked, n, mb, Nil)
    BY <1>2, <1>3, <1>4, <1>5 DEF Inserted
  <2>2. QED
    BY <1>2, <2>1, InsertOrder
<1>7. QED
  BY <1>1, <1>2, <1>6

-----------------------------------------------------------------------------
(* The list as a table                                                      *)

(* f is the table of the blocks of L.                                       *)
TableOf(f, nd, L) ==
  /\ f = [a \in DOMAIN f |-> f[a]] /\ DOMAIN f = {nd[b].addr : b \in L}
  /\ \A b \in L : f[nd[b].addr] = nd[b].size

(* Nothing else is.                                                         *)
LEMMA OneTable ==
  ASSUME NEW f, NEW g, NEW nd, NEW L, TableOf(f, nd, L), TableOf(g, nd, L)
  PROVE  f = g
<1>1. DOMAIN f = DOMAIN g /\ \A a \in DOMAIN f : f[a] = g[a]
  BY DEF TableOf
<1>2. f = [a \in DOMAIN f |-> f[a]] /\ g = [a \in DOMAIN g |-> g[a]]
  BY DEF TableOf
<1>3. QED
  BY <1>1, <1>2

(* FreeOf is the table of the list.                                         *)
LEMMA FreeOfIsTable == ListInv => TableOf(FreeOf, node, Linked)
<1>1. SUFFICES ASSUME ListInv PROVE TableOf(FreeOf, node, Linked)
  OBVIOUS
<1>2. Listed = Linked
  BY <1>1, ListIsOrder
<1>3. ASSUME NEW b \in Linked
      PROVE  (CHOOSE c \in Linked : node[c].addr = node[b].addr) = b
  <2>1. \A c \in Linked : node[c].addr = node[b].addr => c = b
    BY <1>1 DEF ListInv, InOrder
  <2>2. QED
    BY <2>1
<1>4. FreeOf = [a \in {node[b].addr : b \in Linked} |->
                  node[CHOOSE c \in Linked : node[c].addr = a].size]
  BY <1>2 DEF FreeOf
<1>5. /\ FreeOf = [a \in DOMAIN FreeOf |-> FreeOf[a]]
      /\ DOMAIN FreeOf = {node[b].addr : b \in Linked}
  BY <1>4
<1>6. ASSUME NEW b \in Linked PROVE FreeOf[node[b].addr] = node[b].size
  <2>1. node[b].addr \in {node[c].addr : c \in Linked}
    OBVIOUS
  <2>2. FreeOf[node[b].addr] = node[CHOOSE c \in Linked : node[c].addr = node[b].addr].size
    BY <1>4, <2>1, Zenon
  <2>3. QED
    BY <1>3, <2>2
<1>7. QED
  BY <1>5, <1>6 DEF TableOf

(* A block less is an entry less ...                                        *)
LEMMA TableDrop ==
  ASSUME NEW f, NEW nd, NEW L, TableOf(f, nd, L), NEW b \in L, NEW r,
         \A c \in L \ {b} : /\ r[c].addr = nd[c].addr /\ r[c].size = nd[c].size
                            /\ nd[c].addr # nd[b].addr
  PROVE  TableOf(Allocator!Drop(f, {nd[b].addr}), r, L \ {b})
<1> DEFINE g == Allocator!Drop(f, {nd[b].addr})
<1>1. /\ DOMAIN g = DOMAIN f \ {nd[b].addr} /\ g = [a \in DOMAIN g |-> g[a]]
      /\ \A a \in DOMAIN g : g[a] = f[a]
  BY DEF Allocator!Drop
<1>2. DOMAIN g = {r[c].addr : c \in L \ {b}}
  <2>1. DOMAIN f = {nd[c].addr : c \in L}
    BY DEF TableOf
  <2>2. {r[c].addr : c \in L \ {b}} = {nd[c].addr : c \in L \ {b}}
    OBVIOUS
  <2>3. {nd[c].addr : c \in L \ {b}} = {nd[c].addr : c \in L} \ {nd[b].addr}
    OBVIOUS
  <2>4. QED
    BY <1>1, <2>1, <2>2, <2>3
<1>3. \A c \in L \ {b} : g[r[c].addr] = r[c].size
  BY <1>1, <1>2 DEF TableOf
<1>4. QED
  BY <1>1, <1>2, <1>3 DEF TableOf

(* ... and a block more is an entry more.                                   *)
LEMMA TablePut ==
  ASSUME NEW f, NEW nd, NEW L, TableOf(f, nd, L), NEW n, n \notin L, NEW r,
         \A c \in L : /\ r[c].addr = nd[c].addr /\ r[c].size = nd[c].size
                      /\ nd[c].addr # r[n].addr
  PROVE  TableOf(Allocator!Put(f, r[n].addr, r[n].size), r, L \cup {n})
<1> DEFINE g == Allocator!Put(f, r[n].addr, r[n].size)
<1>1. /\ DOMAIN g = DOMAIN f \cup {r[n].addr} /\ g = [a \in DOMAIN g |-> g[a]]
      /\ g[r[n].addr] = r[n].size
      /\ \A a \in DOMAIN f : a # r[n].addr => g[a] = f[a]
  BY DEF Allocator!Put
<1>2. DOMAIN g = {r[c].addr : c \in L \cup {n}}
  BY <1>1 DEF TableOf
<1>3. \A c \in L \cup {n} : g[r[c].addr] = r[c].size
  BY <1>1, <1>2 DEF TableOf
<1>4. QED
  BY <1>1, <1>2, <1>3 DEF TableOf

(* An entry that changes is one less and one more.                          *)
LEMMA TableChange ==
  ASSUME NEW f, NEW nd, NEW L, TableOf(f, nd, L), NEW b \in L, NEW r,
         \A c \in L \ {b} : /\ r[c].addr = nd[c].addr /\ r[c].size = nd[c].size
                            /\ nd[c].addr # nd[b].addr /\ nd[c].addr # r[b].addr
  PROVE  TableOf(Allocator!Put(Allocator!Drop(f, {nd[b].addr}), r[b].addr, r[b].size), r, L)
<1>1. TableOf(Allocator!Drop(f, {nd[b].addr}), r, L \ {b})
  BY TableDrop
<1>2. PICK g : g = Allocator!Drop(f, {nd[b].addr})
  OBVIOUS
<1>3. (L \ {b}) \cup {b} = L /\ b \notin L \ {b}
  OBVIOUS
<1>4. TableOf(Allocator!Put(g, r[b].addr, r[b].size), r, (L \ {b}) \cup {b})
  <2>1. TableOf(g, r, L \ {b})
    BY <1>1, <1>2
  <2>2. \A c \in L \ {b} : r[c].addr # r[b].addr
    OBVIOUS
  <2>3. QED
    BY <1>3, <2>1, <2>2, TablePut
<1>5. QED
  BY <1>2, <1>3, <1>4

(* Two entries that become one, at the address of the lower.                *)
LEMMA TableMerge ==
  ASSUME NEW f, NEW nd, NEW L, TableOf(f, nd, L), NEW up \in L, NEW b \in L, up # b,
         \A c, d \in L : nd[c].addr = nd[d].addr => c = d,
         NEW r, r[up].addr = nd[b].addr,
         \A c \in L \ {up, b} : r[c].addr = nd[c].addr /\ r[c].size = nd[c].size
  PROVE  TableOf(Allocator!Put(Allocator!Drop(f, {nd[up].addr}), nd[b].addr, r[up].size),
                 r, L \ {b})
<1>1. PICK g : g = Allocator!Drop(f, {nd[up].addr}) /\ TableOf(g, nd, L \ {up})
  BY TableDrop
<1>2. PICK M : M = (L \ {up}) \ {b}
  OBVIOUS
<1>3. PICK e : e = Allocator!Drop(g, {nd[b].addr}) /\ TableOf(e, nd, M)
  BY <1>1, <1>2, TableDrop
<1>4. TableOf(Allocator!Put(e, r[up].addr, r[up].size), r, M \cup {up})
  <2>1. \A c \in M : /\ r[c].addr = nd[c].addr /\ r[c].size = nd[c].size
                    /\ nd[c].addr # r[up].addr
    BY <1>2
  <2>2. QED
    BY <1>2, <1>3, <2>1, TablePut
<1>5. M \cup {up} = L \ {b}
  BY <1>2
<1>6. Allocator!Put(g, nd[b].addr, r[up].size) = Allocator!Put(e, nd[b].addr, r[up].size)
  <2>1. \A h, a, n : Allocator!Put(h, a, n) = Allocator!Put(Allocator!Drop(h, {a}), a, n)
    BY FreeListAssumption, Allocator!PutOverwrites
  <2>2. QED
    BY <1>3, <2>1
<1>7. QED
  BY <1>1, <1>4, <1>5, <1>6

(* A block that is in use and the blocks of the list share no byte, and     *)
(* none is empty or reaches beyond what is mapped.                          *)
LEMMA Separate ==
  ASSUME ListInv, Allocator!IInv
  PROVE  /\ mapAddr \in Nat
         /\ \A b \in Linked : /\ node[b].addr \in Nat /\ node[b].size \in Nat \ {0}
                              /\ End(b) <= mapAddr
         /\ \A b, c \in Linked : node[b].addr < node[c].addr => End(b) <= node[c].addr
         /\ \A u \in DOMAIN used :
              /\ u \in Nat /\ used[u] \in Nat \ {0}
              /\ \A b \in Linked : End(b) <= u \/ u + used[u] <= node[b].addr
<1>1. TableOf(FreeOf, node, Linked)
  BY FreeOfIsTable
<1>2. /\ mapAddr \in Nat
      /\ Allocator!Table(used) /\ Allocator!Table(FreeOf)
      /\ Allocator!BytesOf(used) \cap Allocator!BytesOf(FreeOf) = {}
      /\ Allocator!BytesOf(FreeOf) \subseteq memory /\ Allocator!MappedBelow
  BY FreeListAssumption, Allocator!IInvTables
<1>3. ASSUME NEW b \in Linked
      PROVE  /\ node[b].addr \in Nat /\ node[b].size \in Nat \ {0}
             /\ node[b].addr \in DOMAIN FreeOf /\ FreeOf[node[b].addr] = node[b].size
  BY <1>1, <1>2 DEF TableOf, Allocator!Table
<1>4. ASSUME NEW b \in Linked, NEW c \in Linked, node[b].addr < node[c].addr
      PROVE  End(b) <= node[c].addr
  BY <1>2, <1>3, <1>4 DEF Allocator!Table, Allocator!Apart, End
<1>5. ASSUME NEW b \in Linked, NEW x \in Nat, node[b].addr <= x, x < End(b)
      PROVE  x \in Allocator!BytesOf(FreeOf)
  <2>1. x \in Allocator!Bytes(node[b].addr, FreeOf[node[b].addr])
    BY <1>3, <1>5 DEF Allocator!Bytes, End
  <2>2. QED
    BY <1>3, <2>1 DEF Allocator!BytesOf
<1>6. ASSUME NEW b \in Linked PROVE End(b) <= mapAddr
  <2>1. PICK x \in Nat : x = End(b) - 1 /\ node[b].addr <= x /\ x < End(b)
    BY <1>3 DEF End
  <2>2. x \in memory
    BY <1>2, <1>5, <2>1
  <2>3. x < mapAddr
    BY <1>2, <2>2 DEF Allocator!MappedBelow
  <2>4. QED
    BY <1>2, <1>3, <2>1, <2>3 DEF End
<1>7. ASSUME NEW u \in DOMAIN used
      PROVE  u \in Nat /\ used[u] \in Nat \ {0}
  BY <1>2 DEF Allocator!Table
<1>8. ASSUME NEW u \in DOMAIN used, NEW b \in Linked
      PROVE  End(b) <= u \/ u + used[u] <= node[b].addr
  <2>1. \A x \in Nat : u <= x /\ x < u + used[u] => x \in Allocator!BytesOf(used)
    BY <1>7 DEF Allocator!BytesOf, Allocator!Bytes
  <2>2. ASSUME u < End(b), node[b].addr < u + used[u] PROVE FALSE
    <3>1. CASE u <= node[b].addr
      BY <1>2, <1>3, <1>5, <1>7, <2>1, <2>2, <3>1 DEF End
    <3>2. CASE node[b].addr <= u
      BY <1>2, <1>3, <1>5, <1>7, <2>1, <2>2, <3>2 DEF End
    <3>3. QED
      BY <1>3, <1>7, <3>1, <3>2
  <2>3. QED
    BY <1>3, <1>7, <2>2 DEF End
<1>9. QED
  BY <1>2, <1>3, <1>4, <1>6, <1>7, <1>8

-----------------------------------------------------------------------------
(* Every operation keeps the list, and does what HeapAllocator says         *)

(* What FreeList uses of HeapAllocator is what HeapProofs is about.         *)
LEMMA SameOperators ==
  /\ \A a, n : Alloc!Bytes(a, n) = Allocator!Bytes(a, n)
  /\ \A f, a, v : Alloc!Put(f, a, v) = Allocator!Put(f, a, v)
  /\ \A f, S : Alloc!Drop(f, S) = Allocator!Drop(f, S)
  /\ \A size : /\ Alloc!Align(size) = Allocator!Align(size)
               /\ Alloc!Takes(size) <=> Allocator!Takes(size)
  /\ Alloc!Nothing = Allocator!Nothing
BY DEF Alloc!Bytes, Allocator!Bytes, Alloc!Put, Allocator!Put, Alloc!Drop, Allocator!Drop,
       Alloc!Align, Allocator!Align, Alloc!Takes, Allocator!Takes,
       Alloc!Nothing, Allocator!Nothing

(* A table of the list after a step is FreeOf after it.                     *)
LEMMA FreeBecomes ==
  ASSUME ListInv', NEW g, TableOf(g, node', Linked')
  PROVE  FreeOf' = g
<1>1. ListInv' => TableOf(FreeOf, node, Linked)'
  BY FreeOfIsTable, PTL
<1>2. TableOf(FreeOf', node', Linked')
  BY <1>1 DEF TableOf
<1>3. QED
  BY <1>2, OneTable

(* The entries of the table are the blocks of the list.                     *)
LEMMA FreeEntries ==
  ASSUME ListInv
  PROVE  /\ DOMAIN FreeOf = {node[b].addr : b \in Linked}
         /\ \A b \in Linked : /\ node[b].addr \in DOMAIN FreeOf
                              /\ FreeOf[node[b].addr] = node[b].size
         /\ \A b, c \in Linked : node[b].addr = node[c].addr => b = c
         /\ Listed = Linked
BY FreeOfIsTable, ListIsOrder DEF TableOf, ListInv, InOrder

(* A block leaves the list.                                                 *)
LEMMA RemoveKeeps ==
  ASSUME ListInv, NEW b \in Linked,
         head' = IF head = b THEN node[b].next ELSE head,
         node' = Remove(node, b), pool' = pool \cup {b}
  PROVE  /\ ListInv' /\ Linked' = Linked \ {b}
         /\ \A c \in Linked' : node'[c].addr = node[c].addr /\ node'[c].size = node[c].size
<1>1. Linked' = Linked \ {b} /\ b \in Blocks /\ pool' \subseteq Blocks
  BY DEF Linked, ListInv, PoolUnlinked
<1>2. InOrder(head, node, Linked) /\ node \in [Blocks -> Block]
  BY DEF ListInv, InOrder
<1>3. InOrder(head', node', Linked')
  BY <1>1, <1>2, RemoveOrder
<1>4. node[b].prev = node[b].next => node[b].prev = Nil
  <2>1. ASSUME NEW c \in Linked, node[b].prev = c, node[b].next = c PROVE FALSE
    <3>1. c # Nil /\ node[c].addr \in Nat /\ node[b].addr \in Nat
      BY AddrType
    <3>2. node[c].addr < node[b].addr /\ node[b].addr < node[c].addr
      BY <1>2, <2>1, <3>1, Neighbours
    <3>3. QED
      BY <3>1, <3>2
  <2>2. node[b].prev \in Linked \cup {Nil}
    BY AddrType
  <2>3. QED
    BY <2>1, <2>2
<1>5. /\ node'[b] = Unused
      /\ \A c \in Blocks \ {b} :
           /\ node'[c].addr = node[c].addr /\ node'[c].size = node[c].size
           /\ node'[c].next = IF c = node[b].prev THEN node[b].next ELSE node[c].next
           /\ node'[c].prev = IF c = node[b].next THEN node[b].prev ELSE node[c].prev
  BY <1>1, <1>2, <1>4, RemoveFields
<1>6. ASSUME NEW c \in pool' PROVE node'[c].prev = Nil /\ node'[c].next = Nil
  <2>1. CASE c = b
    BY <1>5, <2>1 DEF Unused
  <2>2. CASE c # b
    <3>1. c \in Blocks \ {b} /\ c \notin Linked /\ node[c].prev = Nil /\ node[c].next = Nil
      BY <2>2 DEF ListInv, PoolUnlinked, Linked
    <3>2. c # node[b].prev /\ c # node[b].next
      BY <3>1, AddrType, FreeListAssumption
    <3>3. QED
      BY <1>5, <3>1, <3>2
  <2>3. QED
    BY <2>1, <2>2
<1>7. QED
  BY <1>1, <1>3, <1>5, <1>6 DEF ListInv, PoolUnlinked, Linked

(* A block of the list gets another address in the same place, and another  *)
(* size.                                                                    *)
LEMMA ChangeKeeps ==
  ASSUME ListInv, NEW b \in Linked, NEW a \in Nat, NEW s \in Nat,
         head' = head, pool' = pool,
         node' = [node EXCEPT ![b] = [node[b] EXCEPT !.addr = a, !.size = s]],
         \A c \in Linked \ {b} : /\ node[c].addr # a
                                 /\ node[c].addr < a <=> node[c].addr < node[b].addr
  PROVE  ListInv' /\ FreeOf' = Allocator!Put(Allocator!Drop(FreeOf, {node[b].addr}), a, s)
<1>1. InOrder(head, node, Linked) /\ node \in [Blocks -> Block] /\ b \in Blocks
  BY DEF ListInv, InOrder, Linked
<1>2. PICK r : r = node'
  OBVIOUS
<1>3. /\ r \in [Blocks -> Block] /\ r[b].addr = a /\ r[b].size = s
      /\ r[b].prev = node[b].prev /\ r[b].next = node[b].next
      /\ \A c \in Blocks \ {b} : r[c] = node[c]
  <2>1. node[b] \in Block
    BY <1>1
  <2>2. r[b] = [node[b] EXCEPT !.addr = a, !.size = s]
    BY <1>1, <1>2
  <2>3. r[b] \in Block
    BY <2>1, <2>2 DEF Block
  <2>4. QED
    BY <1>1, <1>2, <2>1, <2>2, <2>3 DEF Block
<1>4. \A c \in Linked \ {b} : r[c] = node[c] /\ node[c].addr # node[b].addr
  BY <1>1, <1>3 DEF InOrder, Linked
<1>5. \A c, d \in Linked : r[c].addr < r[d].addr <=> node[c].addr < node[d].addr
  <2>1. \A c \in Linked : node[c].addr \in Nat
    BY AddrType
  <2>2. QED
    BY <1>3, <1>4, <2>1
<1>6. \A c \in Linked : r[c].prev = node[c].prev /\ r[c].next = node[c].next
  BY <1>3, <1>4
<1>7. InOrder(head, r, Linked)
  BY <1>1, <1>3, <1>5, <1>6, MoveOrder
<1>8. Linked' = Linked
  BY DEF Linked
<1>9. ListInv'
  <2>1. \A c \in pool : c \in Blocks \ {b}
    BY DEF ListInv, PoolUnlinked, Linked
  <2>2. QED
    BY <1>2, <1>3, <1>7, <1>8, <2>1 DEF ListInv, PoolUnlinked
<1>10. PICK f : f = FreeOf /\ TableOf(f, node, Linked)
  BY FreeOfIsTable
<1>11. TableOf(Allocator!Put(Allocator!Drop(f, {node[b].addr}), r[b].addr, r[b].size), r, Linked)
  BY <1>3, <1>4, <1>10, TableChange
<1>12. QED
  BY <1>2, <1>3, <1>8, <1>9, <1>10, <1>11, FreeBecomes

(* memAlloc from the list: the block leaves it, or its first bytes do.      *)
LEMMA AllocFreeKeeps ==
  ASSUME ListInv, Allocator!IInv, NEW size \in Nat \ {0}, AllocFree(size)
  PROVE  ListInv' /\ Allocator!AllocFree(size)
<1>1. PICK b \in Blocks :
        /\ Finds(Fitting(size), b)
        /\ used' = Alloc!Put(used, node[b].addr, size)
        /\ AllocWhole(size, b) \/ AllocPart(size, b)
        /\ UNCHANGED <<mapAddr, memory, lost>>
  BY DEF AllocFree
<1>2. /\ Fitting(size) = {c \in Linked : node[c].size >= size}
      /\ b \in Linked /\ node[b].size >= size
      /\ \A c \in Linked : node[c].size >= size => node[c].addr <= node[b].addr
  BY <1>1, ListIsOrder DEF Fitting
<1>3. /\ \A c \in Linked : node[c].addr \in Nat /\ node[c].size \in Nat \ {0}
      /\ \A c, d \in Linked : node[c].addr < node[d].addr =>
                                node[c].addr + node[c].size <= node[d].addr
  BY Separate DEF End
<1>4. TableOf(FreeOf, node, Linked) /\ InOrder(head, node, Linked)
  BY FreeOfIsTable DEF ListInv
<1>5. PICK a \in Nat : a = node[b].addr /\ a \in DOMAIN FreeOf /\ FreeOf[a] = node[b].size
  BY <1>2, <1>3, FreeEntries
<1>6. ASSUME ListInv', FreeOf' = Allocator!Rest(a, size)
      PROVE  Allocator!AllocFree(size)
  <2>1. FreeOf[a] >= size
    BY <1>2, <1>5
  <2>2. \A x \in DOMAIN FreeOf : x > a => FreeOf[x] < size
    BY <1>2, <1>3, <1>5, FreeEntries
  <2>3. used' = Allocator!Put(used, a, size)
    BY <1>1, <1>5, SameOperators
  <2>4. QED
    BY <1>1, <1>5, <1>6, <2>1, <2>2, <2>3 DEF Allocator!AllocFree
<1>7. CASE AllocWhole(size, b)
  <2>1. /\ node[b].size = size /\ pool' = pool \cup {b} /\ node' = Remove(node, b)
        /\ head' = IF head = b THEN node[b].next ELSE head
    BY <1>7 DEF AllocWhole
  <2>2. /\ ListInv' /\ Linked' = Linked \ {b}
        /\ \A c \in Linked' : node'[c].addr = node[c].addr /\ node'[c].size = node[c].size
    BY <1>2, <2>1, RemoveKeeps
  <2>3. \A c \in Linked \ {b} : node[c].addr # node[b].addr
    BY <1>2, FreeEntries
  <2>4. TableOf(Allocator!Drop(FreeOf, {node[b].addr}), node', Linked \ {b})
    BY <1>2, <1>4, <2>2, <2>3, TableDrop
  <2>5. FreeOf' = Allocator!Drop(FreeOf, {a})
    BY <1>5, <2>2, <2>4, FreeBecomes
  <2>6. QED
    BY <1>5, <1>6, <2>1, <2>2, <2>5 DEF Allocator!Rest
<1>8. CASE AllocPart(size, b)
  <2>1. /\ node[b].size > size /\ head' = head /\ pool' = pool
        /\ node' = [node EXCEPT ![b].addr = @ + size, ![b].size = @ - size]
    BY <1>8 DEF AllocPart
  <2>2. PICK rest \in Nat : rest = node[b].size - size
    BY <1>2, <1>3, <2>1
  <2>3. node' = [node EXCEPT ![b] = [node[b] EXCEPT !.addr = a + size, !.size = rest]]
    BY <1>2, <1>4, <1>5, <2>1, <2>2 DEF InOrder, Block
  <2>4. \A c \in Linked \ {b} : /\ node[c].addr # a + size
                                /\ node[c].addr < a + size <=> node[c].addr < node[b].addr
    <3>1. \A c \in Linked \ {b} : node[c].addr # node[b].addr
      BY <1>2, FreeEntries
    <3>2. QED
      BY <1>2, <1>3, <1>5, <2>1, <3>1
  <2>5. ListInv' /\ FreeOf' = Allocator!Put(Allocator!Drop(FreeOf, {a}), a + size, rest)
    <3>1. PICK to \in Nat : to = a + size
      OBVIOUS
    <3>2. ListInv' /\ FreeOf' = Allocator!Put(Allocator!Drop(FreeOf, {node[b].addr}), to, rest)
      BY <1>2, <2>1, <2>3, <2>4, <3>1, ChangeKeeps
    <3>3. QED
      BY <1>5, <3>1, <3>2
  <2>6. QED
    BY <1>3, <1>5, <1>6, <2>1, <2>2, <2>5 DEF Allocator!Rest
<1>9. QED
  BY <1>1, <1>7, <1>8

(* A block enters the list above mb, or an empty list.                      *)
LEMMA InsertAfterKeeps ==
  ASSUME ListInv, NEW mb \in Linked \cup {Nil}, NEW n \in pool,
         NEW addr \in Nat, NEW size \in Nat,
         mb = Nil => head = Nil,
         mb # Nil => /\ node[mb].addr < addr
                     /\ node[mb].prev # Nil => addr < node[node[mb].prev].addr,
         head' = IF head = mb THEN n ELSE head,
         node' = InsertAfter(mb, n, addr, size), pool' = pool \ {n}
  PROVE  ListInv' /\ FreeOf' = Allocator!Put(FreeOf, addr, size)
<1>0. PICK up : up = IF mb = Nil THEN Nil ELSE node[mb].prev
  OBVIOUS
<1>1. /\ Linked' = Linked \cup {n} /\ n \in Blocks /\ n \notin Linked /\ pool' \subseteq Blocks
      /\ node[n].prev = Nil
  BY DEF Linked, ListInv, PoolUnlinked
<1>2. InOrder(head', node', Linked')
  BY <1>1, InsertAfterOrder
<1>3. up \in Linked \cup {Nil} /\ mb # n /\ (mb # Nil => node[mb].prev \notin {n, mb})
  <2>1. mb # n
    BY <1>1, FreeListAssumption
  <2>2. CASE mb = Nil
    BY <1>0, <2>1, <2>2
  <2>3. CASE mb # Nil
    <3>1. node[mb].prev \in Linked \cup {Nil} /\ node[mb].addr \in Nat
      BY <2>3, AddrType
    <3>2. node[mb].prev # Nil => node[mb].addr < node[node[mb].prev].addr
      BY <2>3, Neighbours DEF ListInv
    <3>3. node[mb].prev # mb
      BY <2>3, <3>1, <3>2
    <3>4. node[mb].prev # n
      BY <1>1, <3>1, FreeListAssumption
    <3>5. QED
      BY <1>0, <2>1, <2>3, <3>1, <3>3, <3>4
  <2>4. QED
    BY <2>2, <2>3
<1>4. /\ node'[n] = [addr |-> addr, size |-> size, prev |-> up, next |-> mb]
      /\ \A c \in Blocks \ {n} :
           /\ node'[c].addr = node[c].addr /\ node'[c].size = node[c].size
           /\ node'[c].prev = IF c = mb THEN n ELSE node[c].prev
           /\ node'[c].next = IF c = up THEN n ELSE node[c].next
  <2>1. node \in [Blocks -> Block] /\ mb \in Blocks \cup {Nil}
    BY DEF ListInv, InOrder, Linked
  <2>2. QED
    BY <1>0, <1>1, <1>3, <2>1, InsertAfterFields
<1>5. ListInv'
  <2>1. ASSUME NEW c \in pool' PROVE node'[c].prev = Nil /\ node'[c].next = Nil
    <3>1. c \in Blocks \ {n} /\ c \notin Linked /\ node[c].prev = Nil /\ node[c].next = Nil
      BY DEF ListInv, PoolUnlinked, Linked
    <3>2. c # mb /\ c # up
      BY <1>3, <3>1, FreeListAssumption
    <3>3. QED
      BY <1>4, <3>1, <3>2
  <2>2. QED
    BY <1>1, <1>2, <2>1 DEF ListInv, PoolUnlinked
<1>6. /\ node'[n].addr = addr /\ node'[n].size = size
      /\ \A c \in Linked : /\ node'[c].addr = node[c].addr /\ node'[c].size = node[c].size
                           /\ node[c].addr # node'[n].addr
  <2>1. node'[n].addr = addr /\ node'[n].size = size
    BY <1>4
  <2>2. \A c \in Linked : node'[c].addr = node[c].addr /\ node'[c].size = node[c].size
    BY <1>1, <1>4 DEF Linked
  <2>3. \A c \in Linked : node'[c].addr = node'[n].addr => c = n
    BY <1>1, <1>2 DEF InOrder
  <2>4. QED
    BY <1>1, <2>1, <2>2, <2>3
<1>7. TableOf(Allocator!Put(FreeOf, node'[n].addr, node'[n].size), node', Linked \cup {n})
  <2>1. PICK f : f = FreeOf /\ TableOf(f, node, Linked)
    BY FreeOfIsTable
  <2>2. PICK r : r = node'
    OBVIOUS
  <2>3. \A c \in Linked : /\ r[c].addr = node[c].addr /\ r[c].size = node[c].size
                          /\ node[c].addr # r[n].addr
    BY <1>6, <2>2
  <2>4. TableOf(Allocator!Put(f, r[n].addr, r[n].size), r, Linked \cup {n})
    BY <1>1, <2>1, <2>3, TablePut
  <2>5. QED
    BY <2>1, <2>2, <2>4
<1>8. QED
  BY <1>1, <1>5, <1>6, <1>7, FreeBecomes

(* What leaves the list alone leaves its table alone.                       *)
LEMMA ListUnchanged ==
  ASSUME ListInv, UNCHANGED list
  PROVE  ListInv' /\ FreeOf' = FreeOf
<1>1. ListInv' /\ Linked' = Linked /\ node' = node
  BY DEF list, ListInv, PoolUnlinked, Linked
<1>2. QED
  BY <1>1, FreeOfIsTable, FreeBecomes

(* memAlloc from a new mapping: what is left of it is the new head.         *)
LEMMA AllocMappedKeeps ==
  ASSUME ListInv, Allocator!IInv, NEW size \in Nat \ {0}, AllocMapped(size)
  PROVE  ListInv' /\ Allocator!AllocMapped(size)
<1>1. PICK n \in Nat : n = Alloc!Align(size) /\ n >= size
  BY FreeListAssumption, Allocator!AlignGrows, SameOperators
<1>2. /\ Fitting(size) = {} /\ Allocator!Takes(size)
      /\ memory' = memory \cup Allocator!Bytes(mapAddr, n)
      /\ used' = Allocator!Put(used, mapAddr, size) /\ lost' = lost
      /\ \/ n = size /\ UNCHANGED list
         \/ /\ n > size
            /\ \E b \in pool :
                 /\ head' = b
                 /\ node' = InsertAfter(head, b, mapAddr + size, n - size)
                 /\ pool' = pool \ {b}
  BY <1>1, SameOperators DEF AllocMapped
<1>3. Allocator!NoneFits(size)
  <2>1. \A b \in Linked : node[b].size \in Nat /\ ~ node[b].size >= size
    BY <1>2, ListIsOrder, AddrType DEF Fitting
  <2>2. \A x \in DOMAIN FreeOf : FreeOf[x] < size
    BY <2>1, FreeEntries
  <2>3. QED
    BY <2>2 DEF Allocator!NoneFits
<1>4. ASSUME ListInv',
             FreeOf' = IF n > size THEN Allocator!Put(FreeOf, mapAddr + size, n - size)
                       ELSE FreeOf
      PROVE  Allocator!AllocMapped(size)
  BY <1>1, <1>2, <1>3, <1>4, SameOperators DEF Allocator!AllocMapped
<1>5. CASE n = size /\ UNCHANGED list
  <2>1. ListInv' /\ FreeOf' = FreeOf
    BY <1>5, ListUnchanged
  <2>2. QED
    BY <1>4, <1>5, <2>1
<1>6. CASE n > size /\ ~ (n = size /\ UNCHANGED list)
  <2>1. PICK b \in pool : /\ head' = b
                          /\ node' = InsertAfter(head, b, mapAddr + size, n - size)
                          /\ pool' = pool \ {b}
    BY <1>2, <1>6
  <2>2. mapAddr + size \in Nat /\ n - size \in Nat /\ head \in Linked \cup {Nil}
    BY <1>1, <1>6, Separate DEF ListInv, InOrder
  <2>3. head # Nil => /\ node[head].addr < mapAddr + size
                      /\ node[head].prev = Nil
    <3>1. SUFFICES ASSUME head # Nil
                   PROVE  node[head].addr < mapAddr + size /\ node[head].prev = Nil
      OBVIOUS
    <3>2. head \in Linked
      BY <2>2, <3>1
    <3>3. node[head].prev = Nil
      BY <3>2, Neighbours DEF ListInv
    <3>4. QED
      BY <3>2, <3>3, Separate DEF End
  <2>4. head' = IF head = head THEN b ELSE head
    BY <2>1
  <2>5. ListInv' /\ FreeOf' = Allocator!Put(FreeOf, mapAddr + size, n - size)
    BY <2>1, <2>2, <2>3, <2>4, InsertAfterKeeps
  <2>6. QED
    BY <1>4, <1>6, <2>5
<1>7. QED
  BY <1>2, <1>5, <1>6

(* mapAlloc for others.                                                     *)
LEMMA MapAllocKeeps ==
  ASSUME ListInv, NEW size, MapAlloc(size)
  PROVE  ListInv' /\ Allocator!MapAlloc(size)
<1>1. /\ Allocator!Takes(size) /\ UNCHANGED list
      /\ memory' = memory /\ used' = used /\ lost' = lost
  BY SameOperators DEF MapAlloc
<1>2. ListInv' /\ FreeOf' = FreeOf
  BY <1>1, ListUnchanged
<1>3. QED
  BY <1>1, <1>2 DEF Allocator!MapAlloc

(* memFree that panics, which is memFree with an empty list.                *)
LEMMA FreePanicsKeeps ==
  ASSUME ListInv, NEW addr \in DOMAIN used, FreePanics(addr)
  PROVE  ListInv' /\ Allocator!FreePanics(addr)
<1>1. /\ head = Nil /\ UNCHANGED list /\ mapAddr' = mapAddr /\ memory' = memory
      /\ used' = Allocator!Drop(used, {addr})
      /\ lost' = lost \cup Allocator!Bytes(addr, used[addr])
  BY SameOperators DEF FreePanics
<1>2. ListInv' /\ FreeOf' = FreeOf
  BY <1>1, ListUnchanged
<1>3. FreeOf = Allocator!Nothing
  <2>1. DOMAIN FreeOf = {}
    BY <1>1, FreeEntries DEF ListInv, InOrder
  <2>2. FreeOf = [a \in DOMAIN FreeOf |-> FreeOf[a]]
    BY FreeOfIsTable DEF TableOf
  <2>3. QED
    BY <2>1, <2>2 DEF Allocator!Nothing
<1>4. QED
  BY <1>1, <1>2, <1>3 DEF Allocator!FreePanics

(* A block enters the list below its last.                                  *)
LEMMA InsertBeforeKeeps ==
  ASSUME ListInv, NEW mb \in Linked, node[mb].next = Nil, NEW n \in pool,
         NEW addr \in Nat, NEW size \in Nat, addr < node[mb].addr,
         head' = head, node' = InsertBefore(mb, n, addr, size), pool' = pool \ {n}
  PROVE  ListInv' /\ FreeOf' = Allocator!Put(FreeOf, addr, size)
<1>1. /\ Linked' = Linked \cup {n} /\ n \in Blocks /\ n \notin Linked /\ pool' \subseteq Blocks
      /\ mb # n /\ n # Nil /\ mb \in Blocks
  BY FreeListAssumption DEF Linked, ListInv, PoolUnlinked
<1>2. InOrder(head', node', Linked')
  BY <1>1, InsertBeforeOrder
<1>3. PICK r : r = node'
  OBVIOUS
<1>4. /\ r[n] = [addr |-> addr, size |-> size, prev |-> mb, next |-> Nil]
      /\ \A c \in Blocks \ {n} :
           /\ r[c].addr = node[c].addr /\ r[c].size = node[c].size
           /\ r[c].next = IF c = mb THEN n ELSE node[c].next
           /\ r[c].prev = IF c = Nil THEN n ELSE node[c].prev
  <2>1. node \in [Blocks -> Block] /\ node[mb].next \notin {n, mb}
    BY <1>1, FreeListAssumption DEF ListInv, InOrder
  <2>2. QED
    BY <1>1, <1>3, <2>1, InsertBeforeFields
<1>5. ListInv'
  <2>1. ASSUME NEW c \in pool' PROVE node'[c].prev = Nil /\ node'[c].next = Nil
    <3>1. c \in Blocks \ {n} /\ c \notin Linked /\ node[c].prev = Nil /\ node[c].next = Nil
      BY DEF ListInv, PoolUnlinked, Linked
    <3>2. c # mb /\ c # Nil
      BY <3>1, FreeListAssumption
    <3>3. QED
      BY <1>3, <1>4, <3>1, <3>2
  <2>2. QED
    BY <1>1, <1>2, <2>1 DEF ListInv, PoolUnlinked
<1>6. /\ r[n].addr = addr /\ r[n].size = size
      /\ \A c \in Linked : /\ r[c].addr = node[c].addr /\ r[c].size = node[c].size
                           /\ node[c].addr # r[n].addr
  <2>1. r[n].addr = addr /\ r[n].size = size
    BY <1>4
  <2>2. \A c \in Linked : r[c].addr = node[c].addr /\ r[c].size = node[c].size
    BY <1>1, <1>4 DEF Linked
  <2>3. \A c \in Linked : r[c].addr = r[n].addr => c = n
    BY <1>1, <1>2, <1>3 DEF InOrder
  <2>4. QED
    BY <1>1, <2>1, <2>2, <2>3
<1>7. PICK f : f = FreeOf /\ TableOf(f, node, Linked)
  BY FreeOfIsTable
<1>8. TableOf(Allocator!Put(f, r[n].addr, r[n].size), r, Linked \cup {n})
  BY <1>1, <1>6, <1>7, TablePut
<1>9. QED
  BY <1>1, <1>3, <1>5, <1>6, <1>7, <1>8, FreeBecomes

-----------------------------------------------------------------------------
(* memFree                                                                  *)

(* The search of memFree stops at the highest block below the freed one,    *)
(* and every other block is above it.                                       *)
LEMMA StopsBelow ==
  ASSUME ListInv, Allocator!IInv, NEW addr \in DOMAIN used, NEW end,
         end = addr + used[addr]
  PROVE  /\ addr \in Nat /\ end \in Nat /\ addr < end /\ used[addr] = end - addr
         /\ \A b \in Linked : /\ node[b].addr \in Nat /\ node[b].size \in Nat \ {0}
                              /\ node[b].addr < addr \/ end <= node[b].addr
         /\ Stops(addr, end) = {b \in Linked : node[b].addr < addr}
<1>1. /\ addr \in Nat /\ used[addr] \in Nat \ {0}
      /\ \A b \in Linked : /\ node[b].addr \in Nat /\ node[b].size \in Nat \ {0}
                           /\ node[b].addr + node[b].size <= addr \/ end <= node[b].addr
  BY Separate DEF End
<1>2. addr \in Nat /\ end \in Nat /\ addr < end /\ used[addr] = end - addr
  BY <1>1
<1>3. \A b \in Linked : /\ node[b].addr < addr \/ end <= node[b].addr
                        /\ node[b].addr + node[b].size = addr => node[b].addr < addr
                        /\ node[b].addr < end <=> node[b].addr < addr
  BY <1>1, <1>2
<1>4. Stops(addr, end) = {b \in Linked : node[b].addr < addr}
  <2>1. Stops(addr, end) = {b \in Linked : \/ node[b].addr + node[b].size = addr
                                           \/ node[b].addr < end}
    BY ListIsOrder DEF Stops, End
  <2>2. QED
    BY <1>3, <2>1
<1>5. QED
  BY <1>1, <1>2, <1>3, <1>4

(* The block the search stops at, and the one above it in the list.         *)
LEMMA StopsAt ==
  ASSUME ListInv, Allocator!IInv, NEW addr \in DOMAIN used, NEW end,
         end = addr + used[addr], NEW b \in Blocks, Finds(Stops(addr, end), b)
  PROVE  /\ b \in Linked /\ node[b].addr < addr
         /\ Allocator!Highest(Allocator!Below(addr), node[b].addr)
         /\ \A c \in Linked \ {b} : node[c].addr < node[b].addr \/ end <= node[c].addr
         /\ node[b].prev = Nil => \A c \in Linked \ {b} : node[c].addr < node[b].addr
         /\ node[b].prev # Nil =>
              /\ node[b].prev \in Linked \ {b} /\ end <= node[node[b].prev].addr
              /\ \A c \in Linked \ {b} : \/ node[c].addr < node[b].addr
                                         \/ node[node[b].prev].addr <= node[c].addr
<1>1. /\ addr \in Nat /\ end \in Nat /\ addr < end
      /\ \A c \in Linked : /\ node[c].addr \in Nat
                           /\ node[c].addr < addr \/ end <= node[c].addr
      /\ Stops(addr, end) = {c \in Linked : node[c].addr < addr}
  BY StopsBelow
<1>2. /\ b \in Linked /\ node[b].addr < addr
      /\ \A c \in Linked : node[c].addr < addr => node[c].addr <= node[b].addr
  BY <1>1, ListIsOrder
<1>3. Allocator!Highest(Allocator!Below(addr), node[b].addr)
  BY <1>1, <1>2, FreeEntries DEF Allocator!Highest, Allocator!Below
<1>4. \A c \in Linked \ {b} : node[c].addr < node[b].addr \/ end <= node[c].addr
  <2>1. \A c \in Linked \ {b} : node[c].addr # node[b].addr
    BY <1>2, FreeEntries
  <2>2. QED
    BY <1>1, <1>2, <2>1
<1>5. ASSUME node[b].prev = Nil, NEW c \in Linked \ {b} PROVE node[c].addr < node[b].addr
  <2>1. head = b /\ node[c].addr <= node[b].addr
    BY <1>2, <1>5 DEF ListInv, InOrder
  <2>2. node[c].addr # node[b].addr
    BY <1>2, FreeEntries
  <2>3. QED
    BY <1>1, <1>2, <2>1, <2>2
<1>6. ASSUME node[b].prev # Nil
      PROVE  /\ node[b].prev \in Linked \ {b} /\ end <= node[node[b].prev].addr
             /\ \A c \in Linked \ {b} : \/ node[c].addr < node[b].addr
                                        \/ node[node[b].prev].addr <= node[c].addr
  <2>1. PICK up \in Linked : /\ up = node[b].prev /\ node[up].next = b
                             /\ node[b].addr < node[up].addr
    BY <1>2, <1>6, Neighbours, AddrType DEF ListInv
  <2>2. up # b /\ end <= node[up].addr
    BY <1>1, <1>2, <1>4, <2>1
  <2>3. b # Nil
    BY <1>2, AddrType
  <2>4. \A c \in Linked : node[c].addr < node[up].addr => node[c].addr <= node[b].addr
    BY <2>1, <2>3 DEF ListInv, InOrder
  <2>5. \A c \in Linked \ {b} : node[c].addr < node[b].addr \/ node[up].addr <= node[c].addr
    BY <1>1, <1>2, <1>4, <2>1, <2>4
  <2>6. QED
    BY <2>1, <2>2, <2>5
<1>7. QED
  BY <1>2, <1>3, <1>4, <1>5, <1>6

(* The entry of the block above is gone after a merge with it.              *)
LEMMA MergeKeeps ==
  ASSUME ListInv, NEW b \in Linked, NEW up \in Linked, up = node[b].prev,
         NEW size \in Nat,
         \A c \in Linked \ {b} : \/ node[c].addr < node[b].addr
                                 \/ node[up].addr <= node[c].addr,
         head' = head, pool' = pool \cup {b},
         node' = Remove([node EXCEPT ![up].addr = node[b].addr, ![up].size = size], b)
  PROVE  /\ ListInv'
         /\ FreeOf' = Allocator!Put(Allocator!Drop(FreeOf, {node[up].addr}),
                                    node[b].addr, size)
<1>1. /\ InOrder(head, node, Linked) /\ node \in [Blocks -> Block]
      /\ b \in Blocks /\ up \in Blocks /\ up # Nil /\ node[up].next = b
      /\ node[b].addr < node[up].addr
  BY AddrType, Neighbours DEF ListInv, InOrder
<1>2. /\ up # b /\ head # b /\ Linked' = Linked \ {b}
      /\ \A c \in Linked : node[c].addr \in Nat
      /\ \A c, d \in Linked : node[c].addr = node[d].addr => c = d
  <2>1. \A c \in Linked : node[c].addr \in Nat
    BY AddrType
  <2>2. up # b /\ Linked' = Linked \ {b}
    BY <1>1, <2>1 DEF Linked
  <2>3. head # b
    BY <1>1, Neighbours
  <2>4. QED
    BY <1>1, <2>1, <2>2, <2>3 DEF InOrder
<1>3. PICK mid : mid = [node EXCEPT ![up].addr = node[b].addr, ![up].size = size]
  OBVIOUS
<1>4. /\ mid \in [Blocks -> Block]
      /\ mid[up].addr = node[b].addr /\ mid[up].size = size
      /\ mid[up].prev = node[up].prev /\ mid[up].next = node[up].next
      /\ \A c \in Blocks \ {up} : mid[c] = node[c]
  <2>1. node[up] \in Block /\ node[b].addr \in Nat
    BY <1>1, <1>2
  <2>2. mid[up] = [node[up] EXCEPT !.addr = node[b].addr, !.size = size]
    BY <1>1, <1>3
  <2>3. mid[up] \in Block
    BY <2>1, <2>2 DEF Block
  <2>4. QED
    BY <1>1, <1>3, <2>1, <2>2, <2>3 DEF Block
<1>5. PICK without : without = Remove(node, b)
  OBVIOUS
<1>6. PICK r : r = node' /\ r = Remove(mid, b)
  BY <1>3
<1>7. node[b].prev = node[b].next => node[b].prev = Nil
  <2>1. ASSUME node[b].next = up PROVE FALSE
    <3>1. node[up].addr < node[b].addr
      BY <1>1, <2>1, Neighbours
    <3>2. QED
      BY <1>1, <1>2, <3>1
  <2>2. QED
    BY <2>1
<1>8. /\ without \in [Blocks -> Block]
      /\ \A c \in Blocks \ {b} :
           /\ without[c].addr = node[c].addr
           /\ without[c].next = IF c = node[b].prev THEN node[b].next ELSE node[c].next
           /\ without[c].prev = IF c = node[b].next THEN node[b].prev ELSE node[c].prev
  BY <1>1, <1>5, <1>7, RemoveFields
<1>9. /\ r \in [Blocks -> Block] /\ r[b] = Unused
      /\ \A c \in Blocks \ {b} :
           /\ r[c].addr = mid[c].addr /\ r[c].size = mid[c].size
           /\ r[c].next = IF c = mid[b].prev THEN mid[b].next ELSE mid[c].next
           /\ r[c].prev = IF c = mid[b].next THEN mid[b].prev ELSE mid[c].prev
  <2>1. mid[b].prev = mid[b].next => mid[b].prev = Nil
    BY <1>1, <1>2, <1>4, <1>7
  <2>2. QED
    <3>1. r = Remove(mid, b) /\ mid \in [Blocks -> Block] /\ b \in Blocks
      BY <1>1, <1>4, <1>6
    <3>2. QED
      BY <2>1, <3>1, RemoveFields
<1>10. mid[b] = node[b] /\ \A c \in Blocks : mid[c].next = node[c].next /\ mid[c].prev = node[c].prev
  BY <1>1, <1>2, <1>4
<1>11. \A c \in Blocks \ {b} : r[c].next = without[c].next /\ r[c].prev = without[c].prev
  BY <1>8, <1>9, <1>10
<1>12. \A c \in Linked \ {b} : /\ without[c].addr = node[c].addr
                               /\ r[c].addr = IF c = up THEN node[b].addr ELSE node[c].addr
  BY <1>4, <1>8, <1>9 DEF Linked
<1>13. \A c, d \in Linked \ {b} : r[c].addr < r[d].addr <=> without[c].addr < without[d].addr
  <2>1. \A c \in Linked \ {b, up} : \/ node[c].addr < node[b].addr
                                    \/ node[up].addr < node[c].addr
    BY <1>2
  <2>2. QED
    BY <1>1, <1>2, <1>12, <2>1
<1>14. InOrder(head, without, Linked \ {b})
  <2>1. InOrder(IF head = b THEN node[b].next ELSE head, Remove(node, b), Linked \ {b})
    BY <1>1, RemoveOrder
  <2>2. QED
    BY <1>2, <1>5, <2>1
<1>15. InOrder(head, r, Linked \ {b})
  <2>1. \A c \in Linked \ {b} : r[c].prev = without[c].prev /\ r[c].next = without[c].next
    BY <1>11 DEF Linked
  <2>2. QED
    BY <1>9, <1>13, <1>14, <2>1, MoveOrder
<1>16. ListInv'
  <2>1. ASSUME NEW c \in pool' PROVE r[c].prev = Nil /\ r[c].next = Nil
    <3>1. CASE c = b
      BY <1>9, <3>1 DEF Unused
    <3>2. CASE c # b
      <4>1. c \in Blocks \ {b} /\ c \notin Linked /\ node[c].prev = Nil /\ node[c].next = Nil
        BY <3>2 DEF ListInv, PoolUnlinked, Linked
      <4>2. c # node[b].prev /\ c # node[b].next
        BY <4>1, AddrType, FreeListAssumption
      <4>3. QED
        BY <1>9, <1>10, <4>1, <4>2
    <3>3. QED
      BY <3>1, <3>2
  <2>2. pool' \subseteq Blocks
    BY <1>1 DEF ListInv, PoolUnlinked
  <2>3. QED
    BY <1>2, <1>6, <1>15, <2>1, <2>2 DEF ListInv, PoolUnlinked
<1>17. PICK f : f = FreeOf /\ TableOf(f, node, Linked)
  BY FreeOfIsTable
<1>18. /\ \A c \in Linked \ {up, b} : r[c].addr = node[c].addr /\ r[c].size = node[c].size
       /\ r[up].addr = node[b].addr /\ r[up].size = size
  BY <1>1, <1>2, <1>4, <1>9, <1>12 DEF Linked
<1>19. TableOf(Allocator!Put(Allocator!Drop(f, {node[up].addr}), node[b].addr, r[up].size),
               r, Linked \ {b})
  BY <1>2, <1>17, <1>18, TableMerge
<1>20. QED
  BY <1>2, <1>6, <1>16, <1>17, <1>18, <1>19, FreeBecomes

(* A freed block that begins where a free one ends.                         *)
LEMMA FreeJoinsKeeps ==
  ASSUME ListInv, Allocator!IInv, NEW addr \in DOMAIN used, NEW end,
         end = addr + used[addr], FreeJoins(addr, end)
  PROVE  ListInv' /\ Allocator!FreeJoins(addr)
<1>1. PICK b \in Blocks :
        /\ Finds(Stops(addr, end), b)
        /\ End(b) = addr
        /\ LET up == node[b].prev IN
           \/ /\ up = Nil \/ (up # Nil /\ node[up].addr # end)
              /\ node' = [node EXCEPT ![b].size = @ + (end - addr)]
              /\ UNCHANGED pool
           \/ /\ up # Nil /\ node[up].addr = end
              /\ node' = Remove([node EXCEPT
                                   ![up].addr = node[b].addr,
                                   ![up].size = @ + node[b].size + (end - addr)], b)
              /\ pool' = pool \cup {b}
        /\ head' = head
  BY DEF FreeJoins
<1>2. /\ addr \in Nat /\ end \in Nat /\ addr < end /\ used[addr] = end - addr
      /\ \A c \in Linked : node[c].addr \in Nat /\ node[c].size \in Nat \ {0}
  BY StopsBelow
<1>3. /\ b \in Linked /\ node[b].addr < addr
      /\ Allocator!Highest(Allocator!Below(addr), node[b].addr)
      /\ \A c \in Linked \ {b} : node[c].addr < node[b].addr \/ end <= node[c].addr
      /\ node[b].prev = Nil => \A c \in Linked \ {b} : node[c].addr < node[b].addr
      /\ node[b].prev # Nil =>
           /\ node[b].prev \in Linked \ {b} /\ end <= node[node[b].prev].addr
           /\ \A c \in Linked \ {b} : \/ node[c].addr < node[b].addr
                                      \/ node[node[b].prev].addr <= node[c].addr
  BY <1>1, StopsAt
<1>4. PICK low \in Nat, old \in Nat, more \in Nat :
        /\ low = node[b].addr /\ old = node[b].size /\ more = end - addr
        /\ low \in DOMAIN FreeOf /\ FreeOf[low] = old /\ low + old = addr
  BY <1>1, <1>2, <1>3, FreeEntries DEF End
<1>5. ASSUME ListInv', FreeOf' = Allocator!Join(low, addr)
      PROVE  Allocator!FreeJoins(addr)
  BY <1>3, <1>4, <1>5 DEF Allocator!FreeJoins
<1>6. PICK up : up = node[b].prev
  OBVIOUS
<1>7. CASE up = Nil \/ node[up].addr # end
  <2>1. /\ node' = [node EXCEPT ![b].size = @ + (end - addr)] /\ pool' = pool
    BY <1>1, <1>6, <1>7
  <2>2. PICK size \in Nat : size = old + more
    OBVIOUS
  <2>3. node' = [node EXCEPT ![b] = [node[b] EXCEPT !.addr = low, !.size = size]]
    <3>1. node \in [Blocks -> Block] /\ node[b] \in Block
      BY DEF ListInv, InOrder
    <3>2. [node[b] EXCEPT !.addr = low, !.size = size] = [node[b] EXCEPT !.size = size]
      BY <1>4, <3>1 DEF Block
    <3>3. QED
      BY <1>4, <2>1, <2>2, <3>2
  <2>4. \A c \in Linked \ {b} : /\ node[c].addr # low
                                /\ node[c].addr < low <=> node[c].addr < node[b].addr
    BY <1>3, <1>4, FreeEntries
  <2>5. ListInv' /\ FreeOf' = Allocator!Put(Allocator!Drop(FreeOf, {node[b].addr}), low, size)
    <3>1. b \in Linked /\ head' = head
      BY <1>1, <1>3
    <3>2. QED
      BY <2>1, <2>3, <2>4, <3>1, ChangeKeeps
  <2>6. end \notin DOMAIN FreeOf
    <3>1. ASSUME NEW c \in Linked, node[c].addr = end PROVE FALSE
      <4>1. c # b
        BY <1>2, <1>3, <3>1
      <4>2. CASE up = Nil
        BY <1>2, <1>3, <1>6, <3>1, <4>1, <4>2
      <4>3. CASE up # Nil
        <5>1. /\ up \in Linked /\ end <= node[up].addr /\ node[up].addr # end
              /\ node[c].addr < node[b].addr \/ node[up].addr <= node[c].addr
          BY <1>3, <1>6, <1>7, <4>1, <4>3
        <5>2. node[c].addr \in Nat /\ node[up].addr \in Nat /\ node[b].addr \in Nat
          BY <1>2, <1>3, <5>1
        <5>3. node[b].addr < end
          BY <1>2, <1>3, <5>2
        <5>4. QED
          BY <1>2, <3>1, <5>1, <5>2, <5>3
      <4>4. QED
        BY <4>2, <4>3
    <3>2. QED
      BY <3>1, FreeEntries
  <2>7. Allocator!Drop(FreeOf, {end}) = FreeOf
    <3>1. FreeOf = [a \in DOMAIN FreeOf |-> FreeOf[a]] /\ DOMAIN FreeOf \ {end} = DOMAIN FreeOf
      BY <2>6, FreeOfIsTable DEF TableOf
    <3>2. QED
      BY <3>1 DEF Allocator!Drop
  <2>8. Allocator!Put(FreeOf, low, size) = Allocator!Put(Allocator!Drop(FreeOf, {low}), low, size)
    BY FreeListAssumption, Allocator!PutOverwrites
  <2>9. Allocator!Join(low, addr) = Allocator!Put(FreeOf, low, old + used[addr] + 0)
    <3>1. Allocator!SizeAt(end) = 0
      BY <2>6 DEF Allocator!SizeAt
    <3>2. QED
      BY <1>4, <2>7, <3>1 DEF Allocator!Join
  <2>10. old + used[addr] + 0 = size
    BY <1>2, <1>4, <2>2
  <2>11. QED
    BY <1>4, <1>5, <2>5, <2>8, <2>9, <2>10
<1>8. CASE up # Nil /\ node[up].addr = end
  <2>1. /\ node' = Remove([node EXCEPT ![up].addr = node[b].addr,
                             ![up].size = @ + node[b].size + (end - addr)], b)
        /\ pool' = pool \cup {b}
    BY <1>1, <1>6, <1>8
  <2>2. up \in Linked /\ up = node[b].prev /\ up \in Blocks /\ node \in [Blocks -> Block]
    BY <1>3, <1>6, <1>8 DEF Linked, ListInv, InOrder
  <2>3. PICK above \in Nat : /\ above = node[up].size /\ end \in DOMAIN FreeOf
                             /\ FreeOf[end] = above
    BY <1>2, <1>8, <2>2, FreeEntries
  <2>4. PICK size \in Nat : size = above + old + more
    OBVIOUS
  <2>5. node' = Remove([node EXCEPT ![up].addr = node[b].addr, ![up].size = size], b)
    <3>1. [node EXCEPT ![up].addr = node[b].addr, ![up].size = @ + node[b].size + (end - addr)]
            = [node EXCEPT ![up].addr = node[b].addr, ![up].size = size]
      BY <1>4, <2>2, <2>3, <2>4 DEF Block
    <3>2. QED
      BY <2>1, <3>1
  <2>6. \A c \in Linked \ {b} : node[c].addr < node[b].addr \/ node[up].addr <= node[c].addr
    BY <1>3, <1>6, <1>8
  <2>7. /\ ListInv'
        /\ FreeOf' = Allocator!Put(Allocator!Drop(FreeOf, {node[up].addr}), node[b].addr, size)
    BY <1>1, <1>3, <2>1, <2>2, <2>5, <2>6, MergeKeeps
  <2>8. Allocator!Join(low, addr)
          = Allocator!Put(Allocator!Drop(FreeOf, {end}), low, old + used[addr] + above)
    <3>1. Allocator!SizeAt(end) = above
      BY <2>3 DEF Allocator!SizeAt
    <3>2. QED
      BY <1>4, <3>1 DEF Allocator!Join
  <2>9. old + used[addr] + above = size
    BY <1>2, <1>4, <2>4
  <2>10. QED
    BY <1>4, <1>5, <1>8, <2>7, <2>8, <2>9
<1>9. QED
  BY <1>7, <1>8

(* A freed block that is not merged enters the list above the highest block *)
(* below it.                                                                *)
LEMMA FreeInsertsKeeps ==
  ASSUME ListInv, Allocator!IInv, NEW addr \in DOMAIN used, NEW end,
         end = addr + used[addr], FreeInserts(addr, end)
  PROVE  ListInv' /\ Allocator!FreeInserts(addr)
<1>1. PICK b \in Blocks, n \in pool :
        /\ Finds(Stops(addr, end), b)
        /\ End(b) # addr
        /\ node' = InsertAfter(b, n, addr, end - addr)
        /\ head' = IF head = b THEN n ELSE head
        /\ pool' = pool \ {n}
  BY DEF FreeInserts
<1>2. /\ addr \in Nat /\ end \in Nat /\ addr < end /\ used[addr] = end - addr
      /\ \A c \in Linked : node[c].addr \in Nat
  BY StopsBelow
<1>3. /\ b \in Linked /\ node[b].addr < addr
      /\ Allocator!Highest(Allocator!Below(addr), node[b].addr)
      /\ node[b].prev # Nil =>
           node[b].prev \in Linked /\ end <= node[node[b].prev].addr
  BY <1>1, StopsAt
<1>4. b # Nil /\ (node[b].prev # Nil => addr < node[node[b].prev].addr)
  BY <1>2, <1>3, AddrType
<1>5. PICK size \in Nat : size = end - addr
  BY <1>2
<1>6. ListInv' /\ FreeOf' = Allocator!Put(FreeOf, addr, size)
  <2>1. node' = InsertAfter(b, n, addr, size) /\ b \in Linked \cup {Nil}
    BY <1>1, <1>3, <1>5
  <2>2. QED
    BY <1>1, <1>2, <1>3, <1>4, <2>1, InsertAfterKeeps
<1>7. node[b].addr \in DOMAIN FreeOf /\ node[b].addr + FreeOf[node[b].addr] # addr
  BY <1>1, <1>3, FreeEntries DEF End
<1>8. QED
  BY <1>2, <1>3, <1>5, <1>6, <1>7 DEF Allocator!FreeInserts, Allocator!Insert

(* A freed block below all others is merged with the last or becomes it.    *)
LEMMA FreeLowestKeeps ==
  ASSUME ListInv, Allocator!IInv, NEW addr \in DOMAIN used, NEW end,
         end = addr + used[addr], FreeLowest(addr, end)
  PROVE  ListInv' /\ Allocator!FreeLowest(addr)
<1>1. PICK b \in Blocks :
        /\ Last(b)
        /\ \/ /\ node[b].addr = end
              /\ node' = [node EXCEPT ![b].addr = addr, ![b].size = @ + (end - addr)]
              /\ UNCHANGED pool
           \/ /\ node[b].addr # end
              /\ \E n \in pool :
                   /\ node' = InsertBefore(b, n, addr, end - addr)
                   /\ pool' = pool \ {n}
  BY DEF FreeLowest
<1>2. Stops(addr, end) = {} /\ head' = head
  BY DEF FreeLowest
<1>3. /\ addr \in Nat /\ end \in Nat /\ addr < end /\ used[addr] = end - addr
      /\ \A c \in Linked : /\ node[c].addr \in Nat /\ node[c].size \in Nat
                           /\ end <= node[c].addr
  <2>1. /\ addr \in Nat /\ end \in Nat /\ addr < end /\ used[addr] = end - addr
        /\ \A c \in Linked : /\ node[c].addr \in Nat /\ node[c].size \in Nat
                             /\ node[c].addr < addr \/ end <= node[c].addr
        /\ {c \in Linked : node[c].addr < addr} = {}
    BY <1>2, StopsBelow
  <2>2. QED
    BY <2>1
<1>4. Allocator!Below(addr) = {}
  BY <1>3, FreeEntries DEF Allocator!Below
<1>5. PICK low \in Nat, old \in Nat :
        /\ b \in Linked /\ node[b].next = Nil /\ low = node[b].addr /\ old = node[b].size
        /\ low \in DOMAIN FreeOf /\ FreeOf[low] = old
        /\ \A c \in Linked : low <= node[c].addr
  <2>1. b \in Linked /\ node[b].next = Nil
    BY <1>1, ListIsOrder DEF Last
  <2>2. \A c \in Linked : node[b].addr <= node[c].addr
    BY <2>1 DEF ListInv, InOrder
  <2>3. QED
    BY <1>3, <2>1, <2>2, FreeEntries
<1>6. \A x \in DOMAIN FreeOf : low <= x
  BY <1>5, FreeEntries
<1>7. PICK more \in Nat : more = end - addr
  BY <1>3
<1>8. CASE low = end
  <2>1. PICK size \in Nat : size = more + old
    OBVIOUS
  <2>2. node' = [node EXCEPT ![b].addr = addr, ![b].size = @ + (end - addr)] /\ pool' = pool
    BY <1>1, <1>5, <1>8
  <2>3. node' = [node EXCEPT ![b] = [node[b] EXCEPT !.addr = addr, !.size = size]]
    <3>1. node \in [Blocks -> Block] /\ old + (end - addr) = size
      BY <1>5, <1>7, <2>1 DEF ListInv, InOrder
    <3>2. QED
      BY <1>5, <2>2, <3>1 DEF Block
  <2>4. \A c \in Linked \ {b} : /\ node[c].addr # addr
                                /\ node[c].addr < addr <=> node[c].addr < node[b].addr
    BY <1>3, <1>5
  <2>5. ListInv' /\ FreeOf' = Allocator!Put(Allocator!Drop(FreeOf, {node[b].addr}), addr, size)
    BY <1>2, <1>3, <1>5, <2>2, <2>3, <2>4, ChangeKeeps
  <2>6. Allocator!ExtendDown(low, addr)
          = Allocator!Put(Allocator!Drop(FreeOf, {low}), addr, used[addr] + old)
    BY <1>5, <1>8 DEF Allocator!ExtendDown
  <2>7. used[addr] + old = size
    BY <1>3, <1>7, <2>1
  <2>8. FreeOf' = Allocator!ExtendDown(low, addr)
    BY <1>5, <2>5, <2>6, <2>7
  <2>9. QED
    BY <1>4, <1>5, <1>6, <2>5, <2>8 DEF Allocator!FreeLowest
<1>9. CASE low # end
  <2>1. PICK n \in pool : node' = InsertBefore(b, n, addr, more) /\ pool' = pool \ {n}
    BY <1>1, <1>5, <1>7, <1>9
  <2>2. addr < node[b].addr
    BY <1>3, <1>5
  <2>3. ListInv' /\ FreeOf' = Allocator!Put(FreeOf, addr, more)
    BY <1>2, <1>3, <1>5, <2>1, <2>2, InsertBeforeKeeps
  <2>4. Allocator!ExtendDown(low, addr) = Allocator!Put(FreeOf, addr, used[addr])
    BY <1>9 DEF Allocator!ExtendDown, Allocator!Insert
  <2>5. FreeOf' = Allocator!ExtendDown(low, addr)
    BY <1>3, <1>7, <2>3, <2>4
  <2>6. QED
    BY <1>4, <1>5, <1>6, <2>3, <2>5 DEF Allocator!FreeLowest
<1>10. QED
  BY <1>8, <1>9

LEMMA MemFreeKeeps ==
  ASSUME ListInv, Allocator!IInv, NEW addr \in DOMAIN used, MemFree(addr)
  PROVE  ListInv' /\ Allocator!MemFree(addr)
<1>1. PICK end : end = addr + used[addr]
  OBVIOUS
<1>2. /\ used' = Allocator!Drop(used, {addr})
      /\ FreeJoins(addr, end) \/ FreeInserts(addr, end) \/ FreeLowest(addr, end)
      /\ mapAddr' = mapAddr /\ memory' = memory /\ lost' = lost
  BY <1>1, SameOperators DEF MemFree
<1>3. CASE FreeJoins(addr, end)
  <2>1. ListInv' /\ Allocator!FreeJoins(addr)
    BY <1>1, <1>3, FreeJoinsKeeps
  <2>2. QED
    BY <1>2, <2>1 DEF Allocator!MemFree
<1>4. CASE FreeInserts(addr, end)
  <2>1. ListInv' /\ Allocator!FreeInserts(addr)
    BY <1>1, <1>4, FreeInsertsKeeps
  <2>2. QED
    BY <1>2, <2>1 DEF Allocator!MemFree
<1>5. CASE FreeLowest(addr, end)
  <2>1. ListInv' /\ Allocator!FreeLowest(addr)
    BY <1>1, <1>5, FreeLowestKeeps
  <2>2. QED
    BY <1>2, <2>1 DEF Allocator!MemFree
<1>6. QED
  BY <1>2, <1>3, <1>4, <1>5

-----------------------------------------------------------------------------
(* The specification                                                        *)

LEMMA ListInvInit == Init => ListInv /\ Allocator!Init
<1>1. SUFFICES ASSUME Init PROVE ListInv /\ Allocator!Init
  OBVIOUS
<1>2. /\ head = Nil /\ node = [b \in Blocks |-> Unused] /\ pool = Blocks /\ Linked = {}
      /\ mapAddr = PageSize /\ memory = {} /\ used = Allocator!Nothing /\ lost = {}
  <2>1. used = Alloc!Nothing /\ Alloc!Nothing = Allocator!Nothing
    BY <1>1, SameOperators DEF Init
  <2>2. QED
    BY <1>1, <2>1 DEF Init, Linked
<1>3. ListInv
  <2>1. node \in [Blocks -> Block] /\ \A b \in Blocks : node[b].prev = Nil /\ node[b].next = Nil
    BY <1>2 DEF Unused, Block
  <2>2. QED
    BY <1>2, <2>1 DEF ListInv, InOrder, PoolUnlinked
<1>4. FreeOf = Allocator!Nothing
  <2>1. DOMAIN FreeOf = {} /\ FreeOf = [a \in DOMAIN FreeOf |-> FreeOf[a]]
    BY <1>2, <1>3, FreeOfIsTable DEF TableOf
  <2>2. QED
    BY <2>1 DEF Allocator!Nothing
<1>5. QED
  BY <1>2, <1>3, <1>4 DEF Allocator!Init

(* Every step keeps the list, and is a step of the allocator.               *)
LEMMA ListInvStep ==
  ListInv /\ Allocator!IInv /\ [Next]_vars
    => ListInv' /\ Allocator!IInv' /\ [Allocator!Next]_(Allocator!vars)
<1>1. SUFFICES ASSUME ListInv, Allocator!IInv, [Next]_vars
               PROVE  ListInv' /\ [Allocator!Next]_(Allocator!vars)
  BY FreeListAssumption, Allocator!IInvStep
<1>2. ASSUME NEW size \in Sizes, AllocFree(size) \/ AllocMapped(size) \/ MapAlloc(size)
      PROVE  ListInv' /\ Allocator!Next
  <2>1. size \in Nat \ {0}
    BY FreeListAssumption
  <2>2. CASE AllocFree(size)
    <3>1. ListInv' /\ Allocator!AllocFree(size)
      BY <1>1, <2>1, <2>2, AllocFreeKeeps
    <3>2. QED
      BY <3>1 DEF Allocator!Next
  <2>3. CASE AllocMapped(size)
    <3>1. ListInv' /\ Allocator!AllocMapped(size)
      BY <1>1, <2>1, <2>3, AllocMappedKeeps
    <3>2. QED
      BY <3>1 DEF Allocator!Next
  <2>4. CASE MapAlloc(size)
    <3>1. ListInv' /\ Allocator!MapAlloc(size)
      BY <1>1, <2>4, MapAllocKeeps
    <3>2. QED
      BY <3>1 DEF Allocator!Next
  <2>5. QED
    BY <1>2, <2>2, <2>3, <2>4
<1>3. ASSUME NEW addr \in DOMAIN used, MemFree(addr) \/ FreePanics(addr)
      PROVE  ListInv' /\ Allocator!Next
  <2>1. CASE MemFree(addr)
    <3>1. ListInv' /\ Allocator!MemFree(addr)
      BY <1>1, <2>1, MemFreeKeeps
    <3>2. QED
      BY <3>1 DEF Allocator!Next
  <2>2. CASE FreePanics(addr)
    <3>1. ListInv' /\ Allocator!FreePanics(addr)
      BY <1>1, <2>2, FreePanicsKeeps
    <3>2. QED
      BY <3>1 DEF Allocator!Next
  <2>3. QED
    BY <1>3, <2>1, <2>2
<1>4. CASE UNCHANGED vars
  <2>1. ListInv' /\ FreeOf' = FreeOf
    <3>1. UNCHANGED list
      BY <1>4 DEF vars
    <3>2. QED
      BY <1>1, <3>1, ListUnchanged
  <2>2. QED
    BY <1>4, <2>1 DEF vars, heap, Allocator!vars
<1>5. CASE Next
  BY <1>2, <1>3, <1>5 DEF Next
<1>6. QED
  BY <1>1, <1>4, <1>5

(* For all page sizes, sizes and blocks, whatever memAlloc and memFree do:  *)
(* the blocks outside the pool are one list in descending order of their    *)
(* addresses with prev undoing next, and what it contains accounts for all  *)
(* memory.                                                                  *)
THEOREM ListKept == Spec => [](ListInv /\ Allocator!IInv)
<1>1. Init => ListInv /\ Allocator!IInv
  BY ListInvInit, FreeListAssumption, Allocator!IInvInit
<1>2. (ListInv /\ Allocator!IInv) /\ [Next]_vars => (ListInv /\ Allocator!IInv)'
  BY ListInvStep
<1>3. QED
  BY <1>1, <1>2, PTL DEF Spec

(* The links that newBlock, removeBlock, insertAfter and insertBefore set   *)
(* always agree: the list ends, the head has nothing above it, addresses    *)
(* descend, and every other block is in blockPool without links.            *)
THEOREM LinksAlwaysAgree == Spec => []LinksAgree
<1>1. ListInv => LinksAgree
  <2>1. SUFFICES ASSUME ListInv PROVE LinksAgree
    OBVIOUS
  <2>2. Visited[Cardinality(Blocks)] = Nil /\ Listed = Linked
    BY <2>1, ListIsOrder DEF N
  <2>3. head # Nil => node[head].prev = Nil
    BY <2>1, Neighbours DEF ListInv, InOrder
  <2>4. \A b \in Linked : node[b].next # Nil =>
          /\ node[node[b].next].prev = b
          /\ node[node[b].next].addr < node[b].addr
    BY <2>1 DEF ListInv, InOrder
  <2>5. pool = Blocks \ Linked /\ \A b \in pool : node[b].prev = Nil /\ node[b].next = Nil
    BY <2>1 DEF ListInv, PoolUnlinked, Linked
  <2>6. QED
    BY <2>2, <2>3, <2>4, <2>5 DEF LinksAgree
<1>2. QED
  BY <1>1, ListKept, PTL

(* The pointer operations of memAlloc and memFree on the list do, at every  *)
(* step, what HeapAllocator does to the table of free blocks.               *)
THEOREM ListImplementsAllocator == Spec => ListImplements
<1>1. Alloc!Init <=> Allocator!Init
  BY DEF Alloc!Init, Allocator!Init, Alloc!Nothing, Allocator!Nothing
<1>2. /\ \A size : /\ Alloc!AllocFree(size) <=> Allocator!AllocFree(size)
                   /\ Alloc!AllocMapped(size) <=> Allocator!AllocMapped(size)
                   /\ Alloc!AllocFails(size) <=> Allocator!AllocFails(size)
                   /\ Alloc!MapAlloc(size) <=> Allocator!MapAlloc(size)
  BY SameOperators
     DEF Alloc!AllocFree, Allocator!AllocFree, Alloc!Rest, Allocator!Rest,
         Alloc!AllocMapped, Allocator!AllocMapped, Alloc!NoneFits, Allocator!NoneFits,
         Alloc!AllocFails, Allocator!AllocFails, Alloc!MapAlloc, Allocator!MapAlloc
<1>3. \A addr : Alloc!MemFree(addr) <=> Allocator!MemFree(addr)
  <2>1. \A S, b : Alloc!Highest(S, b) <=> Allocator!Highest(S, b)
    BY DEF Alloc!Highest, Allocator!Highest
  <2>2. \A a : Alloc!Below(a) = Allocator!Below(a) /\ Alloc!SizeAt(a) = Allocator!SizeAt(a)
    BY DEF Alloc!Below, Allocator!Below, Alloc!SizeAt, Allocator!SizeAt
  <2>3. \A b, a : /\ Alloc!Join(b, a) = Allocator!Join(b, a)
                  /\ Alloc!ExtendDown(b, a) = Allocator!ExtendDown(b, a)
                  /\ Alloc!Insert(a) = Allocator!Insert(a)
    BY <2>2, SameOperators
       DEF Alloc!Join, Allocator!Join, Alloc!Insert, Allocator!Insert,
           Alloc!ExtendDown, Allocator!ExtendDown
  <2>4. QED
    BY <2>1, <2>2, <2>3, SameOperators
       DEF Alloc!MemFree, Allocator!MemFree, Alloc!FreeJoins, Allocator!FreeJoins,
           Alloc!FreeInserts, Allocator!FreeInserts,
           Alloc!FreeLowest, Allocator!FreeLowest
<1>4. \A addr : Alloc!FreePanics(addr) <=> Allocator!FreePanics(addr)
  BY SameOperators DEF Alloc!FreePanics, Allocator!FreePanics
<1>5. [Allocator!Next]_(Allocator!vars) => [Alloc!Next]_(Alloc!vars)
  BY <1>2, <1>3, <1>4
     DEF Alloc!Next, Allocator!Next, Alloc!vars, Allocator!vars
<1>6. ListInv /\ Allocator!IInv /\ [Next]_vars => [Alloc!Next]_(Alloc!vars)
  BY <1>5, ListInvStep
<1>7. Init => Alloc!Init
  BY <1>1, ListInvInit
<1>8. QED
  BY <1>6, <1>7, ListKept, PTL DEF Spec, ListImplements, Alloc!Spec
=============================================================================
