--------------------------- MODULE MapTableProofs ---------------------------
(***************************************************************************)
(* Proofs about MapTable, for any goroutines, requests, page size and      *)
(* limit, as long as calls that overlap in time are about memory of their  *)
(* own: mm.maps and the emulator agree.                                    *)
(***************************************************************************)
EXTENDS MapTable, FiniteSetTheorems, WellFoundedInduction, NaturalsInduction, TLAPS

TableConstants ==
  /\ PageSize \in Nat \ {0} /\ Limit \in Nat /\ PageSize <= Limit
  /\ Requests \subseteq Nat \X Nat /\ Sizes \subseteq Nat
  /\ Overlap = FALSE

Pages == {n \in Nat : n % PageSize = 0}

(* A table has whole pages in regions that are not empty and share no byte. *)
Table(m) ==
  /\ m = [a \in DOMAIN m |-> m[a]]
  /\ IsFiniteSet(DOMAIN m)
  /\ \A a \in DOMAIN m : a \in Pages /\ m[a] \in Pages /\ m[a] > 0
  /\ \A a, b \in DOMAIN m : a < b => a + m[a] <= b

Calls == [step : {"idle", "map", "store", "delete"}, addr : Pages, size : Pages]

Typed ==
  /\ mapAddr \in Pages /\ mapAddr <= Limit
  /\ Table(maps)
  /\ call \in [Callers -> Calls]
  /\ \A c \in Callers : call[c].step = "idle" => call[c] = Idle
  /\ \A c \in Callers : call[c].step = "store" => call[c].size > 0
  /\ down \in BOOLEAN
  /\ down => \A c \in Callers : call[c] = Idle

(* Calls are about memory of their own, ...                                 *)
CallsApart == \A c, d \in Callers : c # d => Of(c) \cap Of(d) = {}

(* ... and between the emulator and the table the emulator is ahead.        *)
EmulatorAhead ==
  /\ InStep("store") \subseteq mapped
  /\ InStep("delete") \cap mapped = {}

IInv == Typed /\ CallsApart /\ EmulatorAhead /\ TableAgrees

-----------------------------------------------------------------------------
(* A page boundary is a multiple of the page size.                          *)
LEMMA Multiple ==
  ASSUME PageSize \in Nat \ {0}, NEW n \in Nat
  PROVE  n \in Pages <=> \E i \in Nat : n = PageSize * i
<1>1. n = PageSize * (n \div PageSize) + (n % PageSize) /\ n \div PageSize \in Nat
  OBVIOUS
<1>2. ASSUME NEW i \in Nat, n = PageSize * i PROVE n % PageSize = 0
  BY <1>2
<1>3. ASSUME n % PageSize = 0 PROVE \E i \in Nat : n = PageSize * i
  <2> DEFINE q == n \div PageSize
  <2>1. q \in Nat /\ n = PageSize * q + 0
    BY <1>1, <1>3
  <2> HIDE DEF q
  <2>2. PageSize * q \in Nat
    BY <2>1
  <2>3. QED
    BY <2>1, <2>2
<1>4. QED
  BY <1>2, <1>3 DEF Pages

(* Sums and differences of page boundaries are page boundaries.             *)
LEMMA PagesAdd ==
  ASSUME PageSize \in Nat \ {0}, NEW a \in Pages, NEW b \in Pages
  PROVE  a + b \in Pages /\ (b <= a => a - b \in Pages)
<1>1. a \in Nat /\ b \in Nat
  BY DEF Pages
<1>2. PICK i \in Nat : a = PageSize * i
  BY <1>1, Multiple
<1>3. PICK j \in Nat : b = PageSize * j
  BY <1>1, Multiple
<1>4. a + b \in Pages
  <2>1. a + b = PageSize * (i + j) /\ i + j \in Nat
    BY <1>2, <1>3
  <2>2. QED
    BY <1>1, <2>1, Multiple
<1>5. ASSUME b <= a PROVE a - b \in Pages
  <2>1. a - b = PageSize * (i - j)
    BY <1>2, <1>3
  <2>2. i >= j
    <3>1. SUFFICES ASSUME i < j PROVE FALSE
      OBVIOUS
    <3>2. j = i + (j - i) /\ j - i \in Nat /\ j - i >= 1
      BY <3>1
    <3>3. PageSize * j = PageSize * i + PageSize * (j - i) /\ PageSize * (j - i) >= 1
      BY <3>2
    <3>4. QED
      BY <1>2, <1>3, <1>5, <3>3
  <2>3. i - j \in Nat /\ a - b \in Nat
    BY <1>1, <1>5, <2>2
  <2>4. QED
    BY <2>1, <2>3, Multiple
<1>6. QED
  BY <1>4, <1>5

(* Align rounds to a page boundary.                                         *)
LEMMA AlignPages ==
  ASSUME PageSize \in Nat \ {0}, NEW n \in Nat
  PROVE  Align(n) \in Pages
<1> DEFINE q == (n + PageSize - 1) \div PageSize
<1>1. q \in Nat
  BY n + PageSize - 1 \in Nat
<1>2. Align(n) = PageSize * q /\ Align(n) \in Nat
  BY <1>1 DEF Align
<1> HIDE DEF q
<1>3. QED
  BY <1>1, <1>2, Multiple

-----------------------------------------------------------------------------
(* Tables of regions                                                        *)

(* The bytes of a table are those of its regions, ...                       *)
LEMMA InBytesOf ==
  ASSUME NEW m, NEW x
  PROVE  x \in BytesOf(m) <=> \E a \in DOMAIN m : x \in Bytes(a, m[a])
BY DEF BytesOf

(* ... and the bytes of a region the numbers from its address to its end.   *)
LEMMA InBytes ==
  ASSUME NEW a \in Int, NEW n \in Int, NEW x
  PROVE  x \in Bytes(a, n) <=> x \in Int /\ a <= x /\ x < a + n
BY DEF Bytes

(* A table without a region has the bytes of that region no longer.         *)
LEMMA DropRegion ==
  ASSUME NEW m, Table(m), NEW a \in DOMAIN m
  PROVE  /\ Table(Drop(m, a)) /\ DOMAIN Drop(m, a) = DOMAIN m \ {a}
         /\ \A b \in DOMAIN m \ {a} : Drop(m, a)[b] = m[b]
         /\ BytesOf(Drop(m, a)) = BytesOf(m) \ Bytes(a, m[a])
         /\ Bytes(a, m[a]) \subseteq BytesOf(m)
<1> DEFINE g == Drop(m, a)
<1>1. DOMAIN g = DOMAIN m \ {a} /\ \A b \in DOMAIN g : g[b] = m[b]
  BY DEF Drop
<1>2. g = [b \in DOMAIN g |-> g[b]]
  BY DEF Drop
<1> HIDE DEF g
<1>3. IsFiniteSet(DOMAIN g)
  BY <1>1, FS_RemoveElement DEF Table
<1>4. Table(g)
  BY <1>1, <1>2, <1>3 DEF Table
<1>5. ASSUME NEW b \in DOMAIN g, NEW x \in Bytes(b, g[b]) PROVE x \notin Bytes(a, m[a])
  <2>1. a \in Nat /\ b \in Nat /\ m[a] \in Nat /\ m[b] \in Nat /\ g[b] = m[b] /\ a # b
    BY <1>1 DEF Table, Pages
  <2>2. a + m[a] <= b \/ b + m[b] <= a
    BY <1>1, <2>1 DEF Table
  <2>3. QED
    BY <1>5, <2>1, <2>2, InBytes
<1>6. BytesOf(g) = BytesOf(m) \ Bytes(a, m[a])
  <2>1. ASSUME NEW x \in BytesOf(g) PROVE x \in BytesOf(m) /\ x \notin Bytes(a, m[a])
    BY <1>1, <1>5, <2>1, InBytesOf
  <2>2. ASSUME NEW x \in BytesOf(m), x \notin Bytes(a, m[a]) PROVE x \in BytesOf(g)
    BY <1>1, <2>2, InBytesOf
  <2>3. QED
    BY <2>1, <2>2
<1>7. QED
  BY <1>1, <1>4, <1>6, InBytesOf DEF g

(* A region put where a table has no byte adds its own bytes.               *)
LEMMA PutRegion ==
  ASSUME NEW m, Table(m), NEW a \in Pages, NEW n \in Pages, n > 0,
         Bytes(a, n) \cap BytesOf(m) = {}
  PROVE  /\ Table(Put(m, a, n)) /\ a \notin DOMAIN m
         /\ BytesOf(Put(m, a, n)) = BytesOf(m) \cup Bytes(a, n)
<1> DEFINE g == Put(m, a, n)
<1>1. a \in Nat /\ n \in Nat
  BY DEF Pages
<1>2. ASSUME NEW b \in DOMAIN m PROVE a + n <= b \/ b + m[b] <= a
  <2>1. b \in Nat /\ m[b] \in Nat /\ m[b] > 0
    BY DEF Table, Pages
  <2>2. a \in Bytes(a, n) /\ b \in Bytes(b, m[b])
    BY <1>1, <2>1, InBytes
  <2>3. a \notin Bytes(b, m[b]) /\ b \notin Bytes(a, n)
    BY <2>2, InBytesOf
  <2>4. QED
    BY <1>1, <2>1, <2>3, InBytes
<1>3. a \notin DOMAIN m
  <2>1. SUFFICES ASSUME a \in DOMAIN m PROVE FALSE
    OBVIOUS
  <2>2. m[a] \in Nat /\ m[a] > 0
    BY <2>1 DEF Table, Pages
  <2>3. QED
    BY <1>1, <1>2, <2>1, <2>2
<1>4. /\ DOMAIN g = DOMAIN m \cup {a} /\ g[a] = n
      /\ \A b \in DOMAIN m : g[b] = m[b]
  BY <1>3 DEF Put
<1>5. g = [b \in DOMAIN g |-> g[b]]
  BY DEF Put
<1> HIDE DEF g
<1>6. Table(g)
  <2>1. IsFiniteSet(DOMAIN g)
    BY <1>4, FS_AddElement DEF Table
  <2>2. \A b \in DOMAIN g : b \in Pages /\ g[b] \in Pages /\ g[b] > 0
    BY <1>4 DEF Table
  <2>3. ASSUME NEW b \in DOMAIN g, NEW d \in DOMAIN g, b < d PROVE b + g[b] <= d
    <3>1. b \in Nat /\ d \in Nat /\ g[b] \in Nat /\ g[d] \in Nat /\ g[d] > 0
      BY <2>2 DEF Pages
    <3>2. CASE b = a
      <4>1. d \in DOMAIN m /\ g[d] = m[d]
        BY <1>1, <1>4, <2>3, <3>1, <3>2
      <4>2. QED
        BY <1>1, <1>2, <1>4, <2>3, <3>1, <3>2, <4>1
    <3>3. CASE d = a
      <4>1. b \in DOMAIN m /\ g[b] = m[b]
        BY <1>1, <1>4, <2>3, <3>1, <3>3
      <4>2. QED
        BY <1>1, <1>2, <2>3, <3>1, <3>3, <4>1
    <3>4. CASE b # a /\ d # a
      BY <1>4, <2>3, <3>4 DEF Table
    <3>5. QED
      BY <3>2, <3>3, <3>4
  <2>4. QED
    BY <1>5, <2>1, <2>2, <2>3 DEF Table
<1>7. BytesOf(g) = BytesOf(m) \cup Bytes(a, n)
  <2>1. ASSUME NEW x \in BytesOf(g) PROVE x \in BytesOf(m) \cup Bytes(a, n)
    BY <1>4, <2>1, InBytesOf
  <2>2. ASSUME NEW x \in BytesOf(m) \cup Bytes(a, n) PROVE x \in BytesOf(g)
    BY <1>4, <2>2, InBytesOf
  <2>3. QED
    BY <2>1, <2>2
<1>8. QED
  BY <1>3, <1>4, <1>6, <1>7 DEF g

-----------------------------------------------------------------------------
(* Turns of a loop                                                          *)

(* A set of numbers that is not empty has a least one.                      *)
LEMMA LeastOf ==
  ASSUME NEW T, T \subseteq Nat, T # {}
  PROVE  \E x \in T : \A y \in T : x <= y
<1> DEFINE less == {p \in Nat \X Nat : p[1] < p[2]}
<1>1. IsWellFoundedOn(less, Nat)
  BY NatLessThanWellFounded DEF OpToRel
<1>2. PICK x \in T : \A y \in T : <<y, x>> \notin less
  <2> HIDE DEF less
  <2>1. QED
    BY <1>1, WFMin
<1>3. ASSUME NEW y \in T, y < x PROVE FALSE
  <2>1. <<y, x>> \in less
    BY <1>3
  <2>2. QED
    BY <1>2, <2>1
<1>4. QED
  BY <1>3

(* What holds of 0, and of k + 1 when of k, holds of every number.          *)
LEMMA EveryNumber ==
  ASSUME NEW T, 0 \in T, \A k \in Nat : k \in T => k + 1 \in T
  PROVE  Nat \subseteq T
<1>1. SUFFICES ASSUME Nat \ T # {} PROVE FALSE
  OBVIOUS
<1>2. PICK x \in Nat \ T : \A y \in Nat \ T : x <= y
  BY <1>1, LeastOf
<1>3. x # 0 /\ x - 1 \in Nat
  BY <1>2
<1>4. x - 1 \in T
  BY <1>2, <1>3
<1>5. QED
  BY <1>3, <1>4

(* A turn of the first loop of mapDelete, and of the second                 *)
Turn(loop, end, s) ==
  IF loop = 1
  THEN IF s.done \/ s.addr \notin DOMAIN s.maps THEN s ELSE RegionAt(s)
  ELSE IF s.done THEN s ELSE LookAt(s, end)

LoopFrom(f, n, s, loop, end) ==
  f = [k \in 0 .. n |-> IF k = 0 THEN s ELSE Turn(loop, end, f[k - 1])]

(* The recursive functions of Chain and Deleted exist: so many turns can be *)
(* taken from any beginning.                                                *)
LEMMA LoopExists ==
  ASSUME NEW n \in Nat, NEW s, NEW loop, NEW end
  PROVE  \E f : LoopFrom(f, n, s, loop, end)
<1> DEFINE T == {m \in Nat : \E f : LoopFrom(f, m, s, loop, end)}
<1>1. 0 \in T
  <2>1. LoopFrom([k \in 0 .. 0 |-> s], 0, s, loop, end)
    BY DEF LoopFrom
  <2>2. QED
    BY <2>1
<1>2. ASSUME NEW m \in Nat, m \in T PROVE m + 1 \in T
  <2>1. PICK f : LoopFrom(f, m, s, loop, end)
    BY <1>2
  <2> DEFINE g == [k \in 0 .. m + 1 |-> IF k = m + 1 THEN Turn(loop, end, f[m]) ELSE f[k]]
  <2>2. \A k \in 0 .. m : f[k] = IF k = 0 THEN s ELSE Turn(loop, end, f[k - 1])
    BY <2>1 DEF LoopFrom
  <2>3. ASSUME NEW k \in 0 .. m + 1
        PROVE  g[k] = IF k = 0 THEN s ELSE Turn(loop, end, g[k - 1])
    <3>1. CASE k = m + 1
      BY <3>1
    <3>2. CASE k # m + 1
      <4>1. k \in 0 .. m /\ g[k] = f[k]
        BY <3>2
      <4>2. k # 0 => k - 1 \in 0 .. m /\ g[k - 1] = f[k - 1]
        BY <3>2
      <4>3. QED
        BY <2>2, <4>1, <4>2
    <3>3. QED
      BY <3>1, <3>2
  <2>4. LoopFrom(g, m + 1, s, loop, end)
    <3>1. g = [k \in 0 .. m + 1 |-> g[k]]
      OBVIOUS
    <3> HIDE DEF g
    <3>2. QED
      BY <2>3, <3>1 DEF LoopFrom
  <2>5. QED
    BY <2>4
<1>3. Nat \subseteq T
  <2> HIDE DEF T
  <2>1. QED
    BY <1>1, <1>2, EveryNumber
<1>4. QED
  BY <1>3

-----------------------------------------------------------------------------
(* mapDelete                                                                *)

(* B: what the table is to have in the end                                  *)
ChainGood(s, B) ==
  /\ Table(s.maps) /\ s.done \in BOOLEAN
  /\ s.done => BytesOf(s.maps) = B
  /\ ~s.done => /\ s.addr \in Pages /\ s.size \in Pages
                /\ BytesOf(s.maps) \ Bytes(s.addr, s.size) = B

(* A turn of the first loop: what is left to delete is left of the table,   *)
(* too.                                                                     *)
LEMMA RegionTurn ==
  ASSUME PageSize \in Nat \ {0}, NEW s, NEW B, ChainGood(s, B), ~s.done,
         s.addr \in DOMAIN s.maps
  PROVE  ChainGood(RegionAt(s), B)
<1> DEFINE table == s.maps
           from == s.addr
           length == s.size
           valid == table[from]
           rest == Drop(table, from)
<1>1. /\ Table(table) /\ from \in Pages /\ length \in Pages /\ valid \in Pages /\ valid > 0
      /\ BytesOf(table) \ Bytes(from, length) = B
  BY DEF ChainGood, Table
<1>2. from \in Nat /\ length \in Nat /\ valid \in Nat
  BY <1>1 DEF Pages
<1>3. /\ Table(rest) /\ BytesOf(rest) = BytesOf(table) \ Bytes(from, valid)
      /\ Bytes(from, valid) \subseteq BytesOf(table)
  BY <1>1, DropRegion
<1>4. /\ RegionAt(s).maps = IF length < valid
                             THEN Put(rest, from + length, valid - length) ELSE rest
      /\ RegionAt(s).addr = from + valid /\ RegionAt(s).size = length - valid
      /\ RegionAt(s).done = (length <= valid)
  BY DEF RegionAt
<1>5. RegionAt(s).done \in BOOLEAN /\ (RegionAt(s).done <=> length <= valid)
  <2>1. RegionAt(s).done = (length <= valid)
    BY DEF RegionAt
  <2>2. length <= valid \/ ~(length <= valid)
    OBVIOUS
  <2>3. (length <= valid) = TRUE \/ (length <= valid) = FALSE
    BY <2>2
  <2> HIDE DEF length, valid
  <2>4. QED
    BY <2>1, <2>3
<1> HIDE DEF table, from, length, valid, rest
<1>6. CASE length < valid
  <2>1. from + length \in Pages /\ valid - length \in Pages /\ valid - length > 0
    BY <1>1, <1>2, <1>6, PagesAdd
  <2>2. /\ \A x \in Bytes(from + length, valid - length) :
              x \in Bytes(from, valid) /\ x \notin Bytes(from, length)
        /\ \A x \in Bytes(from, valid) :
              x \in Bytes(from + length, valid - length) \/ x \in Bytes(from, length)
        /\ Bytes(from, length) \subseteq Bytes(from, valid)
    BY <1>2, <1>6, InBytes
  <2>3. Bytes(from + length, valid - length) \cap BytesOf(rest) = {}
    BY <1>3, <2>2
  <2>4. /\ Table(Put(rest, from + length, valid - length))
        /\ BytesOf(Put(rest, from + length, valid - length)) =
             BytesOf(rest) \cup Bytes(from + length, valid - length)
    <3>1. ASSUME NEW p \in Pages, NEW q \in Pages, q > 0, Bytes(p, q) \cap BytesOf(rest) = {}
          PROVE  /\ Table(Put(rest, p, q))
                 /\ BytesOf(Put(rest, p, q)) = BytesOf(rest) \cup Bytes(p, q)
      BY <1>3, <3>1, PutRegion
    <3>2. QED
      BY <2>1, <2>3, <3>1
  <2>5. BytesOf(Put(rest, from + length, valid - length)) = B
    BY <1>1, <1>3, <2>2, <2>4
  <2>6. RegionAt(s).maps = Put(rest, from + length, valid - length) /\ RegionAt(s).done
    BY <1>2, <1>4, <1>5, <1>6
  <2>7. QED
    BY <1>5, <2>4, <2>5, <2>6 DEF ChainGood
<1>7. CASE length = valid
  <2>1. RegionAt(s).maps = rest /\ RegionAt(s).done
    BY <1>2, <1>4, <1>5, <1>7
  <2>2. QED
    BY <1>1, <1>3, <1>5, <1>7, <2>1 DEF ChainGood
<1>8. CASE valid < length
  <2>1. from + valid \in Pages /\ length - valid \in Pages
    BY <1>1, <1>2, <1>8, PagesAdd
  <2>2. \A x : x \in Bytes(from, length) <=>
             x \in Bytes(from, valid) \/ x \in Bytes(from + valid, length - valid)
    BY <1>2, <1>8, InBytes
  <2>3. BytesOf(rest) \ Bytes(from + valid, length - valid) = B
    BY <1>1, <1>3, <2>2
  <2>4. RegionAt(s).maps = rest /\ ~RegionAt(s).done
    BY <1>2, <1>4, <1>5, <1>8
  <2>5. QED
    BY <1>3, <1>4, <1>5, <2>1, <2>3, <2>4 DEF ChainGood
<1>9. QED
  BY <1>2, <1>6, <1>7, <1>8

(* After the first loop the table still has to lose what is left of the     *)
(* range.                                                                   *)
LEMMA ChainKeeps ==
  ASSUME PageSize \in Nat \ {0}, NEW m, Table(m), NEW addr \in Pages, NEW size \in Pages
  PROVE  ChainGood(Chain(m, addr, size), BytesOf(m) \ Bytes(addr, size))
<1> DEFINE n == Cardinality(DOMAIN m)
           B == BytesOf(m) \ Bytes(addr, size)
           s0 == [maps |-> m, addr |-> addr, size |-> size, done |-> FALSE]
           Is(f) == f = [k \in 0 .. n |->
                           IF k = 0 THEN s0
                           ELSE LET s == f[k - 1] IN
                                IF s.done \/ s.addr \notin DOMAIN s.maps THEN s ELSE RegionAt(s)]
           at == CHOOSE f : Is(f)
           T == {k \in Nat : k <= n => ChainGood(at[k], B)}
<1>1. n \in Nat
  BY FS_CardinalityType DEF Table
<1>2. \E f : Is(f)
  <2> HIDE DEF n, s0
  <2>1. PICK f : LoopFrom(f, n, s0, 1, 0)
    BY <1>1, LoopExists
  <2>2. f = [k \in 0 .. n |-> IF k = 0 THEN s0 ELSE Turn(1, 0, f[k - 1])]
    BY <2>1 DEF LoopFrom
  <2>3. Is(f)
    BY <2>2 DEF Turn
  <2>4. QED
    BY <2>3
<1>3. Is(at)
  <2> HIDE DEF Is
  <2>1. QED
    BY <1>2
<1>4. Chain(m, addr, size) = at[n]
  BY DEF Chain
<1>5. ChainGood(s0, B)
  BY DEF ChainGood
<1> HIDE DEF n, B, s0, at
<1>6. \A k \in 0 .. n :
        at[k] = IF k = 0 THEN s0
                ELSE LET s == at[k - 1] IN
                     IF s.done \/ s.addr \notin DOMAIN s.maps THEN s ELSE RegionAt(s)
  BY <1>3
<1>7. 0 \in T
  BY <1>1, <1>5, <1>6
<1>8. ASSUME NEW k \in Nat, k \in T PROVE k + 1 \in T
  <2>1. SUFFICES ASSUME k + 1 <= n PROVE ChainGood(at[k + 1], B)
    OBVIOUS
  <2>2. ChainGood(at[k], B) /\ k + 1 \in 0 .. n /\ k + 1 # 0 /\ k + 1 - 1 = k
    BY <1>1, <1>8, <2>1
  <2>3. at[k + 1] = IF at[k].done \/ at[k].addr \notin DOMAIN at[k].maps
                    THEN at[k] ELSE RegionAt(at[k])
    BY <1>6, <2>2
  <2>4. QED
    BY <2>2, <2>3, RegionTurn
<1>9. n \in T
  <2> HIDE DEF T
  <2>1. QED
    BY <1>1, <1>7, <1>8, EveryNumber
<1>10. QED
  BY <1>1, <1>4, <1>9 DEF B

(* A region that was looked at is outside what is left of the range.        *)
CutGood(s, end, B) ==
  /\ s = [maps |-> s.maps, addr |-> s.addr, done |-> s.done, left |-> s.left]
  /\ Table(s.maps) /\ s.done \in BOOLEAN
  /\ s.done => BytesOf(s.maps) = B
  /\ ~s.done => /\ s.addr \in Pages /\ end \in Pages /\ s.addr <= end
                /\ s.left \subseteq DOMAIN s.maps
                /\ \A a \in DOMAIN s.maps \ s.left : a + s.maps[a] <= s.addr \/ end <= a
                /\ BytesOf(s.maps) \ (s.addr .. end - 1) = B

(* Min is the least number of a set.                                        *)
LEMMA MinOf ==
  ASSUME NEW S, S \subseteq Nat, S # {}
  PROVE  Min(S) \in S /\ \A x \in S : Min(S) <= x
<1>1. \E x \in S : \A y \in S : x <= y
  BY LeastOf
<1>2. QED
  BY <1>1 DEF Min

(* A region without what it has from lo to hi                               *)
Below(m, start, lo) ==
  IF lo > start THEN [m EXCEPT ![start] = lo - start] ELSE Drop(m, start)
Without(m, start, lo, hi) ==
  IF hi < start + m[start] THEN Put(Below(m, start, lo), hi, (start + m[start]) - hi)
  ELSE Below(m, start, lo)

(* Cutting from lo to hi takes away the bytes in between and no other.      *)
LEMMA CutRegion ==
  ASSUME PageSize \in Nat \ {0}, NEW m, Table(m), NEW start \in DOMAIN m,
         NEW lo \in Pages, NEW hi \in Pages,
         start <= lo, lo <= hi, hi <= start + m[start]
  PROVE  /\ Table(Without(m, start, lo, hi))
         /\ \A x : x \in BytesOf(Without(m, start, lo, hi)) <=>
                   x \in BytesOf(m) /\ ~(lo <= x /\ x < hi)
<1> DEFINE below == Below(m, start, lo)
           new == Without(m, start, lo, hi)
<1> DEFINE v == m[start]
           stop == start + v
           rest == Drop(m, start)
<1>1. start \in Pages /\ v \in Pages /\ v > 0
  BY DEF Table
<1>2. start \in Nat /\ v \in Nat /\ lo \in Nat /\ hi \in Nat
  BY <1>1 DEF Pages
<1>3. /\ Table(rest) /\ BytesOf(rest) = BytesOf(m) \ Bytes(start, v)
      /\ Bytes(start, v) \subseteq BytesOf(m)
      /\ DOMAIN rest = DOMAIN m \ {start} /\ \A b \in DOMAIN m \ {start} : rest[b] = m[b]
  BY DropRegion
<1>4. \A x \in BytesOf(m) : x \in Int
  <2>1. SUFFICES ASSUME NEW x \in BytesOf(m) PROVE x \in Int
    OBVIOUS
  <2>2. PICK a \in DOMAIN m : x \in Bytes(a, m[a])
    BY InBytesOf
  <2>3. a \in Int /\ m[a] \in Int
    BY DEF Table, Pages
  <2>4. QED
    BY <2>2, <2>3, InBytes
<1>5. hi <= stop
  OBVIOUS
<1> HIDE DEF v, rest, below, new
<1>6. \A x : x \in BytesOf(rest) <=> x \in BytesOf(m) /\ ~(start <= x /\ x < stop)
  BY <1>2, <1>3, <1>4, InBytes
<1>7. /\ Table(below)
      /\ \A x : x \in BytesOf(below) <=> x \in BytesOf(m) /\ ~(lo <= x /\ x < stop)
  <2>1. CASE lo > start
    <3> DEFINE w == lo - start
    <3>1. below = Put(rest, start, w)
      <4>1. m = [b \in DOMAIN m |-> m[b]]
        BY DEF Table
      <4>2. below = [b \in DOMAIN m |-> IF b = start THEN w ELSE m[b]]
        BY <2>1, <4>1 DEF below, Below
      <4>3. DOMAIN rest \cup {start} = DOMAIN m
        BY <1>3
      <4>4. Put(rest, start, w) = [b \in DOMAIN m |-> IF b = start THEN w ELSE rest[b]]
        BY <4>3 DEF Put
      <4>5. QED
        BY <1>3, <4>2, <4>4
    <3>2. w \in Pages /\ w \in Nat /\ w > 0 /\ start + w = lo
      <4>1. w \in Nat /\ w > 0 /\ start + w = lo
        BY <1>2, <2>1
      <4>2. start <= lo /\ start \in Pages /\ lo \in Pages
        BY <1>1, <1>2, <2>1
      <4>3. w \in Pages
        BY <4>2, PagesAdd
      <4>4. QED
        BY <4>1, <4>3
    <3> HIDE DEF w
    <3>3. Bytes(start, w) \cap BytesOf(rest) = {}
      <4>1. ASSUME NEW x \in Bytes(start, w), x \in BytesOf(rest) PROVE FALSE
        <5>1. x \in Int /\ start <= x /\ x < lo
          BY <1>2, <3>2, <4>1, InBytes
        <5>2. ~(start <= x /\ x < stop)
          BY <1>6, <4>1
        <5>3. lo <= stop
          BY <1>2, <1>5
        <5>4. QED
          BY <1>2, <5>1, <5>2, <5>3
      <4>2. QED
        BY <4>1
    <3>4. Table(below) /\ BytesOf(below) = BytesOf(rest) \cup Bytes(start, w)
      BY <1>1, <1>3, <3>1, <3>2, <3>3, PutRegion
    <3>5. ASSUME NEW x PROVE x \in BytesOf(below) <=> x \in BytesOf(m) /\ ~(lo <= x /\ x < stop)
      <4>1. x \in Bytes(start, v) <=> x \in Int /\ start <= x /\ x < stop
        BY <1>2, InBytes
      <4>2. x \in Bytes(start, w) <=> x \in Int /\ start <= x /\ x < lo
        BY <1>2, <3>2, InBytes
      <4>3. x \in BytesOf(m) => x \in Int
        BY <1>4
      <4>4. x \in BytesOf(below) <=> x \in BytesOf(rest) \/ x \in Bytes(start, w)
        BY <3>4
      <4>5. x \in BytesOf(rest) <=> x \in BytesOf(m) /\ ~(start <= x /\ x < stop)
        BY <1>6
      <4>6. x \in Bytes(start, v) => x \in BytesOf(m)
        BY <1>3
      <4>7. lo <= stop /\ start <= lo
        BY <1>2, <1>5
      <4>8. CASE x \in Int
        BY <1>2, <4>1, <4>2, <4>4, <4>5, <4>6, <4>7, <4>8
      <4>9. CASE x \notin Int
        BY <4>2, <4>3, <4>4, <4>5, <4>9
      <4>10. QED
        BY <4>8, <4>9
    <3>6. QED
      BY <3>4, <3>5
  <2>2. CASE lo = start
    <3>1. below = rest
      BY <1>2, <2>2 DEF rest, below, Below
    <3>2. QED
      BY <1>3, <1>6, <2>2, <3>1
  <2>3. QED
    BY <1>2, <2>1, <2>2
<1>8. CASE hi < stop
  <2> DEFINE w == stop - hi
  <2>1. w \in Pages /\ w \in Nat /\ w > 0 /\ hi + w = stop
    <3>1. w \in Nat /\ w > 0 /\ hi + w = stop
      BY <1>2, <1>8
    <3>2. stop \in Pages /\ hi <= stop
      BY <1>1, <1>5, PagesAdd
    <3>3. w \in Pages
      <4> HIDE DEF stop
      <4>1. QED
        BY <3>2, PagesAdd
    <3>4. QED
      BY <3>1, <3>3
  <2>2. new = Put(below, hi, w)
    <3>1. hi < start + m[start]
      BY <1>8 DEF v
    <3>2. new = Put(below, hi, (start + m[start]) - hi)
      BY <3>1 DEF new, Without, below
    <3>3. QED
      BY <3>2 DEF v
  <2> HIDE DEF w
  <2>3. Bytes(hi, w) \cap BytesOf(below) = {}
    <3>1. ASSUME NEW x \in Bytes(hi, w), x \in BytesOf(below) PROVE FALSE
      <4>1. x \in Int /\ hi <= x /\ x < stop
        BY <1>2, <2>1, <3>1, InBytes
      <4>2. ~(lo <= x /\ x < stop)
        BY <1>7, <3>1
      <4>3. QED
        BY <1>2, <4>1, <4>2
    <3>2. QED
      BY <3>1
  <2>4. Table(new) /\ BytesOf(new) = BytesOf(below) \cup Bytes(hi, w)
    BY <1>7, <2>1, <2>2, <2>3, PutRegion
  <2>5. ASSUME NEW x PROVE x \in BytesOf(new) <=> x \in BytesOf(m) /\ ~(lo <= x /\ x < hi)
    <3>1. x \in Bytes(start, v) <=> x \in Int /\ start <= x /\ x < stop
      BY <1>2, InBytes
    <3>2. x \in Bytes(hi, w) <=> x \in Int /\ hi <= x /\ x < stop
      BY <1>2, <2>1, InBytes
    <3>3. x \in BytesOf(m) => x \in Int
      BY <1>4
    <3>4. x \in Bytes(start, v) => x \in BytesOf(m)
      BY <1>3
    <3>5. x \in BytesOf(new) <=> x \in BytesOf(below) \/ x \in Bytes(hi, w)
      BY <2>4
    <3>6. x \in BytesOf(below) <=> x \in BytesOf(m) /\ ~(lo <= x /\ x < stop)
      BY <1>7
    <3>7. CASE x \in Int
      BY <1>2, <1>8, <3>1, <3>2, <3>4, <3>5, <3>6, <3>7
    <3>8. CASE x \notin Int
      BY <3>2, <3>3, <3>5, <3>6, <3>8
    <3>9. QED
      BY <3>7, <3>8
  <2>6. QED
    BY <2>4, <2>5 DEF new
<1>9. CASE hi = stop
  <2>1. new = below
    <3>1. ~(hi < start + m[start])
      BY <1>2, <1>9 DEF v
    <3>2. QED
      BY <3>1 DEF new, Without, below
  <2>2. QED
    BY <1>7, <1>9, <2>1 DEF new
<1>10. hi <= stop
  BY DEF v
<1>11. QED
  BY <1>2, <1>8, <1>9, <1>10

(* A turn of the second loop looks at one more region, and takes from it    *)
(* what it has of the range.                                                *)
LEMMA LookAtTurn ==
  ASSUME PageSize \in Nat \ {0}, NEW s, NEW end, NEW B, CutGood(s, end, B),
         ~s.done, s.left # {}
  PROVE  /\ CutGood(LookAt(s, end), end, B)
         /\ \E a \in s.left : LookAt(s, end).left = s.left \ {a}
<1> DEFINE m == s.maps
           addr == s.addr
           start == Min(s.left)
           v == m[start]
           stop == start + v
           lo == IF start > addr THEN start ELSE addr
           hi == IF stop < end THEN stop ELSE end
           new == Without(m, start, lo, hi)
           u == LookAt(s, end)
<1>1. /\ s = [maps |-> m, addr |-> addr, done |-> s.done, left |-> s.left]
      /\ Table(m) /\ addr \in Pages /\ end \in Pages /\ addr <= end
      /\ s.left \subseteq DOMAIN m
      /\ \A a \in DOMAIN m \ s.left : a + m[a] <= addr \/ end <= a
      /\ BytesOf(m) \ (addr .. end - 1) = B
  BY DEF CutGood
<1>2. s.left \subseteq Nat
  BY <1>1 DEF Table, Pages
<1>3. start \in s.left /\ \A a \in s.left : start <= a
  BY <1>2, MinOf
<1> DEFINE t == [s EXCEPT !.left = @ \ {start}]
<1>4. u = IF Touches(start, stop, addr, end) THEN CutOut(t, start, end) ELSE t
  BY DEF LookAt
<1> HIDE DEF start, u
<1>5. start \in DOMAIN m /\ start \in Pages /\ v \in Pages /\ v > 0
  BY <1>1, <1>3 DEF Table
<1>6. start \in Nat /\ v \in Nat /\ addr \in Nat /\ end \in Nat /\ stop \in Nat
  BY <1>1, <1>5 DEF Pages
<1>7. stop \in Pages
  BY <1>5, PagesAdd
<1>8. \A a \in s.left \ {start} : stop <= a
  <2>1. SUFFICES ASSUME NEW a \in s.left \ {start} PROVE stop <= a
    OBVIOUS
  <2>2. a \in DOMAIN m /\ a \in Nat /\ start < a
    BY <1>1, <1>2, <1>3, <1>6
  <2>3. QED
    BY <1>1, <1>5, <2>2 DEF Table
<1>9. t = [maps |-> m, addr |-> addr, done |-> s.done, left |-> s.left \ {start}]
  <2>1. PICK p, q, d, l : s = [maps |-> p, addr |-> q, done |-> d, left |-> l]
    BY <1>1
  <2>2. s.maps = p /\ s.addr = q /\ s.done = d /\ s.left = l
    BY <2>1
  <2>3. t = [maps |-> p, addr |-> q, done |-> d, left |-> s.left \ {start}]
    BY <2>1
  <2>4. QED
    BY <2>2, <2>3
<1>10. CASE ~Touches(start, stop, addr, end)
  <2>1. /\ u.maps = m /\ u.addr = addr /\ u.done = s.done /\ u.left = s.left \ {start}
        /\ u = [maps |-> u.maps, addr |-> u.addr, done |-> u.done, left |-> u.left]
    BY <1>9, <1>4, <1>10
  <2>2. stop <= addr \/ end <= start
    BY <1>6, <1>10 DEF Touches
  <2>3. \A a \in DOMAIN m \ (s.left \ {start}) : a + m[a] <= addr \/ end <= a
    BY <1>1, <2>2
  <2> HIDE DEF t
  <2>4. u.done \in BOOLEAN /\ ~u.done
    BY <2>1 DEF CutGood
  <2>5. CutGood(u, end, B)
    BY <1>1, <2>1, <2>3, <2>4 DEF CutGood
  <2>6. QED
    BY <1>3, <2>1, <2>5 DEF u
<1>11. CASE Touches(start, stop, addr, end)
  <2>1. addr <= stop /\ start <= end
    BY <1>6, <1>11 DEF Touches
  <2>2. /\ u = CutOut(t, start, end)
        /\ t.maps = m /\ t.addr = addr /\ t.left = s.left \ {start}
    BY <1>9, <1>4, <1>11
  <2>3. /\ lo \in Pages /\ hi \in Pages /\ start <= lo /\ lo <= hi /\ hi <= stop
        /\ addr <= lo /\ hi <= end /\ (lo = start \/ lo = addr) /\ (hi = end \/ hi = stop)
        /\ lo \in Nat /\ hi \in Nat
    BY <1>1, <1>5, <1>6, <1>7, <2>1
  <2>4. u = [maps |-> new, addr |-> IF hi < end THEN hi ELSE addr, done |-> hi = end,
             left |-> s.left \ {start}]
    BY <1>9, <2>2 DEF CutOut, Without, Below
  <2>5. \A a \in DOMAIN new \ (s.left \ {start}) : hi < end => a + new[a] <= hi \/ end <= a
    <3>1. SUFFICES ASSUME hi < end, NEW a \in DOMAIN new \ (s.left \ {start})
                   PROVE  a + new[a] <= hi \/ end <= a
      OBVIOUS
    <3>2. hi = stop
      BY <2>3, <3>1
    <3>3. new = Below(m, start, lo)
      BY <1>6, <3>2 DEF Without
    <3>4. a \in DOMAIN m
      BY <1>5, <3>3 DEF Below, Drop
    <3>5. CASE a = start
      <4>1. lo > start
        BY <2>3, <1>6, <3>1, <3>3, <3>5 DEF Below, Drop
      <4>2. new[a] = lo - start
        BY <1>5, <3>3, <3>5, <4>1 DEF Below
      <4>3. QED
        BY <1>6, <2>3, <3>5, <4>2
    <3>6. CASE a # start
      <4>1. a + m[a] <= addr \/ end <= a
        BY <1>1, <3>1, <3>4, <3>6
      <4>2. new[a] = m[a]
        BY <1>5, <3>3, <3>4, <3>6 DEF Below, Drop
      <4>3. a \in Nat /\ m[a] \in Nat
        BY <1>1, <3>4 DEF Table, Pages
      <4>4. QED
        BY <1>6, <2>3, <4>1, <4>2, <4>3
    <3>7. QED
      BY <3>5, <3>6
  <2>6. DOMAIN m \ {start} \subseteq DOMAIN new
    BY <1>5 DEF Without, Below, Put, Drop
  <2>7. /\ Table(new)
        /\ \A x : x \in BytesOf(new) <=> x \in BytesOf(m) /\ ~(lo <= x /\ x < hi)
    <3> HIDE DEF lo, hi, new, m
    <3>1. start <= lo /\ lo <= hi /\ hi <= start + m[start]
      BY <2>3 DEF v
    <3>2. QED
      BY <1>1, <1>5, <2>3, <3>1, CutRegion DEF new
  <2> HIDE DEF lo, hi, new, m, t
  <2>8. ASSUME NEW x \in BytesOf(m), addr <= x, x < end PROVE lo <= x
    <3>1. PICK a \in DOMAIN m : x \in Bytes(a, m[a])
      BY InBytesOf
    <3>2. a \in Nat /\ m[a] \in Nat
      BY <1>1 DEF Table, Pages
    <3>3. x \in Int /\ a <= x /\ x < a + m[a]
      BY <3>1, <3>2, InBytes
    <3>4. CASE a \in s.left
      BY <1>3, <1>6, <2>3, <2>8, <3>2, <3>3, <3>4
    <3>5. CASE a \notin s.left
      BY <1>1, <1>6, <2>8, <3>2, <3>3, <3>5
    <3>6. QED
      BY <3>4, <3>5
  <2>9. ASSUME NEW x PROVE x \in BytesOf(m) => x \in Int
    <3>1. SUFFICES ASSUME NEW a \in DOMAIN m, x \in Bytes(a, m[a]) PROVE x \in Int
      BY InBytesOf
    <3>2. a \in Nat /\ m[a] \in Nat
      BY <1>1 DEF Table, Pages
    <3>3. QED
      BY <3>1, <3>2, InBytes
  <2>10. BytesOf(new) \ (hi .. end - 1) = B
    <3>1. ASSUME NEW x, x \in Int
          PROVE  x \in BytesOf(new) \ (hi .. end - 1) <=> x \in BytesOf(m) \ (addr .. end - 1)
      <4>1. x \in BytesOf(new) <=> x \in BytesOf(m) /\ ~(lo <= x /\ x < hi)
        BY <2>7
      <4>2. x \in BytesOf(m) /\ addr <= x /\ x < end => lo <= x
        BY <2>8
      <4>3. QED
        BY <1>6, <2>3, <3>1, <4>1, <4>2
    <3>2. \A x : x \in BytesOf(new) => x \in BytesOf(m)
      BY <2>7
    <3>3. QED
      BY <1>1, <2>9, <3>1, <3>2
  <2>11. u.left = s.left \ {start}
    BY <2>4
  <2>12. CASE hi = end
    <3>1. u.done /\ u.maps = new /\ u.done \in BOOLEAN
      BY <2>4, <2>12
    <3>2. BytesOf(new) = B
      <4>1. hi .. end - 1 = {}
        BY <1>6, <2>12
      <4>2. QED
        BY <2>10, <4>1
    <3>3. u = [maps |-> u.maps, addr |-> u.addr, done |-> u.done, left |-> u.left]
      BY <2>4
    <3>4. CutGood(u, end, B)
      BY <2>7, <3>1, <3>2, <3>3 DEF CutGood
    <3>5. QED
      BY <1>3, <2>11, <3>4 DEF u
  <2>13. CASE hi < end
    <3>1. ~u.done /\ u.maps = new /\ u.done \in BOOLEAN /\ u.addr = hi
      <4>1. hi # end /\ (hi = end) = FALSE
        BY <1>6, <2>3, <2>13
      <4>2. u.maps = new /\ u.addr = hi /\ u.done = (hi = end)
        BY <2>4, <2>13
      <4>3. QED
        BY <4>1, <4>2
    <3>2. u = [maps |-> u.maps, addr |-> u.addr, done |-> u.done, left |-> u.left]
      BY <2>4
    <3>3. u.left \subseteq DOMAIN u.maps
      BY <1>1, <2>6, <2>11, <3>1
    <3>4. \A a \in DOMAIN u.maps \ u.left : a + u.maps[a] <= u.addr \/ end <= a
      BY <2>5, <2>11, <2>13, <3>1
    <3>5. CutGood(u, end, B)
      BY <1>1, <2>3, <2>7, <2>10, <3>1, <3>2, <3>3, <3>4 DEF CutGood
    <3>6. QED
      BY <1>3, <2>11, <3>5 DEF u
  <2>14. QED
    BY <1>6, <2>3, <2>12, <2>13
<1>12. QED
  BY <1>10, <1>11

(* Deleted takes away the bytes of the range and no other.                  *)
LEMMA DeletedBytes ==
  ASSUME PageSize \in Nat \ {0}, NEW m, Table(m), NEW addr \in Pages, NEW size \in Pages
  PROVE  /\ Table(Deleted(m, addr, size))
         /\ BytesOf(Deleted(m, addr, size)) = BytesOf(m) \ Bytes(addr, size)
<1> DEFINE s == Chain(m, addr, size)
           n == Cardinality(DOMAIN s.maps)
           end == s.addr + s.size
           B == BytesOf(m) \ Bytes(addr, size)
           t0 == [maps |-> s.maps, addr |-> s.addr, done |-> s.done, left |-> DOMAIN s.maps]
           Is(f) == f = [k \in 0 .. n |->
                           IF k = 0 THEN t0
                           ELSE LET t == f[k - 1] IN
                                IF t.done THEN t ELSE LookAt(t, s.addr + s.size)]
           at == CHOOSE f : Is(f)
           T == {k \in Nat : k <= n =>
                   /\ CutGood(at[k], end, B)
                   /\ ~at[k].done =>
                        IsFiniteSet(at[k].left) /\ Cardinality(at[k].left) = n - k}
<1>1. ChainGood(s, B)
  BY ChainKeeps
<1>2. n \in Nat /\ IsFiniteSet(DOMAIN s.maps)
  BY <1>1, FS_CardinalityType DEF ChainGood, Table
<1>3. Deleted(m, addr, size) = at[n].maps
  BY DEF Deleted, Swept
<1> HIDE DEF s
<1>4. \E f : Is(f)
  <2> HIDE DEF n, t0
  <2>1. PICK f : LoopFrom(f, n, t0, 2, s.addr + s.size)
    BY <1>2, LoopExists
  <2>2. f = [k \in 0 .. n |-> IF k = 0 THEN t0 ELSE Turn(2, s.addr + s.size, f[k - 1])]
    BY <2>1 DEF LoopFrom
  <2>3. \A t : Turn(2, s.addr + s.size, t) = IF t.done THEN t ELSE LookAt(t, s.addr + s.size)
    BY DEF Turn
  <2>4. Is(f)
    BY <2>2, <2>3
  <2>5. QED
    BY <2>4
<1>5. Is(at)
  <2> HIDE DEF Is
  <2>1. QED
    BY <1>4
<1>6. CutGood(t0, end, B)
  <2>1. t0.maps = s.maps /\ t0.addr = s.addr /\ t0.done = s.done /\ t0.left = DOMAIN s.maps
    OBVIOUS
  <2>2. t0 = [maps |-> t0.maps, addr |-> t0.addr, done |-> t0.done, left |-> t0.left]
    OBVIOUS
  <2> HIDE DEF t0, B
  <2>3. CASE s.done
    BY <1>1, <2>1, <2>2, <2>3 DEF ChainGood, CutGood
  <2>4. CASE ~s.done
    <3>1. s.addr \in Pages /\ s.size \in Pages /\ BytesOf(s.maps) \ Bytes(s.addr, s.size) = B
      BY <1>1, <2>4 DEF ChainGood
    <3>2. end \in Pages /\ s.addr <= end
      BY <3>1, PagesAdd DEF Pages
    <3>3. Bytes(s.addr, s.size) = s.addr .. end - 1
      BY <3>1 DEF Bytes, Pages
    <3>4. QED
      BY <1>1, <2>1, <2>2, <2>4, <3>1, <3>2, <3>3 DEF ChainGood, CutGood
  <2>5. QED
    BY <2>3, <2>4
<1>7. t0.left = DOMAIN s.maps
  OBVIOUS
<1>8. \A k \in 0 .. n :
        at[k] = IF k = 0 THEN t0
                ELSE IF at[k - 1].done THEN at[k - 1] ELSE LookAt(at[k - 1], end)
  <2> HIDE DEF at, t0, n
  <2>1. QED
    BY <1>5
<1> HIDE DEF n, B, t0, at, Is, end
<1>9. 0 \in T
  <2>1. at[0] = t0
    BY <1>2, <1>8
  <2>2. Cardinality(t0.left) = n - 0 /\ IsFiniteSet(t0.left)
    BY <1>2, <1>7 DEF n
  <2>3. QED
    BY <1>6, <2>1, <2>2
<1>10. ASSUME NEW k \in Nat, k \in T PROVE k + 1 \in T
  <2>1. SUFFICES ASSUME k + 1 <= n
                 PROVE  /\ CutGood(at[k + 1], end, B)
                        /\ ~at[k + 1].done =>
                             /\ IsFiniteSet(at[k + 1].left)
                             /\ Cardinality(at[k + 1].left) = n - (k + 1)
    OBVIOUS
  <2>2. /\ CutGood(at[k], end, B)
        /\ ~at[k].done => IsFiniteSet(at[k].left) /\ Cardinality(at[k].left) = n - k
    BY <1>2, <1>10, <2>1
  <2>3. at[k + 1] = IF at[k].done THEN at[k] ELSE LookAt(at[k], end)
    BY <1>2, <1>8, <2>1
  <2>4. CASE at[k].done
    BY <2>2, <2>3, <2>4
  <2>5. CASE ~at[k].done
    <3>1. IsFiniteSet(at[k].left) /\ Cardinality(at[k].left) = n - k
      BY <2>2, <2>5
    <3>2. at[k].left # {}
      BY <1>2, <2>1, <3>1, FS_EmptySet
    <3>3. at[k + 1] = LookAt(at[k], end)
      BY <2>3, <2>5
    <3>4. /\ CutGood(at[k + 1], end, B)
          /\ \E a \in at[k].left : at[k + 1].left = at[k].left \ {a}
      <4>1. ASSUME NEW t, CutGood(t, end, B), ~t.done, t.left # {}
            PROVE  /\ CutGood(LookAt(t, end), end, B)
                   /\ \E a \in t.left : LookAt(t, end).left = t.left \ {a}
        BY <4>1, LookAtTurn
      <4>2. QED
        BY <2>2, <2>5, <3>2, <3>3, <4>1
    <3>5. PICK a \in at[k].left : at[k + 1].left = at[k].left \ {a}
      BY <3>4
    <3>6. IsFiniteSet(at[k + 1].left) /\ Cardinality(at[k + 1].left) = n - (k + 1)
      <4>1. /\ IsFiniteSet(at[k].left \ {a})
            /\ Cardinality(at[k].left \ {a}) = Cardinality(at[k].left) - 1
        BY <3>1, FS_RemoveElement
      <4>2. QED
        BY <1>2, <3>1, <3>5, <4>1
    <3>7. QED
      BY <3>4, <3>6
  <2>6. QED
    BY <2>4, <2>5
<1>11. n \in T
  <2> HIDE DEF T
  <2>1. QED
    BY <1>2, <1>9, <1>10, EveryNumber
<1>12. /\ CutGood(at[n], end, B)
       /\ ~at[n].done => at[n].left = {}
  <2>1. ~at[n].done => IsFiniteSet(at[n].left) /\ Cardinality(at[n].left) = 0
    BY <1>2, <1>11
  <2>2. QED
    BY <1>2, <1>11, <2>1, FS_EmptySet
<1>13. BytesOf(at[n].maps) = B
  <2>1. SUFFICES ASSUME ~at[n].done PROVE BytesOf(at[n].maps) = B
    BY <1>12 DEF CutGood
  <2>2. /\ \A a \in DOMAIN at[n].maps : a + at[n].maps[a] <= at[n].addr \/ end <= a
        /\ BytesOf(at[n].maps) \ (at[n].addr .. end - 1) = B
        /\ at[n].addr \in Nat /\ end \in Nat /\ Table(at[n].maps)
    BY <1>12, <2>1 DEF CutGood, Pages
  <2>3. ASSUME NEW x \in BytesOf(at[n].maps) PROVE x \notin at[n].addr .. end - 1
    <3>1. PICK a \in DOMAIN at[n].maps : x \in Bytes(a, at[n].maps[a])
      BY InBytesOf
    <3>2. a \in Nat /\ at[n].maps[a] \in Nat
      BY <2>2 DEF Table, Pages
    <3>3. x \in Int /\ a <= x /\ x < a + at[n].maps[a]
      BY <3>1, <3>2, InBytes
    <3>4. a + at[n].maps[a] <= at[n].addr \/ end <= a
      BY <2>2
    <3>5. QED
      BY <2>2, <3>2, <3>3, <3>4
  <2>4. QED
    BY <2>2, <2>3
<1>14. QED
  BY <1>3, <1>12, <1>13 DEF CutGood, B

-----------------------------------------------------------------------------
(* Steps                                                                    *)

(* What the calls of the others are about                                   *)
Rest(c, step) == UNION {Of(d) : d \in {e \in Callers \ {c} : call[e].step = step}}

(* What a call has in a step                                                *)
Part(v, step) == IF v.step = step THEN Bytes(v.addr, v.size) ELSE {}

(* A step of c changes no call but its own, ...                             *)
LEMMA CallMoves ==
  ASSUME Typed, NEW c \in Callers, NEW v \in Calls, call' = [call EXCEPT ![c] = v]
  PROVE  /\ call' \in [Callers -> Calls] /\ call'[c] = v
         /\ Of(c)' = Bytes(v.addr, v.size)
         /\ \A d \in Callers \ {c} : call'[d] = call[d] /\ Of(d)' = Of(d)
<1>1. call' \in [Callers -> Calls] /\ call'[c] = v /\ \A d \in Callers \ {c} : call'[d] = call[d]
  BY DEF Typed
<1>2. Of(c)' = Bytes(v.addr, v.size) /\ \A d \in Callers \ {c} : Of(d)' = Of(d)
  BY <1>1 DEF Of, Bytes
<1>3. QED
  BY <1>1, <1>2

(* ... and memory is between the emulator and the table for c or for one of *)
(* the others.                                                              *)
LEMMA InStepOf ==
  ASSUME NEW c \in Callers, NEW step
  PROVE  InStep(step) = Rest(c, step) \cup Part(call[c], step)
<1>1. ASSUME NEW x
      PROVE  x \in InStep(step) <=> \E d \in Callers : call[d].step = step /\ x \in Of(d)
  BY DEF InStep
<1>2. ASSUME NEW x
      PROVE  x \in Rest(c, step) <=>
               \E d \in Callers \ {c} : call[d].step = step /\ x \in Of(d)
  BY DEF Rest
<1>3. Part(call[c], step) = IF call[c].step = step THEN Of(c) ELSE {}
  BY DEF Part, Of
<1>4. QED
  BY <1>1, <1>2, <1>3

LEMMA InStepNext ==
  ASSUME Typed, NEW c \in Callers, NEW v \in Calls, call' = [call EXCEPT ![c] = v], NEW step
  PROVE  InStep(step)' = Rest(c, step) \cup Part(v, step)
<1>1. /\ call'[c] = v /\ Of(c)' = Bytes(v.addr, v.size)
      /\ \A d \in Callers \ {c} : call'[d] = call[d] /\ Of(d)' = Of(d)
  BY CallMoves
<1>2. ASSUME NEW x
      PROVE  x \in InStep(step)' <=> \E d \in Callers : call'[d].step = step /\ x \in Of(d)'
  BY DEF InStep
<1>3. ASSUME NEW x
      PROVE  x \in Rest(c, step) <=>
               \E d \in Callers \ {c} : call[d].step = step /\ x \in Of(d)
  BY DEF Rest
<1>4. Part(v, step) = IF v.step = step THEN Of(c)' ELSE {}
  BY <1>1 DEF Part
<1>5. QED
  BY <1>1, <1>2, <1>3, <1>4

LEMMA Between ==
  ASSUME Typed, NEW c \in Callers, NEW v \in Calls, call' = [call EXCEPT ![c] = v]
  PROVE  /\ InStep("store") = Rest(c, "store") \cup Part(call[c], "store")
         /\ InStep("delete") = Rest(c, "delete") \cup Part(call[c], "delete")
         /\ InStep("store")' = Rest(c, "store") \cup Part(v, "store")
         /\ InStep("delete")' = Rest(c, "delete") \cup Part(v, "delete")
<1>1. /\ InStep("store") = Rest(c, "store") \cup Part(call[c], "store")
      /\ InStep("delete") = Rest(c, "delete") \cup Part(call[c], "delete")
  BY InStepOf
<1>2. InStep("store")' = Rest(c, "store") \cup Part(v, "store")
  BY InStepNext
<1>3. InStep("delete")' = Rest(c, "delete") \cup Part(v, "delete")
  BY InStepNext
<1>4. QED
  BY <1>1, <1>2, <1>3

(* A call that keeps to itself keeps the calls apart.                       *)
LEMMA StillApart ==
  ASSUME Typed, CallsApart, NEW c \in Callers, NEW v \in Calls,
         call' = [call EXCEPT ![c] = v],
         \A d \in Callers \ {c} : Bytes(v.addr, v.size) \cap Of(d) = {}
  PROVE  /\ CallsApart'
         /\ \A step : Rest(c, step) \cap Of(c) = {} /\ Rest(c, step) \cap Of(c)' = {}
<1>1. Of(c)' = Bytes(v.addr, v.size) /\ \A d \in Callers \ {c} : Of(d)' = Of(d)
  BY CallMoves
<1>2. CallsApart'
  BY <1>1 DEF CallsApart
<1>3. ASSUME NEW step, NEW x \in Rest(c, step) PROVE x \notin Of(c) /\ x \notin Of(c)'
  <2>1. PICK d \in Callers \ {c} : x \in Of(d)
    BY DEF Rest
  <2>2. QED
    BY <1>1, <2>1 DEF CallsApart
<1>4. QED
  BY <1>2, <1>3

(* A goroutine in no call is about no memory.                               *)
LEMMA IdleCall ==
  ASSUME PageSize \in Nat \ {0}
  PROVE  Idle \in Calls /\ Bytes(Idle.addr, Idle.size) = {} /\ Idle.step = "idle"
<1>1. 0 \in Pages
  BY DEF Pages
<1>2. Bytes(0, 0) = {}
  BY DEF Bytes
<1>3. QED
  BY <1>1, <1>2 DEF Idle, Calls

(* The fields of a call.                                                    *)
LEMMA CallOf ==
  ASSUME NEW step, NEW addr, NEW size
  PROVE  /\ Call(step, addr, size).step = step /\ Call(step, addr, size).addr = addr
         /\ Call(step, addr, size).size = size
         /\ step \in {"idle", "map", "store", "delete"} /\ addr \in Pages /\ size \in Pages
              => Call(step, addr, size) \in Calls
BY DEF Call, Calls

(* Nobody else is at memory a call begins with.                             *)
LEMMA Entered ==
  ASSUME TableConstants, NEW c \in Callers, NEW addr, NEW size, Begin(c, addr, size)
  PROVE  /\ ~down /\ call[c] = Idle
         /\ \A d \in Callers : Bytes(addr, size) \cap Of(d) = {}
BY DEF TableConstants, Begin, Apart

(* memMap: the pages are new to the emulator, and not in the table yet.     *)
LEMMA MemMapStep ==
  ASSUME TableConstants, IInv, NEW c \in Callers, NEW addr \in Nat, NEW size \in Nat,
         MemMap(c, addr, size)
  PROVE  IInv'
<1> DEFINE a == Align(addr)
           n == Align(size)
           v == Call("store", a, n)
           R == Bytes(a, n)
<1>1. /\ Begin(c, a, n) /\ Maps(a, n) /\ call' = [call EXCEPT ![c] = v]
      /\ UNCHANGED <<mapAddr, maps, down>>
  BY DEF MemMap
<1>2. a \in Pages /\ n \in Pages /\ PageSize \in Nat \ {0}
  BY AlignPages DEF TableConstants
<1> HIDE DEF a, n
<1>3. n > 0 /\ R \cap mapped = {} /\ mapped' = mapped \cup R
  BY <1>1 DEF Maps
<1>4. ~down /\ call[c] = Idle /\ \A d \in Callers : R \cap Of(d) = {}
  BY <1>1, Entered
<1>5. v \in Calls /\ v.step = "store" /\ v.addr = a /\ v.size = n
  BY <1>2, CallOf
<1> HIDE DEF v
<1>6. Typed /\ CallsApart /\ EmulatorAhead /\ TableAgrees
  BY DEF IInv
<1>7. /\ call' \in [Callers -> Calls] /\ call'[c] = v /\ Of(c)' = R
      /\ \A d \in Callers \ {c} : call'[d] = call[d]
  <2>1. Typed /\ v \in Calls /\ call' = [call EXCEPT ![c] = v]
    BY <1>1, <1>5, <1>6
  <2>2. Of(c)' = Bytes(v.addr, v.size)
    BY <2>1, CallMoves
  <2>3. Of(c)' = R
    BY <1>5, <2>2
  <2>4. QED
    BY <2>1, <2>3, CallMoves
<1>8. /\ CallsApart'
      /\ \A step : Rest(c, step) \cap Of(c)' = {}
  BY <1>1, <1>4, <1>5, <1>6, StillApart
<1>9. /\ InStep("store") = Rest(c, "store") /\ InStep("delete") = Rest(c, "delete")
      /\ InStep("store")' = Rest(c, "store") \cup R /\ InStep("delete")' = Rest(c, "delete")
  <2>1. Typed /\ v \in Calls /\ call' = [call EXCEPT ![c] = v]
    BY <1>1, <1>5, <1>6
  <2>2. /\ InStep("store") = Rest(c, "store") \cup Part(call[c], "store")
        /\ InStep("delete") = Rest(c, "delete") \cup Part(call[c], "delete")
        /\ InStep("store")' = Rest(c, "store") \cup Part(v, "store")
        /\ InStep("delete")' = Rest(c, "delete") \cup Part(v, "delete")
    BY <2>1, Between
  <2>3. call[c].step = "idle"
    BY <1>2, <1>4, IdleCall
  <2>4. QED
    BY <1>5, <2>2, <2>3 DEF Part
<1>10. Typed'
  BY <1>1, <1>3, <1>4, <1>5, <1>6, <1>7 DEF Typed
<1>11. EmulatorAhead'
  BY <1>3, <1>6, <1>7, <1>8, <1>9 DEF EmulatorAhead
<1>12. TableAgrees'
  BY <1>1, <1>3, <1>4, <1>6, <1>7, <1>8, <1>9 DEF TableAgrees, BytesOf, Bytes
<1>13. QED
  BY <1>8, <1>10, <1>11, <1>12 DEF IInv

(* mapAlloc takes an address: nobody has mapped anything.                   *)
LEMMA MapAllocTakesStep ==
  ASSUME TableConstants, IInv, NEW c \in Callers, NEW size \in Nat, MapAllocTakes(c, size)
  PROVE  IInv'
<1> DEFINE n == Align(size)
           v == Call("map", mapAddr, n)
           R == Bytes(mapAddr, n)
<1>1. /\ Begin(c, mapAddr, n) /\ mapAddr + n <= Limit /\ mapAddr' = mapAddr + n
      /\ call' = [call EXCEPT ![c] = v] /\ UNCHANGED <<maps, mapped, down>>
  BY DEF MapAllocTakes
<1>2. n \in Pages /\ PageSize \in Nat \ {0}
  BY AlignPages DEF TableConstants
<1> HIDE DEF n
<1>3. Typed /\ CallsApart /\ EmulatorAhead /\ TableAgrees
  BY DEF IInv
<1>4. mapAddr \in Pages /\ mapAddr' \in Pages /\ mapAddr' <= Limit
  BY <1>1, <1>2, <1>3, PagesAdd DEF Typed
<1>5. v \in Calls /\ v.step = "map" /\ v.addr = mapAddr /\ v.size = n
  BY <1>2, <1>4, CallOf
<1> HIDE DEF v
<1>6. ~down /\ call[c] = Idle /\ \A d \in Callers : R \cap Of(d) = {}
  BY <1>1, Entered
<1>7. /\ call' \in [Callers -> Calls] /\ call'[c] = v
      /\ \A d \in Callers \ {c} : call'[d] = call[d]
  <2>1. Typed /\ v \in Calls /\ call' = [call EXCEPT ![c] = v]
    BY <1>1, <1>3, <1>5
  <2>2. QED
    BY <2>1, CallMoves
<1>8. CallsApart'
  BY <1>1, <1>3, <1>5, <1>6, StillApart
<1>9. InStep("store")' = InStep("store") /\ InStep("delete")' = InStep("delete")
  <2>1. Typed /\ v \in Calls /\ call' = [call EXCEPT ![c] = v]
    BY <1>1, <1>3, <1>5
  <2>2. /\ InStep("store") = Rest(c, "store") \cup Part(call[c], "store")
        /\ InStep("delete") = Rest(c, "delete") \cup Part(call[c], "delete")
        /\ InStep("store")' = Rest(c, "store") \cup Part(v, "store")
        /\ InStep("delete")' = Rest(c, "delete") \cup Part(v, "delete")
    BY <2>1, Between
  <2>3. call[c].step = "idle"
    BY <1>2, <1>6, IdleCall
  <2>4. QED
    BY <1>5, <2>2, <2>3 DEF Part
<1>10. Typed'
  BY <1>1, <1>3, <1>4, <1>5, <1>6, <1>7 DEF Typed
<1>11. EmulatorAhead' /\ TableAgrees'
  BY <1>1, <1>3, <1>9 DEF EmulatorAhead, TableAgrees, BytesOf, Bytes
<1>12. QED
  BY <1>8, <1>10, <1>11 DEF IInv

(* The memory a call is about stays its own, or it is about none.           *)
LEMMA Proceeds ==
  ASSUME TableConstants, IInv, NEW c \in Callers, NEW v \in Calls,
         v = Idle \/ (v.addr = call[c].addr /\ v.size = call[c].size)
  PROVE  \A d \in Callers \ {c} : Bytes(v.addr, v.size) \cap Of(d) = {}
<1>1. CASE v = Idle
  <2>1. Bytes(v.addr, v.size) = {}
    BY <1>1, IdleCall DEF TableConstants
  <2>2. QED
    BY <2>1
<1>2. CASE v.addr = call[c].addr /\ v.size = call[c].size
  <2>1. Bytes(v.addr, v.size) = Of(c)
    BY <1>2 DEF Of
  <2>2. QED
    BY <2>1 DEF IInv, CallsApart
<1>3. QED
  BY <1>1, <1>2

(* mapAlloc maps there, or the emulator refuses and the call is over.       *)
LEMMA MapAllocMapsStep ==
  ASSUME TableConstants, IInv, NEW c \in Callers, MapAllocMaps(c)
  PROVE  IInv'
<1>1. call[c].step = "map" /\ UNCHANGED <<mapAddr, maps, down>>
  BY DEF MapAllocMaps
<1>2. Typed /\ CallsApart /\ EmulatorAhead /\ TableAgrees
  BY DEF IInv
<1>3. call[c] \in Calls
  BY <1>2 DEF Typed
<1>4. Idle \in Calls /\ Idle.step = "idle"
  BY IdleCall DEF TableConstants
<1>5. ~down
  BY <1>1, <1>2, <1>4 DEF Typed
<1>6. CASE Maps(call[c].addr, call[c].size) /\ call' = [call EXCEPT ![c].step = "store"]
  <2> DEFINE v == [call[c] EXCEPT !.step = "store"]
  <2>1. /\ v \in Calls /\ v.step = "store" /\ v.addr = call[c].addr /\ v.size = call[c].size
        /\ call' = [call EXCEPT ![c] = v]
    <3>1. v = [step |-> "store", addr |-> call[c].addr, size |-> call[c].size]
      BY <1>3 DEF Calls
    <3>2. call' = [call EXCEPT ![c] = v]
      BY <1>6
    <3> HIDE DEF v
    <3>3. QED
      BY <1>3, <3>1, <3>2 DEF Calls
  <2> HIDE DEF v
  <2>2. \A d \in Callers \ {c} : Bytes(v.addr, v.size) \cap Of(d) = {}
    BY <2>1, Proceeds
  <2>3. /\ call' \in [Callers -> Calls] /\ call'[c] = v /\ Of(c)' = Bytes(v.addr, v.size)
        /\ \A d \in Callers \ {c} : call'[d] = call[d]
    <3>1. Typed /\ v \in Calls /\ call' = [call EXCEPT ![c] = v]
      BY <1>2, <2>1
    <3>2. QED
      BY <3>1, CallMoves
  <2>4. CallsApart' /\ \A step : Rest(c, step) \cap Of(c)' = {}
    BY <1>2, <2>1, <2>2, StillApart
  <2>5. Of(c)' = Of(c)
    BY <2>1, <2>3 DEF Of
  <2>6. call[c].size > 0 /\ Of(c) \cap mapped = {} /\ mapped' = mapped \cup Of(c)
    BY <1>6 DEF Maps, Of
  <2>7. /\ InStep("store") = Rest(c, "store") /\ InStep("delete") = Rest(c, "delete")
        /\ InStep("store")' = Rest(c, "store") \cup Of(c) /\ InStep("delete")' = Rest(c, "delete")
    <3>1. Typed /\ v \in Calls /\ call' = [call EXCEPT ![c] = v]
      BY <1>2, <2>1
    <3>2. /\ InStep("store") = Rest(c, "store") \cup Part(call[c], "store")
          /\ InStep("delete") = Rest(c, "delete") \cup Part(call[c], "delete")
          /\ InStep("store")' = Rest(c, "store") \cup Part(v, "store")
          /\ InStep("delete")' = Rest(c, "delete") \cup Part(v, "delete")
      BY <3>1, Between
    <3>3. Bytes(v.addr, v.size) = Of(c)
      BY <2>3, <2>5
    <3>4. QED
      BY <1>1, <2>1, <3>2, <3>3 DEF Part
  <2>8. Rest(c, "store") \cap Of(c) = {} /\ Rest(c, "delete") \cap Of(c) = {}
    BY <2>4, <2>5
  <2>9. Typed'
    BY <1>1, <1>2, <1>5, <2>1, <2>3, <2>6 DEF Typed, Idle
  <2>10. EmulatorAhead'
    BY <1>2, <2>6, <2>7, <2>8 DEF EmulatorAhead
  <2>11. BytesOf(maps)' = BytesOf(maps)
    BY <1>1 DEF BytesOf, Bytes
  <2>12. TableAgrees'
    BY <1>1, <1>2, <1>5, <2>6, <2>7, <2>8, <2>11 DEF TableAgrees
  <2>13. QED
    BY <2>4, <2>9, <2>10, <2>12 DEF IInv
<1>7. CASE call' = [call EXCEPT ![c] = Idle] /\ UNCHANGED mapped
  <2>1. \A d \in Callers \ {c} : Bytes(Idle.addr, Idle.size) \cap Of(d) = {}
    BY <1>4, Proceeds
  <2>2. /\ call' \in [Callers -> Calls] /\ call'[c] = Idle
        /\ \A d \in Callers \ {c} : call'[d] = call[d]
    <3>1. Typed /\ Idle \in Calls /\ call' = [call EXCEPT ![c] = Idle]
      BY <1>2, <1>4, <1>7
    <3>2. QED
      BY <3>1, CallMoves
  <2>3. CallsApart'
    BY <1>2, <1>4, <1>7, <2>1, StillApart
  <2>4. InStep("store")' = InStep("store") /\ InStep("delete")' = InStep("delete")
    <3>1. Typed /\ Idle \in Calls /\ call' = [call EXCEPT ![c] = Idle]
      BY <1>2, <1>4, <1>7
    <3>2. /\ InStep("store") = Rest(c, "store") \cup Part(call[c], "store")
          /\ InStep("delete") = Rest(c, "delete") \cup Part(call[c], "delete")
          /\ InStep("store")' = Rest(c, "store") \cup Part(Idle, "store")
          /\ InStep("delete")' = Rest(c, "delete") \cup Part(Idle, "delete")
      BY <3>1, Between
    <3>3. QED
      BY <1>1, <1>4, <3>2 DEF Part
  <2>5. Typed'
    BY <1>1, <1>2, <1>4, <1>5, <2>2 DEF Typed
  <2>6. EmulatorAhead' /\ TableAgrees'
    BY <1>1, <1>2, <1>7, <2>4 DEF EmulatorAhead, TableAgrees, BytesOf, Bytes
  <2>7. QED
    BY <2>3, <2>5, <2>6 DEF IInv
<1>8. QED
  BY <1>6, <1>7 DEF MapAllocMaps

(* The table gets what the emulator has mapped for the call.                *)
LEMMA MapStoreStep ==
  ASSUME TableConstants, IInv, NEW c \in Callers, MapStore(c)
  PROVE  IInv'
<1> DEFINE a == call[c].addr
           n == call[c].size
           S == Rest(c, "store")
           D == Rest(c, "delete")
<1>1. /\ call[c].step = "store" /\ maps' = Put(maps, a, n)
      /\ call' = [call EXCEPT ![c] = Idle]
      /\ UNCHANGED <<mapAddr, mapped, down>>
  BY DEF MapStore
<1>2. Typed /\ CallsApart /\ EmulatorAhead /\ TableAgrees
  BY DEF IInv
<1>3. a \in Pages /\ n \in Pages /\ n > 0
  BY <1>1, <1>2 DEF Typed, Calls
<1>4. Idle \in Calls /\ Idle.step = "idle"
  BY IdleCall DEF TableConstants
<1>5. ~down
  BY <1>1, <1>2, <1>4 DEF Typed
<1>6. Of(c) = Bytes(a, n)
  BY DEF Of
<1> HIDE DEF a, n
<1>7. \A d \in Callers \ {c} : Bytes(Idle.addr, Idle.size) \cap Of(d) = {}
  BY <1>4, Proceeds
<1>8. /\ call' \in [Callers -> Calls] /\ call'[c] = Idle
      /\ \A d \in Callers \ {c} : call'[d] = call[d]
  <2>1. Typed /\ Idle \in Calls /\ call' = [call EXCEPT ![c] = Idle]
    BY <1>1, <1>2, <1>4
  <2>2. QED
    BY <2>1, CallMoves
<1>9. CallsApart' /\ \A step : Rest(c, step) \cap Of(c) = {}
  BY <1>1, <1>2, <1>4, <1>7, StillApart
<1>10. /\ InStep("store") = S \cup Of(c) /\ InStep("delete") = D
       /\ InStep("store")' = S /\ InStep("delete")' = D
       /\ S \cap Of(c) = {} /\ D \cap Of(c) = {}
  <2>1. Typed /\ Idle \in Calls /\ call' = [call EXCEPT ![c] = Idle]
    BY <1>1, <1>2, <1>4
  <2>2. /\ InStep("store") = Rest(c, "store") \cup Part(call[c], "store")
        /\ InStep("delete") = Rest(c, "delete") \cup Part(call[c], "delete")
        /\ InStep("store")' = Rest(c, "store") \cup Part(Idle, "store")
        /\ InStep("delete")' = Rest(c, "delete") \cup Part(Idle, "delete")
    BY <2>1, Between
  <2>3. QED
    BY <1>1, <1>4, <1>9, <2>2 DEF Part, Of
<1> HIDE DEF S, D
<1>11. BytesOf(maps) = (mapped \ InStep("store")) \cup InStep("delete")
  BY <1>2, <1>5 DEF TableAgrees
<1>12. Bytes(a, n) \cap BytesOf(maps) = {}
  BY <1>6, <1>10, <1>11
<1>13. Table(Put(maps, a, n)) /\ BytesOf(Put(maps, a, n)) = BytesOf(maps) \cup Bytes(a, n)
  BY <1>2, <1>3, <1>12, PutRegion DEF Typed
<1>14. Table(maps)' /\ BytesOf(maps)' = BytesOf(maps) \cup Of(c)
  BY <1>1, <1>6, <1>13 DEF Table, BytesOf, Bytes, Pages
<1>15. Typed'
  BY <1>1, <1>2, <1>4, <1>5, <1>8, <1>14 DEF Typed
<1>16. EmulatorAhead'
  BY <1>1, <1>2, <1>10 DEF EmulatorAhead
<1>17. Of(c) \subseteq mapped
  BY <1>2, <1>10 DEF EmulatorAhead
<1>18. TableAgrees'
  BY <1>1, <1>10, <1>11, <1>14, <1>17 DEF TableAgrees
<1>19. QED
  BY <1>9, <1>15, <1>16, <1>18 DEF IInv

(* memUnmap and mapFree: the emulator has the pages no longer, the table    *)
(* still has.                                                               *)
LEMMA UnmapStep ==
  ASSUME TableConstants, IInv, NEW c \in Callers, NEW a \in Nat, NEW n \in Pages,
         Unmap(c, a, n)
  PROVE  IInv'
<1> DEFINE v == Call("delete", a, n)
           R == Bytes(a, n)
           S == Rest(c, "store")
           D == Rest(c, "delete")
<1>1. /\ Begin(c, a, n) /\ CanUnmap(a, n) /\ R \cap InStep("store") = {}
      /\ mapped' = mapped \ R /\ call' = [call EXCEPT ![c] = v]
      /\ UNCHANGED <<mapAddr, maps, down>>
  BY DEF Unmap
<1>2. a \in Pages /\ PageSize \in Nat \ {0} /\ R \subseteq mapped
  BY <1>1 DEF CanUnmap, Pages, TableConstants
<1>3. Typed /\ CallsApart /\ EmulatorAhead /\ TableAgrees
  BY DEF IInv
<1>4. ~down /\ call[c] = Idle /\ \A d \in Callers : R \cap Of(d) = {}
  BY <1>1, Entered
<1>5. v \in Calls /\ v.step = "delete" /\ v.addr = a /\ v.size = n
  BY <1>2, CallOf
<1> HIDE DEF v
<1>6. Typed /\ v \in Calls /\ call' = [call EXCEPT ![c] = v]
  BY <1>1, <1>3, <1>5
<1>7. /\ call' \in [Callers -> Calls] /\ call'[c] = v
      /\ \A d \in Callers \ {c} : call'[d] = call[d]
  BY <1>6, CallMoves
<1>8. Of(c)' = R
  <2>1. Of(c)' = Bytes(v.addr, v.size)
    BY <1>6, CallMoves
  <2>2. QED
    BY <1>5, <2>1
<1>9. CallsApart' /\ \A step : Rest(c, step) \cap Of(c)' = {}
  BY <1>3, <1>4, <1>5, <1>6, StillApart
<1>10. /\ InStep("store") = S /\ InStep("delete") = D
       /\ InStep("store")' = S /\ InStep("delete")' = D \cup R
       /\ S \cap R = {} /\ D \cap R = {}
  <2>1. call[c].step = "idle" /\ v.step = "delete" /\ Bytes(v.addr, v.size) = R
    BY <1>2, <1>4, <1>5, IdleCall
  <2>2. /\ InStep("store") = Rest(c, "store") \cup Part(call[c], "store")
        /\ InStep("delete") = Rest(c, "delete") \cup Part(call[c], "delete")
        /\ InStep("store")' = Rest(c, "store") \cup Part(v, "store")
        /\ InStep("delete")' = Rest(c, "delete") \cup Part(v, "delete")
    BY <1>6, Between
  <2>3. QED
    BY <1>8, <1>9, <2>1, <2>2 DEF Part
<1> HIDE DEF S, D, R
<1>11. Typed'
  BY <1>1, <1>3, <1>4, <1>5, <1>7 DEF Typed
<1>12. EmulatorAhead'
  BY <1>1, <1>3, <1>10 DEF EmulatorAhead
<1>13. BytesOf(maps)' = BytesOf(maps)
  BY <1>1 DEF BytesOf, Bytes
<1>14. TableAgrees'
  BY <1>1, <1>2, <1>3, <1>4, <1>10, <1>13 DEF TableAgrees
<1>15. QED
  BY <1>9, <1>11, <1>12, <1>14 DEF IInv

(* The table loses what the emulator has unmapped for the call.             *)
LEMMA MapDeleteStep ==
  ASSUME TableConstants, IInv, NEW c \in Callers, MapDelete(c)
  PROVE  IInv'
<1> DEFINE a == call[c].addr
           n == call[c].size
           S == Rest(c, "store")
           D == Rest(c, "delete")
<1>1. /\ call[c].step = "delete" /\ maps' = Deleted(maps, a, n)
      /\ call' = [call EXCEPT ![c] = Idle] /\ UNCHANGED <<mapAddr, mapped, down>>
  BY DEF MapDelete
<1>2. Typed /\ CallsApart /\ EmulatorAhead /\ TableAgrees
  BY DEF IInv
<1>3. a \in Pages /\ n \in Pages
  BY <1>1, <1>2 DEF Typed, Calls
<1>4. Idle \in Calls /\ Idle.step = "idle"
  BY IdleCall DEF TableConstants
<1>5. ~down
  BY <1>1, <1>2, <1>4 DEF Typed
<1>6. Of(c) = Bytes(a, n)
  BY DEF Of
<1> HIDE DEF a, n
<1>7. \A d \in Callers \ {c} : Bytes(Idle.addr, Idle.size) \cap Of(d) = {}
  BY <1>4, Proceeds
<1>8. /\ call' \in [Callers -> Calls] /\ call'[c] = Idle
      /\ \A d \in Callers \ {c} : call'[d] = call[d]
  <2>1. Typed /\ Idle \in Calls /\ call' = [call EXCEPT ![c] = Idle]
    BY <1>1, <1>2, <1>4
  <2>2. QED
    BY <2>1, CallMoves
<1>9. CallsApart' /\ \A step : Rest(c, step) \cap Of(c) = {}
  BY <1>1, <1>2, <1>4, <1>7, StillApart
<1>10. /\ InStep("store") = S /\ InStep("delete") = D \cup Of(c)
       /\ InStep("store")' = S /\ InStep("delete")' = D
       /\ S \cap Of(c) = {} /\ D \cap Of(c) = {}
  <2>1. Typed /\ Idle \in Calls /\ call' = [call EXCEPT ![c] = Idle]
    BY <1>1, <1>2, <1>4
  <2>2. /\ InStep("store") = Rest(c, "store") \cup Part(call[c], "store")
        /\ InStep("delete") = Rest(c, "delete") \cup Part(call[c], "delete")
        /\ InStep("store")' = Rest(c, "store") \cup Part(Idle, "store")
        /\ InStep("delete")' = Rest(c, "delete") \cup Part(Idle, "delete")
    BY <2>1, Between
  <2>3. QED
    BY <1>1, <1>4, <1>9, <2>2 DEF Part, Of
<1> HIDE DEF S, D
<1>11. BytesOf(maps) = (mapped \ InStep("store")) \cup InStep("delete")
  BY <1>2, <1>5 DEF TableAgrees
<1>12. /\ Table(Deleted(maps, a, n))
       /\ BytesOf(Deleted(maps, a, n)) = BytesOf(maps) \ Bytes(a, n)
  BY <1>2, <1>3, DeletedBytes DEF Typed, TableConstants
<1>13. Table(maps)' /\ BytesOf(maps)' = BytesOf(maps) \ Of(c)
  BY <1>1, <1>6, <1>12 DEF Table, BytesOf, Bytes, Pages
<1>14. Typed'
  BY <1>1, <1>2, <1>4, <1>5, <1>8, <1>13 DEF Typed
<1>15. EmulatorAhead'
  BY <1>1, <1>2, <1>10 DEF EmulatorAhead
<1>16. Of(c) \cap mapped = {}
  BY <1>2, <1>10 DEF EmulatorAhead
<1>17. TableAgrees'
  BY <1>1, <1>10, <1>11, <1>13, <1>16 DEF TableAgrees
<1>18. QED
  BY <1>9, <1>14, <1>15, <1>17 DEF IInv

(* A table without regions has no bytes.                                    *)
LEMMA EmptyTable ==
  Table([a \in {} |-> 0]) /\ BytesOf([a \in {} |-> 0]) = {}
BY FS_EmptySet DEF Table, BytesOf

(* With nobody in a call no memory is between the emulator and the table.   *)
LEMMA NobodyIn ==
  ASSUME PageSize \in Nat \ {0}, \A c \in Callers : call[c] = Idle
  PROVE  /\ \A c \in Callers : Of(c) = {}
         /\ InStep("store") = {} /\ InStep("delete") = {}
BY IdleCall DEF Of, InStep

(* dtor empties the table when nobody is in a call.                         *)
LEMMA DtorStep ==
  ASSUME TableConstants, IInv, Dtor
  PROVE  IInv'
<1>1. /\ \A c \in Callers : call[c] = Idle
      /\ down' = TRUE /\ maps' = [a \in {} |-> 0] /\ UNCHANGED <<mapAddr, call>>
  BY DEF Dtor, TableConstants
<1>2. Typed
  BY DEF IInv
<1>3. Table(maps)'
  BY <1>1, EmptyTable DEF Table, Pages
<1>4. /\ \A c \in Callers : Of(c) = {}
      /\ InStep("store") = {} /\ InStep("delete") = {}
  BY <1>1, NobodyIn DEF TableConstants
<1>5. InStep("store")' = {} /\ InStep("delete")' = {} /\ \A c \in Callers : Of(c)' = {}
  BY <1>1, <1>4 DEF InStep, Of, Bytes
<1>6. Typed'
  BY <1>1, <1>2, <1>3 DEF Typed
<1>7. CallsApart' /\ EmulatorAhead' /\ TableAgrees'
  BY <1>1, <1>5 DEF CallsApart, EmulatorAhead, TableAgrees
<1>8. QED
  BY <1>6, <1>7 DEF IInv

(* At first nothing is mapped.                                              *)
LEMMA TableInit ==
  ASSUME TableConstants, Init
  PROVE  IInv
<1>1. /\ mapAddr = PageSize /\ maps = [a \in {} |-> 0] /\ mapped = {}
      /\ call = [c \in Callers |-> Idle] /\ down = FALSE
  BY DEF Init
<1>2. mapAddr \in Pages /\ mapAddr <= Limit
  BY <1>1 DEF Pages, TableConstants
<1>3. Table(maps) /\ BytesOf(maps) = {}
  BY <1>1, EmptyTable
<1>4. Idle \in Calls /\ Idle.step = "idle"
  BY IdleCall DEF TableConstants
<1>5. /\ \A c \in Callers : Of(c) = {}
      /\ InStep("store") = {} /\ InStep("delete") = {}
  BY <1>1, NobodyIn DEF TableConstants
<1>6. Typed
  BY <1>1, <1>2, <1>3, <1>4 DEF Typed
<1>7. CallsApart /\ EmulatorAhead /\ TableAgrees
  BY <1>1, <1>3, <1>5 DEF CallsApart, EmulatorAhead, TableAgrees
<1>8. QED
  BY <1>6, <1>7 DEF IInv

(* Every step keeps the invariant.                                          *)
LEMMA TableNext ==
  ASSUME TableConstants, IInv, [Next]_vars
  PROVE  IInv'
<1>1. ASSUME NEW c \in Callers, NEW r \in Requests,
             MemMap(c, r[1], r[2]) \/ MemUnmap(c, r[1], r[2]) \/ MapFree(c, r[1], r[2])
      PROVE  IInv'
  <2>1. r[1] \in Nat /\ r[2] \in Nat
    BY DEF TableConstants
  <2>2. Align(r[1]) \in Nat /\ Align(r[2]) \in Pages
    BY <2>1, AlignPages DEF TableConstants, Pages
  <2>3. CASE MemMap(c, r[1], r[2])
    BY <2>1, <2>3, MemMapStep
  <2>4. CASE MemUnmap(c, r[1], r[2])
    BY <2>2, <2>4, UnmapStep DEF MemUnmap
  <2>5. CASE MapFree(c, r[1], r[2])
    BY <2>1, <2>2, <2>5, UnmapStep DEF MapFree
  <2>6. QED
    BY <1>1, <2>3, <2>4, <2>5
<1>2. ASSUME NEW c \in Callers, NEW size \in Sizes, MapAllocTakes(c, size)
      PROVE  IInv'
  <2>1. size \in Nat
    BY DEF TableConstants
  <2>2. QED
    BY <1>2, <2>1, MapAllocTakesStep
<1>3. CASE UNCHANGED vars
  <2>1. UNCHANGED <<mapAddr, maps, mapped, call, down>>
    BY <1>3 DEF vars
  <2>2. /\ \A c \in Callers : Of(c)' = Of(c)
        /\ InStep("store")' = InStep("store") /\ InStep("delete")' = InStep("delete")
        /\ BytesOf(maps)' = BytesOf(maps)
    BY <2>1 DEF Of, InStep, BytesOf, Bytes
  <2>3. Typed'
    BY <2>1 DEF IInv, Typed, Table
  <2>4. QED
    BY <2>1, <2>2, <2>3 DEF IInv, CallsApart, EmulatorAhead, TableAgrees
<1>4. QED
  BY <1>1, <1>2, <1>3, MapAllocMapsStep, MapStoreStep, MapDeleteStep, DtorStep DEF Next

(* The invariant says what the properties do.                               *)
LEMMA Agrees == ASSUME TableConstants, IInv PROVE TypeOK /\ TableAgrees
BY DEF TableConstants, IInv, Typed, Table, TypeOK, TableAgrees, Pages

(* mm.maps has whole pages in regions that share no byte, and covers what   *)
(* the emulator has mapped but for the regions of calls under way, however  *)
(* regions are mapped, split and unmapped by callers that keep apart.       *)
THEOREM TableAlways ==
  ASSUME TableConstants
  PROVE  Spec => [](TypeOK /\ TableAgrees)
<1>1. Init => IInv
  BY TableInit
<1>2. IInv /\ [Next]_vars => IInv'
  BY TableNext
<1>3. IInv => TypeOK /\ TableAgrees
  BY Agrees
<1>4. QED
  BY <1>1, <1>2, <1>3, PTL DEF Spec
=============================================================================
