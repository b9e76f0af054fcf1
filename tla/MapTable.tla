------------------------------- MODULE MapTable -------------------------------
(***************************************************************************)
(* The table of mapped memory (memoryManager in internal/debugger/mem.go): *)
(* memMap, memUnmap, mapAlloc and mapFree ask the emulator first, on the   *)
(* emulator's goroutine, and change the table under mapMu afterwards.      *)
(* Close unmaps what the table says and nothing else.                      *)
(***************************************************************************)
EXTENDS Integers, FiniteSetsExt

CONSTANTS
  PageSize,   (* of the emulator                                           *)
  Limit,      (* bound: addresses are below                                *)
  Requests,   (* the <<addr, size>> of memMap, memUnmap and mapFree        *)
  Sizes,      (* the sizes of mapAlloc                                     *)
  Callers,    (* goroutines                                                *)
  Overlap     (* whether calls that overlap in time may overlap in memory  *)

VARIABLES
  mapAddr,    (* where mapAlloc maps next                                  *)
  maps,       (* mm.maps: the size of every region, by its address         *)
  mapped,     (* the bytes the emulator has mapped                         *)
  call,       (* what every caller still has to do                         *)
  down        (* dtor has run                                              *)

vars == <<mapAddr, maps, mapped, call, down>>

Idle == [step |-> "idle", addr |-> 0, size |-> 0]
Call(step, addr, size) == [step |-> step, addr |-> addr, size |-> size]

Bytes(addr, size) == addr .. addr + size - 1
BytesOf(m) == UNION {Bytes(a, m[a]) : a \in DOMAIN m}
Of(c) == Bytes(call[c].addr, call[c].size)
InStep(step) == UNION {Of(c) : c \in {d \in Callers : call[d].step = step}}

Put(m, a, v) == [x \in DOMAIN m \cup {a} |-> IF x = a THEN v ELSE m[x]]
Drop(m, a) == [x \in DOMAIN m \ {a} |-> m[x]]

Align(n) == ((n + PageSize - 1) \div PageSize) * PageSize

Init ==
  /\ mapAddr = PageSize
  /\ maps = [a \in {} |-> 0]
  /\ mapped = {}
  /\ call = [c \in Callers |-> Idle]
  /\ down = FALSE

-----------------------------------------------------------------------------
(* mapDelete: what is left of table m without the bytes from addr on        *)

(* A region that begins at addr goes; of a longer one the rest stays, after *)
(* a shorter one the next is looked at                                      *)
RegionAt(s) ==
  LET valid == s.maps[s.addr]
      rest == Drop(s.maps, s.addr)
  IN  [maps |-> IF s.size < valid
                THEN Put(rest, s.addr + s.size, valid - s.size) ELSE rest,
       addr |-> s.addr + valid, size |-> s.size - valid, done |-> s.size <= valid]

Chain(m, addr, size) ==
  LET at[k \in 0 .. Cardinality(DOMAIN m)] ==
        IF k = 0 THEN [maps |-> m, addr |-> addr, size |-> size, done |-> FALSE]
        ELSE LET s == at[k - 1] IN
             IF s.done \/ s.addr \notin DOMAIN s.maps THEN s ELSE RegionAt(s)
  IN  at[Cardinality(DOMAIN m)]

(* calcOverlap counts ranges that touch *)
Touches(start, stop, addr, end) == ~(stop < addr \/ end < start)

(* Changed: the part of the region above the range goes with it *)
CutBelow(s, start, end) ==
  LET stop == start + s.maps[start]
      lo == IF start > s.addr THEN start ELSE s.addr
      hi == IF stop < end THEN stop ELSE end
  IN  [s EXCEPT !.maps = IF lo > start THEN [@ EXCEPT ![start] = lo - start]
                         ELSE Drop(@, start),
                !.addr = IF hi < end THEN hi ELSE @, !.done = hi = end]

(* The region at start keeps what is below the range and what is above it   *)
CutOut(s, start, end) ==
  LET stop == start + s.maps[start]
      lo == IF start > s.addr THEN start ELSE s.addr
      hi == IF stop < end THEN stop ELSE end
      below == IF lo > start THEN [s.maps EXCEPT ![start] = lo - start]
               ELSE Drop(s.maps, start)
  IN  [s EXCEPT !.maps = IF hi < stop THEN Put(below, hi, stop - hi) ELSE below,
                !.addr = IF hi < end THEN hi ELSE @, !.done = hi = end]

(* The lowest region that is left to look at *)
LookAt(s, end) ==
  LET start == Min(s.left)
      t == [s EXCEPT !.left = @ \ {start}]
  IN  IF Touches(start, start + s.maps[start], s.addr, end) THEN CutOut(t, start, end)
      ELSE t

(* The regions from the lowest up, as they were before the first cut; s is  *)
(* what the chain left                                                      *)
Swept(s) ==
  LET n == Cardinality(DOMAIN s.maps)
      at[k \in 0 .. n] ==
        IF k = 0 THEN [maps |-> s.maps, addr |-> s.addr, done |-> s.done,
                       left |-> DOMAIN s.maps]
        ELSE LET t == at[k - 1] IN
             IF t.done THEN t ELSE LookAt(t, s.addr + s.size)
  IN  at[n].maps

Deleted(m, addr, size) == Swept(Chain(m, addr, size))

-----------------------------------------------------------------------------
(* The emulator (external): it maps whole pages nobody has, and unmaps      *)
(* whole pages that are all mapped                                          *)
Maps(addr, size) ==
  /\ size > 0 /\ addr % PageSize = 0 /\ addr + size <= Limit
  /\ Bytes(addr, size) \cap mapped = {}
  /\ mapped' = mapped \cup Bytes(addr, size)

CanUnmap(addr, size) ==
  /\ addr % PageSize = 0
  /\ Bytes(addr, size) \subseteq mapped

Apart(addr, size) ==
  Overlap \/ \A c \in Callers : Bytes(addr, size) \cap Of(c) = {}

Begin(c, addr, size) == ~down /\ call[c] = Idle /\ Apart(addr, size)

MemMap(c, addr, size) ==
  /\ Begin(c, Align(addr), Align(size))
  /\ Maps(Align(addr), Align(size))
  /\ call' = [call EXCEPT ![c] = Call("store", Align(addr), Align(size))]
  /\ UNCHANGED <<mapAddr, maps, down>>

(* mapAlloc takes its address before the emulator maps it *)
MapAllocTakes(c, size) ==
  /\ Begin(c, mapAddr, Align(size))
  /\ mapAddr + Align(size) <= Limit
  /\ mapAddr' = mapAddr + Align(size)
  /\ call' = [call EXCEPT ![c] = Call("map", mapAddr, Align(size))]
  /\ UNCHANGED <<maps, mapped, down>>

MapAllocMaps(c) ==
  /\ call[c].step = "map"
  /\ \/ /\ Maps(call[c].addr, call[c].size)
        /\ call' = [call EXCEPT ![c].step = "store"]
     \/ /\ Of(c) \cap mapped # {}
        /\ call' = [call EXCEPT ![c] = Idle]
        /\ UNCHANGED mapped
  /\ UNCHANGED <<mapAddr, maps, down>>

MapStore(c) ==
  /\ call[c].step = "store"
  /\ maps' = Put(maps, call[c].addr, call[c].size)
  /\ call' = [call EXCEPT ![c] = Idle]
  /\ UNCHANGED <<mapAddr, mapped, down>>

(* memUnmap aligns the address, mapFree does not.  Callers do not unmap what *)
(* another call has not returned yet.                                       *)
Unmap(c, addr, size) ==
  /\ Begin(c, addr, size)
  /\ CanUnmap(addr, size)
  /\ Bytes(addr, size) \cap InStep("store") = {}
  /\ mapped' = mapped \ Bytes(addr, size)
  /\ call' = [call EXCEPT ![c] = Call("delete", addr, size)]
  /\ UNCHANGED <<mapAddr, maps, down>>

MemUnmap(c, addr, size) == Unmap(c, Align(addr), Align(size))
MapFree(c, addr, size) == Unmap(c, addr, Align(size))

MapDelete(c) ==
  /\ call[c].step = "delete"
  /\ maps' = Deleted(maps, call[c].addr, call[c].size)
  /\ call' = [call EXCEPT ![c] = Idle]
  /\ UNCHANGED <<mapAddr, mapped, down>>

(* dtor: a region the emulator refuses to unmap stays mapped *)
Dtor ==
  /\ ~down
  /\ Overlap \/ \A c \in Callers : call[c] = Idle
  /\ down' = TRUE
  /\ mapped' = mapped \ UNION {Bytes(a, maps[a]) :
                                 a \in {b \in DOMAIN maps : CanUnmap(b, maps[b])}}
  /\ maps' = [a \in {} |-> 0]
  /\ UNCHANGED <<mapAddr, call>>

-----------------------------------------------------------------------------
Next ==
  \/ \E c \in Callers :
       \/ \E r \in Requests :
            MemMap(c, r[1], r[2]) \/ MemUnmap(c, r[1], r[2]) \/ MapFree(c, r[1], r[2])
       \/ \E size \in Sizes : MapAllocTakes(c, size)
       \/ MapAllocMaps(c) \/ MapStore(c) \/ MapDelete(c)
  \/ Dtor

Spec == Init /\ [][Next]_vars

-----------------------------------------------------------------------------
(* Properties *)

(* The table has whole pages, its regions are not empty and share no byte.  *)
TypeOK ==
  /\ mapAddr \in 0 .. Limit
  /\ \A a \in DOMAIN maps :
       a % PageSize = 0 /\ maps[a] % PageSize = 0 /\ maps[a] > 0
  /\ \A a, b \in DOMAIN maps : a < b => a + maps[a] <= b

(* However regions are mapped, split and unmapped, in parts or several at   *)
(* once, the table covers what the emulator has mapped, but for the regions *)
(* of calls between the emulator and the table.                             *)
TableAgrees ==
  ~down => BytesOf(maps) = (mapped \ InStep("store")) \cup InStep("delete")
=============================================================================
