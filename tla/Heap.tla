-------------------------------- MODULE Heap --------------------------------
(***************************************************************************)
(* What the heap of guest memory promises (MemAlloc, MemFree, MemSize):    *)
(* a block that is handed out lies in mapped memory and shares no byte     *)
(* with a block still in use; only its owner's MemFree takes it away.      *)
(***************************************************************************)
EXTENDS Integers

CONSTANTS
  Addresses,  (* where blocks may begin                                    *)
  Sizes       (* sizes that are asked for                                  *)

VARIABLES
  memory,     (* the bytes mapped for the heap                             *)
  used        (* the size of each block in use, by its address             *)

vars == <<memory, used>>

Bytes(addr, size) == addr .. addr + size - 1

Put(f, a, v) == [x \in DOMAIN f \cup {a} |-> IF x = a THEN v ELSE f[x]]
Drop(f, S) == [x \in DOMAIN f \ S |-> f[x]]

Init == memory = {} /\ used = [a \in {} |-> 0]

Alloc(addr, size) ==
  /\ memory \subseteq memory'
  /\ Bytes(addr, size) \subseteq memory'
  /\ \A a \in DOMAIN used : Bytes(a, used[a]) \cap Bytes(addr, size) = {}
  /\ used' = Put(used, addr, size)

Free(addr) ==
  /\ addr \in DOMAIN used
  /\ used' = Drop(used, {addr})
  /\ UNCHANGED memory

Next ==
  \E addr \in Addresses : Free(addr) \/ \E size \in Sizes : Alloc(addr, size)

Spec == Init /\ [][Next]_vars
=============================================================================
