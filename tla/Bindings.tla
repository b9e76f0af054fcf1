------------------------------ MODULE Bindings -------------------------------
(***************************************************************************)
(* What lies on the heap (memImport, memWrite, memBind and memUnbind of    *)
(* internal/debugger/mem.go).  An import allocates block after block and   *)
(* gives them back when it fails.  A bind is a block and a memory hook,    *)
(* whose callback reads from and writes to memory of the host.             *)
(***************************************************************************)
EXTENDS Integers, FiniteSets

CONSTANTS
  Blocks,     (* where blocks begin; each has two words                    *)
  Hosts,      (* memory of the host that is bound, two words each          *)
  Values,     (* of a word                                                 *)
  Callers,    (* goroutines                                                *)
  Offsets,    (* where the guest writes in a bound block                   *)
  MaxBinds    (* bound: how often memory is bound                          *)

VARIABLES
  used,       (* mm.used                                                   *)
  user,       (* the blocks the user was given                             *)
  binds,      (* mm.binds: the hook of every bound block                   *)
  hooks,      (* the memory hooks there are                                *)
  made,       (* how many there were                                       *)
  host,       (* the words of the host                                     *)
  latest,     (* what was written to them last, by the host or the guest   *)
  call        (* the call every goroutine is in                            *)

vars == <<used, user, binds, hooks, made, host, latest, call>>

Size == 2
Words == 0 .. Size - 1
Idle == [op |-> "idle", blocks |-> {}]

(* The heap keeps its promise; what it maps is there from the start *)
heap == INSTANCE Heap WITH Addresses <- Blocks, Sizes <- {Size},
                           memory <- {b + w : b \in Blocks, w \in Words}

Init ==
  /\ used = [b \in {} |-> 0] /\ user = {}
  /\ binds = [b \in {} |-> 0] /\ hooks = {} /\ made = 0
  /\ host = [p \in Hosts |-> [w \in Words |-> CHOOSE v \in Values : TRUE]]
  /\ latest = host
  /\ call = [k \in Callers |-> Idle]

MemAlloc(b) == b \notin DOMAIN used /\ heap!Alloc(b, Size)
MemFree(b) == heap!Free(b)

Enter(k, op, S) == call' = [call EXCEPT ![k] = [op |-> op, blocks |-> S]]
Leave(k) == call' = [call EXCEPT ![k] = Idle]
With(k, op, hook) ==
  call' = [call EXCEPT ![k] = [op |-> op, blocks |-> {hook.addr}, hook |-> hook]]

-----------------------------------------------------------------------------
(* memImport allocates for the value itself, memWrite does not *)
Import(k, b) ==
  /\ call[k] = Idle
  /\ MemAlloc(b)
  /\ Enter(k, "import", {b})
  /\ UNCHANGED <<user, binds, hooks, made, host, latest>>

Write(k) ==
  /\ call[k] = Idle
  /\ Enter(k, "import", {})
  /\ UNCHANGED <<used, user, binds, hooks, made, host, latest>>

(* The encoder allocates for what a pointer, a slice or a string refers to *)
Nested(k, b) ==
  /\ call[k].op = "import"
  /\ MemAlloc(b)
  /\ Enter(k, "import", call[k].blocks \cup {b})
  /\ UNCHANGED <<user, binds, hooks, made, host, latest>>

ImportReturns(k) ==
  /\ call[k].op = "import"
  /\ user' = user \cup call[k].blocks
  /\ Leave(k)
  /\ UNCHANGED <<used, binds, hooks, made, host, latest>>

(* Changed: one of the blocks is forgotten *)
ImportFailsOnce(k) ==
  /\ call[k].op = "import"
  /\ \E b \in call[k].blocks : Enter(k, "undo", call[k].blocks \ {b})
  /\ UNCHANGED <<used, user, binds, hooks, made, host, latest>>

(* The encoder has failed: block after block goes back *)
ImportFails(k) ==
  /\ call[k].op = "import"
  /\ Enter(k, "undo", call[k].blocks)
  /\ UNCHANGED <<used, user, binds, hooks, made, host, latest>>

Undo(k) ==
  /\ call[k].op = "undo"
  /\ \/ /\ \E b \in call[k].blocks : MemFree(b) /\ Enter(k, "undo", call[k].blocks \ {b})
     \/ /\ call[k].blocks = {}
        /\ Leave(k)
        /\ UNCHANGED used
  /\ UNCHANGED <<user, binds, hooks, made, host, latest>>

(* MemFree by the user, who gives bound blocks to memUnbind only *)
UserFrees(b) ==
  /\ b \in user
  /\ MemFree(b)
  /\ user' = user \ {b}
  /\ UNCHANGED <<binds, hooks, made, host, latest, call>>

-----------------------------------------------------------------------------
(* memBind allocates, adds the hook and stores it *)
Bind(k, b, p) ==
  /\ call[k] = Idle /\ made < MaxBinds
  /\ MemAlloc(b)
  /\ made' = made + 1
  /\ With(k, "hook", [addr |-> b, host |-> p, id |-> made'])
  /\ UNCHANGED <<user, binds, hooks, host, latest>>

BindHooks(k) ==
  /\ call[k].op = "hook"
  /\ hooks' = hooks \cup {call[k].hook}
  /\ With(k, "store", call[k].hook)
  /\ UNCHANGED <<used, user, binds, made, host, latest>>

(* The emulator refuses the hook *)
BindFails(k) ==
  /\ call[k].op = "hook"
  /\ \E b \in call[k].blocks : MemFree(b)
  /\ Leave(k)
  /\ UNCHANGED <<user, binds, hooks, made, host, latest>>

BindStores(k) ==
  /\ call[k].op = "store"
  /\ binds' = heap!Put(binds, call[k].hook.addr, call[k].hook)
  /\ Leave(k)
  /\ UNCHANGED <<used, user, hooks, made, host, latest>>

(* memUnbind: two calls for one block, and the second finds nothing *)
Unbind(k, b) ==
  /\ call[k] = Idle
  /\ b \in DOMAIN binds
  /\ binds' = heap!Drop(binds, {b})
  /\ With(k, "close", binds[b])
  /\ UNCHANGED <<used, user, hooks, made, host, latest>>

UnbindCloses(k) ==
  /\ call[k].op = "close"
  /\ hooks' = hooks \ {call[k].hook}
  /\ With(k, "free", call[k].hook)
  /\ UNCHANGED <<used, user, binds, made, host, latest>>

(* memFree of a block that has gone is an error nobody looks at *)
UnbindFrees(k) ==
  /\ call[k].op = "free"
  /\ LET b == call[k].hook.addr IN
     IF b \in DOMAIN used THEN MemFree(b) ELSE UNCHANGED used
  /\ Leave(k)
  /\ UNCHANGED <<user, binds, hooks, made, host, latest>>

(* dtor closes the hooks that are stored; the blocks are then as any other *)
Dtor ==
  /\ binds # [b \in {} |-> 0]
  /\ hooks' = hooks \ {binds[b] : b \in DOMAIN binds}
  /\ user' = user \cup DOMAIN binds
  /\ binds' = [b \in {} |-> 0]
  /\ UNCHANGED <<used, made, host, latest, call>>

-----------------------------------------------------------------------------
(* Accesses.  A guest that reads a bound block gets the words its hooks put *)
(* there, those of the one called last.                                     *)
Reads(b) == {host[h.host] : h \in {g \in hooks : g.addr = b}}

HostWrites(p, w, v) ==
  /\ host' = [host EXCEPT ![p][w] = v]
  /\ latest' = [latest EXCEPT ![p][w] = v]
  /\ UNCHANGED <<used, user, binds, hooks, made, call>>

(* Changed: the second word of a write is dropped *)
StoredFirst(words, offset, size, v) == [words EXCEPT ![offset] = v[1]]

(* The callback's write of size words at offset: size is the parameter of   *)
(* the callback, so only words below size are written                       *)
Stored(words, offset, size, v) ==
  [w \in Words |-> IF w \in offset .. size - 1 THEN v[w - offset + 1] ELSE words[w]]

Meant(words, offset, size, v) ==
  [w \in Words |-> IF w \in offset .. offset + size - 1 THEN v[w - offset + 1]
                   ELSE words[w]]

(* The guest writes to a block that is bound, not half way in or out of it; *)
(* an offset behind size panics                                             *)
GuestWrites(b, offset, size, v) ==
  /\ b \in DOMAIN binds
  /\ offset + size <= Size /\ offset <= size
  /\ host' = [p \in Hosts |->
                IF \E h \in hooks : h.addr = b /\ h.host = p
                THEN Stored(host[p], offset, size, v) ELSE host[p]]
  /\ latest' = [latest EXCEPT ![binds[b].host] = Meant(@, offset, size, v)]
  /\ UNCHANGED <<used, user, binds, hooks, made, call>>

-----------------------------------------------------------------------------
Next ==
  \/ \E k \in Callers :
       \/ \E b \in Blocks :
            Import(k, b) \/ Nested(k, b) \/ Unbind(k, b) \/ \E p \in Hosts : Bind(k, b, p)
       \/ Write(k) \/ ImportReturns(k) \/ ImportFails(k) \/ Undo(k)
       \/ BindHooks(k) \/ BindFails(k) \/ BindStores(k) \/ UnbindCloses(k) \/ UnbindFrees(k)
  \/ \E b \in Blocks : UserFrees(b)
  \/ Dtor
  \/ \E p \in Hosts, w \in Words, v \in Values : HostWrites(p, w, v)
  \/ \E b \in Blocks, offset \in Offsets, size \in 1 .. Size :
       \E v \in [1 .. size -> Values] : GuestWrites(b, offset, size, v)

Spec == Init /\ [][Next]_vars

-----------------------------------------------------------------------------
(* Properties *)

(* Every block in use is the user's, bound, or in the hands of one call:    *)
(* an import or a bind that fails half way leaves nothing behind, and two   *)
(* calls of memUnbind do not free a block that someone else has by then.    *)
BlocksHeld ==
  LET held(k) == call[k].blocks IN
  /\ DOMAIN used = user \cup DOMAIN binds \cup UNION {held(k) : k \in Callers}
  /\ user \cap DOMAIN binds = {}
  /\ \A k, j \in Callers :
       /\ held(k) \cap (user \cup DOMAIN binds) = {}
       /\ k # j => held(k) \cap held(j) = {}

(* A hook watches a block that is still in use and that memUnbind or Close  *)
(* will find: no callback is left on memory that has another owner.         *)
HooksOwned ==
  \A h \in hooks :
    /\ h.addr \in DOMAIN used
    /\ \/ h.addr \in DOMAIN binds /\ binds[h.addr] = h
       \/ \E k \in Callers : call[k].op \in {"store", "close"} /\ call[k].hook = h

(* Whoever wrote last, the host or the guest, a guest that reads a bound    *)
(* block reads what was written.                                            *)
ReadsLatest == \A b \in DOMAIN binds : Reads(b) \subseteq {latest[binds[b].host]}
=============================================================================
