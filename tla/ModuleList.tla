----------------------------- MODULE ModuleList ------------------------------
(***************************************************************************)
(* The loaded modules (internal/debugger/module.go).  Load and Unload hold *)
(* mu; the lookups range over the slice without it.  Unload moves the      *)
(* elements in place, one by one, and clears the end of the array.         *)
(***************************************************************************)
EXTENDS Integers, FiniteSets

CONSTANTS
  Modules,    (* modules, each with a name of its own                      *)
  Nil,        (* what the end of the array is cleared to                   *)
  Callers,    (* goroutines                                                *)
  Overlap     (* whether lookups overlap with Unload                       *)

VARIABLES
  array,      (* the array behind mm.loaded; bound: it has room for all    *)
  len,        (* the length of mm.loaded                                   *)
  call        (* the call every goroutine is in                            *)

vars == <<array, len, call>>

Idle == [op |-> "idle"]
Doing(op) == {k \in Callers : call[k].op = op}

Init ==
  /\ array = [i \in 1 .. Cardinality(Modules) |-> Nil]
  /\ len = 0
  /\ call = [k \in Callers |-> Idle]

Listed == {array[i] : i \in 1 .. len}
Unlocked == Doing("move") = {}

Load(m) ==
  /\ Unlocked /\ m \notin Listed
  /\ array' = [array EXCEPT ![len + 1] = m]
  /\ len' = len + 1
  /\ UNCHANGED call

(* slices.DeleteFunc begins at the first element that goes.  A lookup of    *)
(* the module may or may not find it from here on.                          *)
Unload(k, m) ==
  /\ call[k] = Idle /\ Unlocked
  /\ Overlap \/ Doing("find") = {}
  /\ \E i \in 1 .. len :
       /\ array[i] = m
       /\ call' = [j \in Callers |->
                     IF j = k THEN [op |-> "move", of |-> m, to |-> i, from |-> i + 1]
                     ELSE IF call[j].op = "find" /\ call[j].of = m
                     THEN [call[j] EXCEPT !.sure = FALSE] ELSE call[j]]
  /\ UNCHANGED <<array, len>>

Move(k) ==
  /\ call[k].op = "move" /\ call[k].from <= len
  /\ array' = [array EXCEPT ![call[k].to] = array[call[k].from]]
  /\ call' = [call EXCEPT ![k].from = @ + 1, ![k].to = @ + 1]
  /\ UNCHANGED len

(* The rest is cleared, and the slice gets its new length *)
Clear(k) ==
  /\ call[k].op = "move" /\ call[k].from > len
  /\ array' = [i \in DOMAIN array |-> IF i \in call[k].to .. len THEN Nil ELSE array[i]]
  /\ len' = call[k].to - 1
  /\ call' = [call EXCEPT ![k] = Idle]

(* FindModule, FindModuleByAddr, FindSymbol and GetModule take the length   *)
(* once, and look at one element after the other                            *)
Find(k, m) ==
  /\ call[k] = Idle
  /\ Overlap \/ Unlocked
  /\ call' = [call EXCEPT ![k] = [op |-> "find", of |-> m, i |-> 1, len |-> len,
                                  sure |-> m \in Listed /\ Unlocked]]
  /\ UNCHANGED <<array, len>>

(* Changed: the last element is not looked at *)
LooksBeforeLast(k) == call[k].op = "find" /\ call[k].i < call[k].len

Looks(k) == call[k].op = "find" /\ call[k].i <= call[k].len

Skip(k) ==
  /\ Looks(k) /\ array[call[k].i] \notin {Nil, call[k].of}
  /\ call' = [call EXCEPT ![k].i = @ + 1]
  /\ UNCHANGED <<array, len>>

Found(k) ==
  /\ Looks(k) /\ array[call[k].i] = call[k].of
  /\ call' = [call EXCEPT ![k] = Idle]
  /\ UNCHANGED <<array, len>>

NotFound(k) ==
  /\ call[k].op = "find" /\ ~Looks(k)
  /\ call' = [call EXCEPT ![k] = Idle]
  /\ UNCHANGED <<array, len>>

-----------------------------------------------------------------------------
Next ==
  \/ \E m \in Modules : Load(m)
  \/ \E k \in Callers :
       \/ \E m \in Modules : Unload(k, m) \/ Find(k, m)
       \/ Move(k) \/ Clear(k) \/ Skip(k) \/ Found(k) \/ NotFound(k)

Spec == Init /\ [][Next]_vars

-----------------------------------------------------------------------------
(* Properties *)

(* Between the calls of Load and Unload the slice has every module once and *)
(* nothing else, and the array nothing behind it: an unloaded module is not *)
(* kept alive, and Close closes each module once.                           *)
Settled ==
  Unlocked =>
    /\ \A i \in DOMAIN array : array[i] = Nil <=> i > len
    /\ Cardinality(Listed) = len

(* A lookup finds a module that is loaded from its beginning to its end.    *)
LoadedIsFound ==
  \A k \in Callers :
    call[k].op = "find" /\ call[k].sure =>
      \E i \in call[k].i .. call[k].len : Looks(k) /\ array[i] = call[k].of
=============================================================================
