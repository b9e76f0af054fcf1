--------------------------- MODULE FileDescriptors ---------------------------
(***************************************************************************)
(* The guest's file descriptors (fileManager and fileRef in                *)
(* internal/debugger/file.go).  Several descriptors share a file through a *)
(* fileRef, which counts them.  Create, close, dup and dup2 are called by  *)
(* hook callbacks of tasks, which run in goroutines of their own; closing  *)
(* takes two steps, the manager's and the caller's.                        *)
(***************************************************************************)
EXTENDS Integers, FiniteSets

CONSTANTS
  Files,      (* the files that are opened; the host's are Std             *)
  Callers,    (* goroutines that create and close descriptors              *)
  MaxFd,      (* bound: descriptors are numbers up to MaxFd                *)
  DupStd,     (* whether descriptors of the host's files are duplicated    *)
  AnyTarget   (* dup2 goes to any number, or only onto a descriptor in use *)

VARIABLES
  fd,         (* the counter the next number comes from                    *)
  fileMap,    (* the file of every descriptor                              *)
  refs,       (* the files that are in a fileRef                           *)
  count,      (* fileRef.count; of a file in no fileRef, its descriptors   *)
  closes,     (* how often the file itself was closed                      *)
  doing,      (* what every caller still has to do                         *)
  down        (* dtor has run                                              *)

vars == <<fd, fileMap, refs, count, closes, doing, down>>

Std == 0 .. 2
Idle == [step |-> "idle"]
Store(n, f) == [step |-> "store", to |-> n, file |-> f]
Close(f) == [step |-> "close", file |-> f]

Put(map, n, f) == [m \in DOMAIN map \cup {n} |-> IF m = n THEN f ELSE map[m]]
Without(map, n) == [m \in DOMAIN map \ {n} |-> map[m]]

Described(f) == \E n \in DOMAIN fileMap : fileMap[n] = f
InHands(f) == \E c \in Callers : doing[c] # Idle /\ doing[c].file = f

Init ==
  /\ fd = 3
  /\ fileMap = [n \in Std |-> n]
  /\ refs = Std
  /\ count = [f \in Std \cup Files |-> IF f \in Std THEN 0 ELSE 1]
  /\ closes = [f \in Std \cup Files |-> 0]
  /\ doing = [c \in Callers |-> Idle]
  /\ down = FALSE

-----------------------------------------------------------------------------

(* fileRef.Close closes the file when its count gets to 0, and a file that  *)
(* is in no fileRef is closed at once                                       *)
LastOf(f) == f \notin refs \/ count[f] = 1

(* Changed: the file dup2 replaces is not closed *)
SharedOver(o, n) ==
  LET f == fileMap[o] IN
  /\ refs' = refs \cup {f}
  /\ count' = [count EXCEPT ![f] = @ + 1]
  /\ UNCHANGED closes

(* Descriptor n, if any, is closed; then the file of o gets one more.       *)
Shared(o, n) ==
  LET f == fileMap[o]
      old == IF n \in DOMAIN fileMap THEN {fileMap[n]} ELSE {}
  IN  /\ refs' = refs \cup {f}
      /\ count' = [g \in DOMAIN count |->
                     (IF g \in old THEN count[g] - 1 ELSE count[g])
                       + (IF g = f THEN 1 ELSE 0)]
      /\ closes' = [g \in DOMAIN closes |->
                      IF g \in old /\ LastOf(g) THEN closes[g] + 1 ELSE closes[g]]

(* CreateFileDescriptor takes a number first, without the lock, and stores  *)
(* the file after it                                                        *)
Reserve(c, f) ==
  /\ doing[c] = Idle
  /\ ~Described(f) /\ ~InHands(f) /\ closes[f] = 0 /\ ~down
  /\ fd < MaxFd
  /\ fd' = fd + 1
  /\ doing' = [doing EXCEPT ![c] = Store(fd + 1, f)]
  /\ UNCHANGED <<fileMap, refs, count, closes, down>>

(* After dtor the map is nil: the store panics, and the caller keeps the    *)
(* file and the lock                                                        *)
StoreFile(c) ==
  /\ doing[c].step = "store" /\ ~down
  /\ fileMap' = Put(fileMap, doing[c].to, doing[c].file)
  /\ doing' = [doing EXCEPT ![c] = Idle]
  /\ UNCHANGED <<fd, refs, count, closes, down>>

(* CloseFileDescriptor hands the file to its caller, who closes it *)
CloseFileDescriptor(c, n) ==
  /\ doing[c] = Idle
  /\ n \in DOMAIN fileMap
  /\ fileMap' = Without(fileMap, n)
  /\ doing' = [doing EXCEPT ![c] = Close(fileMap[n])]
  /\ UNCHANGED <<fd, refs, count, closes, down>>

CloseFile(c) ==
  /\ doing[c].step = "close"
  /\ LET f == doing[c].file IN
     /\ count' = [count EXCEPT ![f] = @ - 1]
     /\ closes' = IF LastOf(f) THEN [closes EXCEPT ![f] = @ + 1] ELSE closes
  /\ doing' = [doing EXCEPT ![c] = Idle]
  /\ UNCHANGED <<fd, fileMap, refs, down>>

(* Changed: a new fileRef starts at 1, as if its file had one descriptor *)
DupCountsOne(o) ==
  /\ fd < MaxFd
  /\ fd' = fd + 1
  /\ refs' = refs \cup {fileMap[o]}
  /\ count' = [count EXCEPT ![fileMap[o]] = IF fileMap[o] \in refs THEN @ + 1 ELSE 1]
  /\ fileMap' = Put(fileMap, fd + 1, fileMap[o])
  /\ UNCHANGED <<closes, doing, down>>

(* DupFile does not look whether its number is in use *)
DupFile(o) ==
  /\ fd < MaxFd
  /\ fd' = fd + 1
  /\ refs' = refs \cup {fileMap[o]}
  /\ count' = [count EXCEPT ![fileMap[o]] = @ + 1]
  /\ fileMap' = Put(fileMap, fd + 1, fileMap[o])
  /\ UNCHANGED <<closes, doing, down>>

(* Dup2File onto itself and onto 0 to 2 changes nothing *)
Dup2File(o, n) ==
  /\ n # o /\ n >= 3
  /\ Shared(o, n)
  /\ fileMap' = Put(fileMap, n, fileMap[o])
  /\ UNCHANGED <<fd, doing, down>>

(* dtor forgets the descriptors *)
Dtor ==
  /\ ~down
  /\ down' = TRUE
  /\ fileMap' = [n \in {} |-> 0]
  /\ UNCHANGED <<fd, refs, count, closes, doing>>

-----------------------------------------------------------------------------
Dups == {n \in DOMAIN fileMap : DupStd \/ fileMap[n] \notin Std}
Targets == IF AnyTarget THEN 0 .. MaxFd ELSE DOMAIN fileMap

Next ==
  \/ \E c \in Callers :
       \/ \E f \in Files : Reserve(c, f)
       \/ StoreFile(c)
       \/ \E n \in DOMAIN fileMap : CloseFileDescriptor(c, n)
       \/ CloseFile(c)
  \/ \E o \in Dups : DupFile(o) \/ \E n \in Targets : Dup2File(o, n)
  \/ Dtor

Spec == Init /\ [][Next]_vars

-----------------------------------------------------------------------------
(* Properties *)

(* A descriptor has a number the counter has passed and that no caller is   *)
(* about to store to (so a store never replaces a file), and a fileRef      *)
(* counts the descriptors of its file and the callers about to close it.    *)
TypeOK ==
  /\ fd \in 3 .. MaxFd
  /\ DOMAIN fileMap \subseteq 0 .. fd
  /\ \A c \in Callers : doing[c].step = "store" => doing[c].to \notin DOMAIN fileMap
  /\ \A f \in Files : ~down =>
       LET open == {n \in DOMAIN fileMap : fileMap[n] = f}
           held == {c \in Callers : doing[c] = Close(f)}
           new == {c \in Callers : doing[c].step = "store" /\ doing[c].file = f}
       IN  f \in refs \/ open \cup held \cup new # {} =>
             count[f] = Cardinality(open) + Cardinality(held) + Cardinality(new)

(* A file is closed at most once, and never while a descriptor or a caller  *)
(* has it.                                                                  *)
ClosedWithLast ==
  \A f \in Files :
    /\ closes[f] <= 1
    /\ Described(f) \/ InHands(f) => closes[f] = 0

(* The guest cannot close the host's standard files: their descriptors can  *)
(* go, the files stay open.                                                 *)
HostFilesKept == \A f \in Std : closes[f] = 0

(* The last descriptor of a file goes to a caller, and the last one who has *)
(* the file closes it: no step forgets an open file.  dtor forgets all.     *)
NothingForgotten ==
  [][\A f \in Files : (Described(f) \/ InHands(f)) /\ ~down' =>
       Described(f)' \/ InHands(f)' \/ closes'[f] = 1]_vars
=============================================================================
