-------------------------------- MODULE Parts --------------------------------
(***************************************************************************)
(* Components that share no state with the scheduler or with each other:   *)
(* descriptors, the map table, hooks, bindings, sockets, modules, the      *)
(* virtual file system and argument passing on arm64.  A behaviour is one  *)
(* of a part, chosen at its start.                                         *)
(* Goroutines are the callers, clients and tasks of the part; things its   *)
(* files, modules, sockets and directories.                                *)
(***************************************************************************)
EXTENDS Integers, FiniteSets, Sequences

CONSTANTS
  Goroutines, Things,
  MaxFd,                          (* FileDescriptors                       *)
  PageSize, MaxAddr, Starts, Lengths, Sizes,         (* MapTable           *)
  UserHooks, IntrHooks, Count, Regions, GuestCode,   (* HookControl        *)
  Blocks, Hosts, Values, MaxBinds,                   (* Bindings           *)
  First, MaxOpen,                 (* Sockets                               *)
  NoModule,                       (* ModuleList                            *)
  Names, Paths, Handles, Root, Others, NoNode, Octets, MaxData,  (* VirtualFiles *)
  FewNodes, FewClients, FewPaths, (* ... as any caller may use it          *)
  RegCount, PointerSize, ValueSize, SingleStep, StackAlign,
  ArgKinds, RetKinds, MaxArgs, Top                   (* RegStream          *)

VARIABLES
  part,
  fd, fileMap, refs, count, fileCloses, doing, filesDown,
  mapAddr, maps, mapped, mapCall, mapsDown,
  regions, queue, ctrlAddrs, ctrlRange, hooks, at, addr, seen, hookCloses, trap, result,
  used, user, binds, bindHooks, bound, hostMemory, latest, bindCall,
  sockets, address, listener, connection, opened, open, socketCall,
  array, len, moduleCall,
  kind, subs, target, client, handle,
  phase, sent, got, ret, rs

filesVars == <<fd, fileMap, refs, count, fileCloses, doing, filesDown>>
tableVars == <<mapAddr, maps, mapped, mapCall, mapsDown>>
hookVars == <<regions, queue, ctrlAddrs, ctrlRange, hooks, at, addr, seen, hookCloses,
              trap, result>>
bindVars == <<used, user, binds, bindHooks, bound, hostMemory, latest, bindCall>>
socketVars == <<sockets, address, listener, connection, opened, open, socketCall>>
moduleVars == <<array, len, moduleCall>>
virtualVars == <<kind, subs, target, client, handle>>
streamVars == <<phase, sent, got, ret, rs>>
partsVars == <<part, filesVars, tableVars, hookVars, bindVars, socketVars, moduleVars,
               virtualVars, streamVars>>

-----------------------------------------------------------------------------
(* Descriptors of the guest's own files, dup2 onto descriptors in use *)
files == INSTANCE FileDescriptors WITH
  Files <- Things, Callers <- Goroutines,
  DupStd <- FALSE, AnyTarget <- FALSE, closes <- fileCloses, down <- filesDown

(* Calls that overlap in time are about memory of their own *)
Ranges == {r \in Starts \X Lengths : r[1] + r[2] <= MaxAddr}

table == INSTANCE MapTable WITH
  Limit <- MaxAddr, Requests <- Ranges, Callers <- Goroutines, Overlap <- FALSE,
  call <- mapCall, down <- mapsDown

(* Hooks of the user for interrupts, and for memory events *)
control == INSTANCE HookControl WITH
  Tasks <- Goroutines, Done <- UserHooks,
  KindOf <- [h \in UserHooks |-> IF h \in IntrHooks THEN "intr" ELSE "mem"],
  Serial <- TRUE, MaxCloses <- 1, closes <- hookCloses

(* The guest touches bound memory from its first byte on *)
bindings == INSTANCE Bindings WITH
  Callers <- Goroutines, Offsets <- {0},
  hooks <- bindHooks, made <- bound, host <- hostMemory, call <- bindCall

socket == INSTANCE Sockets WITH
  Sockets <- Things \cup {First}, Callers <- Goroutines, Parallel <- FALSE,
  made <- sockets, a <- address, l <- listener, c <- connection, call <- socketCall

modules == INSTANCE ModuleList WITH
  Modules <- Things, Nil <- NoModule, Callers <- Goroutines, Overlap <- FALSE,
  call <- moduleCall

(* Mkdir and Link by one client at a time, no file system linked twice, and *)
(* no Mkdir of a directory handle ...                                       *)
virtual == INSTANCE VirtualFiles WITH
  Clients <- Goroutines, Nodes <- Things \cup {Root} \cup Others,
  Roots <- {Root} \cup Others, None <- NoNode,
  Serial <- TRUE, Alias <- FALSE, DirHandles <- FALSE

(* ... and with all of that; files are a handle's own and may be short *)
aliased == INSTANCE VirtualFiles WITH
  Clients <- FewClients, Nodes <- {Root} \cup FewNodes, Roots <- {Root}, None <- NoNode,
  Paths <- FewPaths, Octets <- {0}, MaxData <- 1,
  Serial <- FALSE, Alias <- TRUE, DirHandles <- TRUE

(* Arguments are sequences of stream operations *)
arm64 == INSTANCE RegStream

(* No file is the host's, and there is memory for a page; guest code and    *)
(* traps are apart                                                          *)
ASSUME PartsAssumption ==
  /\ IsFiniteSet(Things) /\ IsFiniteSet(Goroutines)
  /\ MaxFd \in Nat /\ MaxFd >= 3 /\ Things \cap files!Std = {}
  /\ PageSize \in Nat \ {0} /\ MaxAddr \in Nat /\ PageSize <= MaxAddr
  /\ Starts \subseteq Nat /\ Lengths \subseteq Nat /\ Sizes \subseteq Nat
  /\ NoModule \notin Things
  /\ NoNode \notin Things \cup {Root} \cup Others \cup FewNodes
  /\ MaxData \in Nat
  /\ Paths \subseteq Seq(Names) \ {<< >>} /\ FewPaths \subseteq Seq(Names) \ {<< >>}
  /\ Count \in Nat \ {0} /\ Regions \in Nat
  /\ Goroutines \cap UserHooks = {}
  /\ GuestCode \subseteq Int
  /\ \A g \in GuestCode, r \in 1 .. Regions :
       g \notin control!Base(r) .. control!Base(r) + Count
  /\ RegCount \in Nat /\ PointerSize \in Nat \ {0} /\ SingleStep \in Nat
  /\ ValueSize \in Nat /\ ValueSize >= PointerSize
  /\ StackAlign \in Nat \ {0} /\ Top \in Nat /\ Top % StackAlign = 0
  /\ ArgKinds \cup RetKinds \subseteq
       Seq([op : {"write", "skip", "float", "double", "stream"}, n : Nat])

-----------------------------------------------------------------------------
(* A part that is not chosen stays as it begins *)
Begin ==
  /\ files!Init /\ table!Init /\ control!Init /\ bindings!Init
  /\ socket!Init /\ modules!Init
  /\ \/ part # "aliased" /\ virtual!Init
     \/ part = "aliased" /\ aliased!Init

PartsInit ==
  /\ part \in {"files", "table", "control", "bindings", "socket", "modules",
              "virtual", "aliased", "arm64"}
  /\ Begin /\ arm64!Init

PartsNext ==
  /\ UNCHANGED part
  /\ \/ /\ part = "files" /\ files!Next
        /\ UNCHANGED <<tableVars, hookVars, bindVars, socketVars, moduleVars,
                       virtualVars, streamVars>>
     \/ /\ part = "table" /\ table!Next
        /\ UNCHANGED <<filesVars, hookVars, bindVars, socketVars, moduleVars,
                       virtualVars, streamVars>>
     \/ /\ part = "control" /\ control!Next
        /\ UNCHANGED <<filesVars, tableVars, bindVars, socketVars, moduleVars,
                       virtualVars, streamVars>>
     \/ /\ part = "bindings" /\ bindings!Next
        /\ UNCHANGED <<filesVars, tableVars, hookVars, socketVars, moduleVars,
                       virtualVars, streamVars>>
     \/ /\ part = "socket" /\ socket!Next
        /\ UNCHANGED <<filesVars, tableVars, hookVars, bindVars, moduleVars,
                       virtualVars, streamVars>>
     \/ /\ part = "modules" /\ modules!Next
        /\ UNCHANGED <<filesVars, tableVars, hookVars, bindVars, socketVars,
                       virtualVars, streamVars>>
     \/ /\ \/ part = "virtual" /\ virtual!Next
           \/ part = "aliased" /\ aliased!Next
        /\ UNCHANGED <<filesVars, tableVars, hookVars, bindVars, socketVars, moduleVars,
                       streamVars>>
     \/ /\ part = "arm64" /\ arm64!Next
        /\ UNCHANGED <<filesVars, tableVars, hookVars, bindVars, socketVars, moduleVars,
                       virtualVars>>

PartsSpec == PartsInit /\ [][PartsNext]_partsVars

-----------------------------------------------------------------------------
(* Properties: those of the components, each while its part is the one that *)
(* moves.                                                                   *)

(* A file is closed once, after the last descriptor and the last caller     *)
(* that had it, whatever dup, dup2 and close come in between: no descriptor *)
(* is stored over another, every fileRef counts its descriptors and those   *)
(* who are about to close it, and the standard files of the host stay open. *)
FilesCounted ==
  part = "files" => files!TypeOK /\ files!ClosedWithLast /\ files!HostFilesKept

(* No step of fileManager forgets an open file: the last who has it closes  *)
(* it.                                                                      *)
NothingForgotten == files!NothingForgotten

(* However memory is mapped, split and unmapped, mm.maps covers what the    *)
(* emulator has mapped, but for the calls between the two, in regions that  *)
(* share no byte.                                                           *)
TableAgrees == part = "table" => table!TypeOK /\ table!TableAgrees

(* No trap address is given to two controls, and none is lost               *)
(* (ctrlAddrAlloc, ctrlAddrFree).                                           *)
AddrsAccounted == part = "control" => control!AddrsAccounted

(* A task whose guest returns to its open control is done, whatever hooks   *)
(* of the user and of other tasks there are, and by nothing else: an        *)
(* address given to another control does not end the task that had it.      *)
DoneByReturn == control!ReturnEndsTask /\ control!EndedByOwnReturn

(* An interrupt of guest code behind a region of traps reaches the hooks of *)
(* the user (isControl).                                                    *)
GuestServed == control!GuestServed

(* A block in use is the user's, bound, or with one call: an import or bind *)
(* that fails half way leaves none behind, and no hook of a binding is left *)
(* on a block that has another owner.                                       *)
BlocksHeld == part = "bindings" => bindings!BlocksHeld /\ bindings!HooksOwned

(* A guest that reads a bound block reads what host or guest wrote last     *)
(* (the callback of memBind).                                               *)
ReadsLatest == part = "bindings" => bindings!ReadsLatest

(* A socket is a server or a client and never both, and Close of a socket   *)
(* reaches every listener and connection that is open.                      *)
SocketsAccounted == part = "socket" => socket!OneRole /\ socket!Reachable

(* A lookup finds a module that is loaded all the time it takes, and Unload *)
(* leaves every other module in the list once.                              *)
LoadedIsFound == part = "modules" => modules!LoadedIsFound /\ modules!Settled

(* What Mkdir made and Link linked is found under its path, in a tree where *)
(* only directories have entries; no Read or Write slices beyond the end of *)
(* a file.                                                                  *)
Found ==
  /\ part = "virtual" => virtual!TypeOK /\ virtual!Found
  /\ part = "aliased" => aliased!TypeOK

(* No Mkdir, Link or OpenFile replaces an entry of a directory.             *)
EntriesKept == [][part = "virtual" => virtual!KeepsEntries]_virtualVars

(* Write keeps the bytes before its offset and behind what it writes.       *)
WriteKeepsRest == [][virtual!KeepsRest]_virtualVars

(* ReadDir returns every entry in the end, each of them once.               *)
ListsAll == [][part = "virtual" => virtual!ListsEntries]_virtualVars

(* What a call puts on the stack lies below the caller's and outside the    *)
(* frame of the callee, and every argument begins at a whole register and a *)
(* whole word of the stack.                                                 *)
BelowTheCaller == part = "arm64" => arm64!BelowTheCaller /\ arm64!TypeOK
=============================================================================
