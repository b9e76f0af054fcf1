---------------------------- MODULE VirtualFiles -----------------------------
(***************************************************************************)
(* The file system in memory (filesystem/virtual.go).  Directories keep    *)
(* their entries in a concurrent map; a link forwards to the file system   *)
(* it was made for.  Mkdir and Link go down a path entry by entry, loading *)
(* an entry and storing a new directory in separate steps.  A file lives   *)
(* in the handle that created it.  Paths are sequences of names.           *)
(***************************************************************************)
EXTENDS Integers, Sequences

CONSTANTS
  Names, Clients, Handles,
  Nodes,        (* bound: directories and links that can be made           *)
  Roots, Root,  (* what calls of NewVirtualFS returned, the one paths begin *)
                (* at among them                                           *)
  None,
  Paths,        (* the paths that are used                                 *)
  Octets, MaxData,  (* bound: what is written, and the length of a file    *)
  Serial,       (* whether Mkdir and Link are called by one at a time      *)
  Alias,        (* whether one file system may be linked twice, or nothing *)
  DirHandles    (* whether Mkdir of a directory handle is used             *)

VARIABLES
  kind,         (* of a node: "free", "dir" or "link"                      *)
  subs,         (* the entries of the directories                          *)
  target,       (* where the links lead: to a directory, or nowhere        *)
  client,       (* where each client is in Mkdir or Link                   *)
  handle        (* the open files and directories                          *)

vars == <<kind, subs, target, client, handle>>

(* gone: how many names of the path are behind                              *)
Idle == [at |-> "idle", node |-> None, gone |-> 0, path |-> << >>, link |-> None]
Unused == [kind |-> "none", node |-> None, name |-> None, read |-> {}, listed |-> {},
           data |-> << >>, off |-> 0, access |-> {}]

Init ==
  /\ kind = [n \in Nodes |-> IF n \in Roots THEN "dir" ELSE "free"]
  /\ subs = [n \in Nodes |-> [x \in Names |-> None]]
  /\ target = [n \in Nodes |-> None]
  /\ client = [c \in Clients |-> Idle]
  /\ handle = [h \in Handles |-> Unused]

-----------------------------------------------------------------------------
(* Lookup *)

(* linkFS: every operation is passed on to what the link was made for, and  *)
(* so on; where that ends never changes.                                    *)
Resolve(n) == IF n # None /\ kind[n] = "link" THEN target[n] ELSE n

(* Sub, one name *)
Load(n, x) == IF Resolve(n) = None THEN None ELSE subs[Resolve(n)][x]

(* Sub, after so many names of the path *)
Walk(path) ==
  LET at[k \in 0 .. Len(path)] == IF k = 0 THEN Root ELSE Load(at[k - 1], path[k])
  IN  at
Sub(path) == Walk(path)[Len(path)]

Free == {n \in Nodes : kind[n] = "free"}
Entries(n) == {x \in Names : subs[n][x] # None}

-----------------------------------------------------------------------------
(* dirFS.Mkdir and dirFS.Link *)

Enter(c, state) == client' = [client EXCEPT ![c] = state]

MayBegin(c) ==
  /\ client[c].at \in {"idle", "made", "linked", "failed"}
  /\ Serial => \A d \in Clients : client[d].at # "store" /\ client[d].at # "load"

MkdirBegin(c, path) ==
  /\ MayBegin(c)
  /\ Enter(c, [Idle EXCEPT !.at = "load", !.node = Root, !.path = path])
  /\ UNCHANGED <<kind, subs, target, handle>>

(* Link of a new soft link, or of a directory there is; Mkdir of what is    *)
(* before the last name comes first.  Without Alias one other file system   *)
(* is linked once.                                                          *)
LinkBegin(c, path, n) ==
  /\ MayBegin(c)
  /\ n \in {None} \cup (Nodes \ Free)
  /\ \/ Alias
     \/ n \in Roots \ {Root} /\ target = [m \in Nodes |-> None]
  /\ \E new \in Free :
       /\ kind' = [kind EXCEPT ![new] = "link"]
       /\ target' = [target EXCEPT ![new] = Resolve(n)]
       /\ Enter(c, [Idle EXCEPT !.at = "load", !.node = Root, !.path = path, !.link = new])
  /\ UNCHANGED <<subs, handle>>

LinkEntry(c, path, n) ==
  /\ MayBegin(c)
  /\ Alias /\ kind[n] = "dir"
  /\ Enter(c, [Idle EXCEPT !.at = "load", !.node = Root, !.path = path, !.link = n])
  /\ UNCHANGED <<kind, subs, target, handle>>

(* The names Mkdir has to go through, and the next of them; for Link all    *)
(* but the last                                                             *)
Depth(me) == IF me.link = None THEN Len(me.path) ELSE Len(me.path) - 1
Name(me) == me.path[me.gone + 1]

(* Changed: the first entry found ends the walk *)
MkdirLoadShallow(c) ==
  LET me == client[c]
      next == Load(me.node, Name(me))
  IN  /\ me.at = "load" /\ me.gone < Depth(me)
      /\ IF Resolve(me.node) = None THEN Enter(c, [me EXCEPT !.at = "failed"])
         ELSE IF next = None THEN Enter(c, [me EXCEPT !.at = "store"])
         ELSE Enter(c, [me EXCEPT !.node = next, !.gone = Depth(me)])
      /\ UNCHANGED <<kind, subs, target, handle>>

(* One name: an entry that is loaded is gone into, unless it leads nowhere; *)
(* where there is none a directory is stored.                               *)
MkdirLoad(c) ==
  LET me == client[c]
      next == Load(me.node, Name(me))
  IN  /\ me.at = "load" /\ me.gone < Depth(me)
      /\ IF Resolve(me.node) = None THEN Enter(c, [me EXCEPT !.at = "failed"])
         ELSE IF next = None THEN Enter(c, [me EXCEPT !.at = "store"])
         ELSE Enter(c, [me EXCEPT !.node = next, !.gone = @ + 1])
      /\ UNCHANGED <<kind, subs, target, handle>>

MkdirStore(c) ==
  LET me == client[c]
  IN  /\ me.at = "store"
      /\ \E new \in Free :
           /\ kind' = [kind EXCEPT ![new] = "dir"]
           /\ subs' = [subs EXCEPT ![Resolve(me.node)][Name(me)] = new]
           /\ Enter(c, [me EXCEPT !.at = "load", !.node = new, !.gone = @ + 1])
      /\ UNCHANGED <<target, handle>>

MkdirReturns(c) ==
  /\ client[c].at = "load" /\ client[c].link = None /\ client[c].gone = Depth(client[c])
  /\ Enter(c, [client[c] EXCEPT !.at = "made"])
  /\ UNCHANGED <<kind, subs, target, handle>>

(* Changed: Store, whatever is there *)
LinkStoreOver(c) ==
  LET me == client[c]
      dir == Resolve(me.node)
  IN  /\ me.at = "load" /\ me.link # None /\ me.gone = Depth(me)
      /\ IF dir = None
         THEN Enter(c, [me EXCEPT !.at = "failed"]) /\ UNCHANGED subs
         ELSE /\ subs' = [subs EXCEPT ![dir][Name(me)] = me.link]
              /\ Enter(c, [me EXCEPT !.at = "linked"])
      /\ UNCHANGED <<kind, target, handle>>

(* LoadOrStore *)
LinkStore(c) ==
  LET me == client[c]
      dir == Resolve(me.node)
  IN  /\ me.at = "load" /\ me.link # None /\ me.gone = Depth(me)
      /\ IF dir = None \/ subs[dir][Name(me)] # None
         THEN Enter(c, [me EXCEPT !.at = "failed"]) /\ UNCHANGED subs
         ELSE /\ subs' = [subs EXCEPT ![dir][Name(me)] = me.link]
              /\ Enter(c, [me EXCEPT !.at = "linked"])
      /\ UNCHANGED <<kind, target, handle>>

-----------------------------------------------------------------------------
(* Handles *)

Hold(h, state) == handle' = [handle EXCEPT ![h] = state]

(* OpenFile of a directory or of a link to one: only to read *)
OpenDir(h, path) ==
  /\ handle[h].kind = "none"
  /\ Resolve(Sub(path)) # None
  /\ Hold(h, [Unused EXCEPT !.kind = "dir", !.node = Resolve(Sub(path))])
  /\ UNCHANGED <<kind, subs, target, client>>

(* OpenFile of a name that is not there, to create it; with O_EXCL it fails *)
Create(h, path, access) ==
  LET dir == Resolve(Walk(path)[Len(path) - 1])
  IN  /\ handle[h].kind = "none"
      /\ dir # None /\ subs[dir][path[Len(path)]] = None
      /\ Hold(h, [Unused EXCEPT !.kind = "file", !.node = dir, !.name = path[Len(path)],
                                !.access = access])
      /\ UNCHANGED <<kind, subs, target, client>>

(* file.Seek, to any place inside the file *)
Seek(h, off) ==
  /\ handle[h].kind = "file"
  /\ off >= 0 /\ off < Len(handle[h].data)
  /\ Hold(h, [handle[h] EXCEPT !.off = off])
  /\ UNCHANGED <<kind, subs, target, client>>

(* file.Read *)
Read(h, n) ==
  LET f == handle[h]
      rest == Len(f.data) - f.off
  IN  /\ f.kind = "file" /\ "r" \in f.access /\ rest # 0
      /\ Hold(h, [f EXCEPT !.off = @ + (IF n < rest THEN n ELSE rest)])
      /\ UNCHANGED <<kind, subs, target, client>>

(* Changed: always appended to what is before the offset *)
WriteAppends(h, b) ==
  LET f == handle[h]
  IN  /\ f.kind = "file" /\ "w" \in f.access /\ f.off + Len(b) <= MaxData
      /\ Hold(h, [f EXCEPT !.off = @ + Len(b), !.data = SubSeq(@, 1, f.off) \o b])
      /\ UNCHANGED <<kind, subs, target, client>>

(* file.Write: over what is there when it is long enough, else what is      *)
(* before the offset is kept and the bytes appended                         *)
Write(h, b) ==
  LET f == handle[h]
      n == Len(b)
      over == [i \in DOMAIN f.data |->
                 IF i > f.off /\ i <= f.off + n THEN b[i - f.off] ELSE f.data[i]]
  IN  /\ f.kind = "file" /\ "w" \in f.access /\ f.off + n <= MaxData
      /\ Hold(h, [f EXCEPT !.off = @ + n,
                           !.data = IF Len(@) - f.off >= n THEN over
                                    ELSE SubSeq(@, 1, f.off) \o b])
      /\ UNCHANGED <<kind, subs, target, client>>

(* The entries whose file system a directory handle has not returned yet *)
Unread(f) == {x \in Entries(f.node) : subs[f.node][x] \notin f.read}
(* Changed: the handle keeps in mind entries it has not reached *)
ReadDirSkips(h) ==
  LET f == handle[h]
  IN  /\ f.kind = "dir"
      /\ \E X \in SUBSET Unread(f) :
           Hold(h, [f EXCEPT !.read = @ \cup {subs[f.node][x] : x \in Unread(f)},
                             !.listed = @ \cup X])
      /\ UNCHANGED <<kind, subs, target, client>>

(* dir.ReadDir: entries whose file system this handle has not returned yet; *)
(* Range visits them in any order, and the call fails at one that has no    *)
(* Stat, keeping in mind the ones before it.                                *)
ReadDir(h) ==
  LET f == handle[h]
      fs(X) == {subs[f.node][x] : x \in X}
      good == {x \in Unread(f) : Resolve(subs[f.node][x]) # None}
  IN  /\ f.kind = "dir"
      /\ IF good # Unread(f)
         THEN \E X \in SUBSET good : Hold(h, [f EXCEPT !.read = @ \cup fs(X)])
         ELSE \E X \in SUBSET good :
                /\ fs(X) = fs(good)
                /\ \A x, y \in X : subs[f.node][x] = subs[f.node][y] => x = y
                /\ Hold(h, [f EXCEPT !.read = @ \cup fs(X), !.listed = @ \cup X])
      /\ UNCHANGED <<kind, subs, target, client>>

(* dir.Mkdir *)
HandleMkdir(h, x) ==
  /\ DirHandles /\ handle[h].kind = "dir"
  /\ \E new \in Free :
       /\ kind' = [kind EXCEPT ![new] = "dir"]
       /\ subs' = [subs EXCEPT ![handle[h].node][x] = new]
  /\ UNCHANGED <<target, client, handle>>

-----------------------------------------------------------------------------
Next ==
  \/ \E c \in Clients, path \in Paths :
       \/ MkdirBegin(c, path)
       \/ \E n \in Nodes \cup {None} : LinkBegin(c, path, n)
       \/ \E n \in Nodes : LinkEntry(c, path, n)
  \/ \E c \in Clients : MkdirLoad(c) \/ MkdirStore(c) \/ MkdirReturns(c) \/ LinkStore(c)
  \/ \E h \in Handles, path \in Paths \cup {<< >>} : OpenDir(h, path)
  \/ \E h \in Handles, path \in Paths :
       \E access \in {{"r"}, {"w"}, {"r", "w"}} : Create(h, path, access)
  \/ \E h \in Handles :
       \/ \E off \in 0 .. MaxData : Seek(h, off)
       \/ \E n \in 1 .. MaxData : Read(h, n)
       \/ \E b \in UNION {[1 .. n -> Octets] : n \in 1 .. 2} : Write(h, b)
       \/ ReadDir(h)
       \/ \E x \in Names : HandleMkdir(h, x)

Spec == Init /\ [][Next]_vars

-----------------------------------------------------------------------------
(* Properties *)

(* Only directories have entries, and the offset of a file is inside it,    *)
(* so that no Read or Write slices data beyond its end.                     *)
TypeOK ==
  /\ \A n \in Nodes : Entries(n) # {} => kind[n] = "dir"
  /\ \A n \in Nodes, x \in Names : subs[n][x] # None => kind[subs[n][x]] # "free"
  /\ \A h \in Handles : handle[h].off \in 0 .. Len(handle[h].data)

(* An entry that is there stays what it is: nothing in this file system     *)
(* removes one (Mkdir goes into what it finds, LoadOrStore refuses).        *)
KeepsEntries ==
  \A n \in Nodes, x \in Names : subs[n][x] # None => subs'[n][x] = subs[n][x]
EntriesKept == [][KeepsEntries]_vars

(* The directory a client got from Mkdir is the one its path leads to, and  *)
(* what it linked is found under the name it gave (Mkdir, Link).            *)
Found ==
  \A c \in Clients :
    /\ client[c].at = "made" => Sub(client[c].path) = client[c].node
    /\ client[c].at = "linked" => Sub(client[c].path) = client[c].link

(* Write changes the bytes it is given room for and no others: what is      *)
(* before the offset and what is behind the written bytes stays.            *)
KeepsRest ==
  \A h \in Handles :
    LET f == handle[h]
        g == handle'[h]
    IN  f.kind = "file" /\ g.data # f.data =>
          \A i \in DOMAIN f.data :
            i <= f.off \/ i > g.off => i \in DOMAIN g.data /\ g.data[i] = f.data[i]
WriteKeepsRest == [][KeepsRest]_vars

(* When ReadDir has returned what it has to, every entry was returned at    *)
(* some time (ReadDir passes over what the handle has read before).         *)
ListsEntries ==
  \A h \in Handles :
    handle[h].kind = "dir" /\ handle'[h].read # handle[h].read =>
      Entries(handle[h].node) \subseteq handle'[h].listed
ListsAll == [][ListsEntries]_vars
=============================================================================
