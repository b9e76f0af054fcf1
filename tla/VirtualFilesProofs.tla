-------------------------- MODULE VirtualFilesProofs --------------------------
(***************************************************************************)
(* Proofs about VirtualFiles, for any names, paths, nodes and clients: its *)
(* tree is one whoever uses it how; used by one client at a time it keeps  *)
(* its entries and leads along every path to what was put there; and a     *)
(* listing is complete when no file system has two names.                  *)
(***************************************************************************)
EXTENDS VirtualFiles, WellFoundedInduction, NaturalsInduction, TLAPS

VirtualConstants ==
  /\ None \notin Nodes /\ Root \in Roots /\ Roots \subseteq Nodes
  /\ Paths \subseteq Seq(Names) \ {<< >>}
  /\ MaxData \in Nat

Optional == Nodes \cup {None}

Calls == [at : {"idle", "load", "store", "made", "linked", "failed"}, node : Optional,
          gone : Nat, path : Paths \cup {<< >>}, link : Optional]

(* A call on its way is at a node that is there, and one that is about to   *)
(* store at a directory.                                                    *)
OnItsWay(me) == me.at \in {"load", "store"}

CallGood(me, kinds, targets) ==
  OnItsWay(me) =>
    /\ me.node \in Nodes /\ kinds[me.node] # "free"
    /\ me.path \in Paths /\ me.gone <= Depth(me)
    /\ me.link # None => kinds[me.link] # "free"
    /\ me.at = "store" => /\ me.gone < Depth(me)
                          /\ kinds[me.node] = "link" => targets[me.node] # None

Records == {f \in [kind : {"none", "dir", "file"}, node : Optional, name : Names \cup {None},
                   read : SUBSET Nodes, listed : SUBSET Names, data : Seq(Octets), off : Nat,
                   access : SUBSET {"r", "w"}] : f.off <= Len(f.data)}

(* The nodes of a tree: only directories have entries, what is an entry is  *)
(* there, and links lead to directories.                                    *)
Tree ==
  /\ kind \in [Nodes -> {"free", "dir", "link"}]
  /\ subs \in [Nodes -> [Names -> Optional]]
  /\ target \in [Nodes -> Optional]
  /\ \A n \in Roots : kind[n] = "dir"
  /\ \A n \in Nodes, x \in Names :
       subs[n][x] # None => kind[n] = "dir" /\ kind[subs[n][x]] # "free"
  /\ \A n \in Nodes : target[n] # None => kind[target[n]] = "dir"

ClientsGood ==
  /\ client \in [Clients -> Calls]
  /\ \A c \in Clients : CallGood(client[c], kind, target)

HandlesGood ==
  /\ handle \in [Handles -> Records]
  /\ \A h \in Handles : handle[h].kind = "dir" =>
       handle[h].node \in Nodes /\ kind[handle[h].node] = "dir"

Typed == Tree /\ ClientsGood /\ HandlesGood

(* By one client at a time: who is on its way has come along its path, and  *)
(* where it is about to store there is still no entry.                      *)
OnPath(c) ==
  LET me == client[c] IN
  /\ OnItsWay(me) => Walk(me.path)[me.gone] = me.node
  /\ me.at = "store" => Load(me.node, Name(me)) = None
  /\ me.at = "made" => me.node # None /\ me.path \in Paths
  /\ me.at = "linked" => me.link # None /\ me.path \in Paths

Alone == \A c, d \in Clients : OnItsWay(client[c]) /\ OnItsWay(client[d]) => c = d

AlongPaths == Alone /\ (\A c \in Clients : OnPath(c)) /\ Found

(* No file system has two names, and a link that Link has still to store    *)
(* has none; a handle has returned the entries it keeps in mind.            *)
OneName ==
  /\ \A n, m \in Nodes, x, y \in Names :
       subs[n][x] # None /\ subs[n][x] = subs[m][y] => n = m /\ x = y
  /\ \A c \in Clients : OnItsWay(client[c]) /\ client[c].link # None =>
       \A n \in Nodes, x \in Names : subs[n][x] # client[c].link
  /\ \A n \in Nodes : kind[n] = "link" => target[n] # None

Remembered(f) ==
  f.kind = "dir" =>
    /\ \A g \in f.read : \E x \in Names : subs[f.node][x] = g
    /\ \A x \in Entries(f.node) : subs[f.node][x] \in f.read => x \in f.listed

AllListed == OneName /\ \A h \in Handles : Remembered(handle[h])

-----------------------------------------------------------------------------
(* Nodes and links                                                          *)

(* What a node leads to is a directory, or nothing.                         *)
LEMMA ResolveDir ==
  ASSUME VirtualConstants, Tree, NEW n \in Optional, n # None => kind[n] # "free"
  PROVE  /\ Resolve(n) \in Optional
         /\ Resolve(n) # None => Resolve(n) \in Nodes /\ kind[Resolve(n)] = "dir"
<1>1. CASE n = None
  BY <1>1 DEF Resolve, Optional
<1>2. CASE n # None /\ kind[n] = "link"
  <2>1. Resolve(n) = target[n] /\ n \in Nodes
    BY <1>2 DEF Resolve, Optional
  <2>2. QED
    BY <2>1 DEF Tree, Optional
<1>3. CASE n # None /\ kind[n] # "link"
  <2>1. Resolve(n) = n /\ n \in Nodes
    BY <1>3 DEF Resolve, Optional
  <2>2. QED
    BY <1>3, <2>1 DEF Tree, Optional
<1>4. QED
  BY <1>1, <1>2, <1>3

(* What is loaded there is there.                                           *)
LEMMA LoadThere ==
  ASSUME VirtualConstants, Tree, NEW n \in Optional, n # None => kind[n] # "free",
         NEW x \in Names
  PROVE  /\ Load(n, x) \in Optional
         /\ Load(n, x) # None => Load(n, x) \in Nodes /\ kind[Load(n, x)] # "free"
<1>1. CASE Resolve(n) = None
  BY <1>1 DEF Load, Optional
<1>2. CASE Resolve(n) # None
  <2>1. Resolve(n) \in Nodes /\ Load(n, x) = subs[Resolve(n)][x]
    BY <1>2, ResolveDir DEF Load
  <2>2. QED
    BY <2>1 DEF Tree, Optional
<1>3. QED
  BY <1>1, <1>2

-----------------------------------------------------------------------------
(* Paths                                                                    *)

(* A set of numbers that is not empty has a least one.                      *)
LEMMA LeastOf ==
  ASSUME NEW T, T \subseteq Nat, T # {}
  PROVE  \E x \in T : \A y \in T : x <= y
<1> DEFINE less == {p \in Nat \X Nat : p[1] < p[2]}
<1>1. IsWellFoundedOn(less, Nat)
  BY NatLessThanWellFounded DEF OpToRel
<1>2. PICK x \in T : \A y \in T : <<y, x>> \notin less
  <2> HIDE DEF less
  <2>1. QED
    BY <1>1, WFMin
<1>3. ASSUME NEW y \in T, y < x PROVE FALSE
  <2>1. <<y, x>> \in less
    BY <1>3
  <2>2. QED
    BY <1>2, <2>1
<1>4. QED
  BY <1>3

(* What holds of 0, and of k + 1 when of k, holds of every number.          *)
LEMMA EveryNumber ==
  ASSUME NEW T, 0 \in T, \A k \in Nat : k \in T => k + 1 \in T
  PROVE  Nat \subseteq T
<1>1. SUFFICES ASSUME Nat \ T # {} PROVE FALSE
  OBVIOUS
<1>2. PICK x \in Nat \ T : \A y \in Nat \ T : x <= y
  BY <1>1, LeastOf
<1>3. x # 0 /\ x - 1 \in Nat
  BY <1>2
<1>4. x - 1 \in T
  BY <1>2, <1>3
<1>5. QED
  BY <1>3, <1>4

(* A path has a name at least.                                              *)
LEMMA PathNames ==
  ASSUME VirtualConstants, NEW path \in Paths
  PROVE  /\ Len(path) \in Nat /\ Len(path) > 0
         /\ \A i \in 1 .. Len(path) : path[i] \in Names
<1>1. path \in Seq(Names) /\ path # << >>
  BY DEF VirtualConstants
<1>2. QED
  BY <1>1

(* The recursive function of Walk exists: so many names can be gone         *)
(* through.                                                                 *)
WalkOf(f, n, path) ==
  f = [k \in 0 .. n |-> IF k = 0 THEN Root ELSE Load(f[k - 1], path[k])]

LEMMA WalkExists ==
  ASSUME NEW path, NEW n \in Nat
  PROVE  \E f : WalkOf(f, n, path)
<1> DEFINE T == {m \in Nat : \E f : WalkOf(f, m, path)}
<1>1. 0 \in T
  <2>1. WalkOf([k \in 0 .. 0 |-> Root], 0, path)
    BY DEF WalkOf
  <2>2. QED
    BY <2>1
<1>2. ASSUME NEW m \in Nat, m \in T PROVE m + 1 \in T
  <2>1. PICK f : WalkOf(f, m, path)
    BY <1>2
  <2> DEFINE g == [k \in 0 .. m + 1 |-> IF k = m + 1 THEN Load(f[m], path[m + 1]) ELSE f[k]]
  <2>2. \A k \in 0 .. m : f[k] = IF k = 0 THEN Root ELSE Load(f[k - 1], path[k])
    BY <2>1 DEF WalkOf
  <2>3. ASSUME NEW k \in 0 .. m + 1
        PROVE  g[k] = IF k = 0 THEN Root ELSE Load(g[k - 1], path[k])
    <3>1. CASE k = m + 1
      BY <3>1
    <3>2. CASE k # m + 1
      <4>1. k \in 0 .. m /\ g[k] = f[k]
        BY <3>2
      <4>2. k # 0 => k - 1 \in 0 .. m /\ g[k - 1] = f[k - 1]
        BY <3>2
      <4>3. QED
        BY <2>2, <4>1, <4>2
    <3>3. QED
      BY <3>1, <3>2
  <2>4. WalkOf(g, m + 1, path)
    <3>1. g = [k \in 0 .. m + 1 |-> g[k]]
      OBVIOUS
    <3> HIDE DEF g
    <3>2. QED
      BY <2>3, <3>1 DEF WalkOf
  <2>5. QED
    BY <2>4
<1>3. Nat \subseteq T
  <2> HIDE DEF T
  <2>1. QED
    BY <1>1, <1>2, EveryNumber
<1>4. QED
  BY <1>3

(* Walk goes through a path name by name.                                   *)
LEMMA WalkSteps ==
  \A path : Len(path) \in Nat =>
    /\ Walk(path)[0] = Root
    /\ \A k \in Nat : k < Len(path) =>
         Walk(path)[k + 1] = Load(Walk(path)[k], path[k + 1])
<1>1. SUFFICES ASSUME NEW path, Len(path) \in Nat
               PROVE  /\ Walk(path)[0] = Root
                      /\ \A k \in Nat : k < Len(path) =>
                           Walk(path)[k + 1] = Load(Walk(path)[k], path[k + 1])
  OBVIOUS
<1> DEFINE n == Len(path)
           Is(f) == f = [k \in 0 .. n |-> IF k = 0 THEN Root ELSE Load(f[k - 1], path[k])]
           at == CHOOSE f : Is(f)
<1>2. \E f : Is(f)
  <2> HIDE DEF n
  <2>1. n \in Nat
    BY <1>1 DEF n
  <2>2. QED
    BY <2>1, WalkExists DEF WalkOf
<1>3. Is(at)
  <2> HIDE DEF Is
  <2>1. QED
    BY <1>2
<1>4. Walk(path) = at
  BY DEF Walk
<1> HIDE DEF at
<1>5. \A k \in 0 .. n : at[k] = IF k = 0 THEN Root ELSE Load(at[k - 1], path[k])
  BY <1>3
<1> HIDE DEF n
<1>6. n \in Nat
  BY <1>1 DEF n
<1>7. at[0] = Root
  BY <1>5, <1>6
<1>8. ASSUME NEW k \in Nat, k < n PROVE at[k + 1] = Load(at[k], path[k + 1])
  <2>1. k + 1 \in 0 .. n /\ k + 1 # 0 /\ (k + 1) - 1 = k
    BY <1>6, <1>8
  <2>2. QED
    BY <1>5, <2>1
<1>9. QED
  BY <1>4, <1>7, <1>8 DEF n

(* A walk stays among the nodes that are there.                             *)
LEMMA WalkThere ==
  ASSUME VirtualConstants, Tree, NEW path \in Paths, NEW k \in Nat, k <= Len(path)
  PROVE  /\ Walk(path)[k] \in Optional
         /\ Walk(path)[k] # None => Walk(path)[k] \in Nodes /\ kind[Walk(path)[k]] # "free"
<1> DEFINE Good(n) == n \in Optional /\ (n # None => n \in Nodes /\ kind[n] # "free")
           T == {j \in Nat : j <= Len(path) => Good(Walk(path)[j])}
<1>1. Len(path) \in Nat /\ \A i \in 1 .. Len(path) : path[i] \in Names
  BY PathNames
<1>2. 0 \in T
  <2>1. Walk(path)[0] = Root
    BY <1>1, WalkSteps
  <2>2. Root \in Nodes /\ kind[Root] # "free"
    BY DEF VirtualConstants, Tree
  <2>3. QED
    BY <2>1, <2>2 DEF Optional
<1>3. ASSUME NEW j \in Nat, j \in T PROVE j + 1 \in T
  <2>1. SUFFICES ASSUME j + 1 <= Len(path) PROVE Good(Walk(path)[j + 1])
    OBVIOUS
  <2>2. Good(Walk(path)[j]) /\ j < Len(path) /\ path[j + 1] \in Names
    BY <1>1, <1>3, <2>1
  <2>3. Walk(path)[j + 1] = Load(Walk(path)[j], path[j + 1])
    BY <1>1, <2>2, WalkSteps
  <2>4. QED
    BY <2>2, <2>3, LoadThere
<1>4. k \in T
  <2> HIDE DEF T
  <2>1. QED
    BY <1>2, <1>3, EveryNumber
<1>5. QED
  BY <1>4

-----------------------------------------------------------------------------
(* What stays                                                               *)

KindsKept ==
  \A n \in Nodes : kind[n] # "free" => kind'[n] = kind[n] /\ target'[n] = target[n]

(* Who moves no further than its call allows leaves the clients as they     *)
(* should be.                                                               *)
LEMMA ClientMoves ==
  ASSUME ClientsGood, KindsKept, NEW c \in Clients, NEW v \in Calls,
         client' = [client EXCEPT ![c] = v], CallGood(v, kind', target')
  PROVE  ClientsGood'
<1>1. /\ client' \in [Clients -> Calls] /\ client'[c] = v
      /\ \A d \in Clients \ {c} : client'[d] = client[d]
  BY DEF ClientsGood
<1>2. ASSUME NEW d \in Clients \ {c} PROVE CallGood(client'[d], kind', target')
  <2>1. client'[d] = client[d] /\ CallGood(client[d], kind, target)
    BY <1>1 DEF ClientsGood
  <2>2. client[d].link \in Optional
    BY DEF ClientsGood, Calls
  <2>3. QED
    BY <2>1, <2>2 DEF CallGood, KindsKept, Optional
<1>3. QED
  BY <1>1, <1>2 DEF ClientsGood

LEMMA ClientsStay ==
  ASSUME ClientsGood, KindsKept, UNCHANGED client
  PROVE  ClientsGood'
<1>1. ASSUME NEW d \in Clients PROVE CallGood(client[d], kind', target')
  <2>1. CallGood(client[d], kind, target) /\ client[d].link \in Optional
    BY DEF ClientsGood, Calls
  <2>2. QED
    BY <2>1 DEF CallGood, KindsKept, Optional
<1>2. QED
  BY <1>1 DEF ClientsGood

LEMMA HandlesStay ==
  ASSUME HandlesGood, KindsKept, UNCHANGED handle
  PROVE  HandlesGood'
BY DEF HandlesGood, KindsKept

LEMMA HandleMoves ==
  ASSUME HandlesGood, UNCHANGED kind, NEW h \in Handles, NEW v \in Records,
         handle' = [handle EXCEPT ![h] = v],
         v.kind = "dir" => v.node \in Nodes /\ kind[v.node] = "dir"
  PROVE  HandlesGood'
BY DEF HandlesGood

(* Without a change of kinds and links the tree is one if its entries stay  *)
(* or a node that is there becomes an entry of a directory.                 *)
LEMMA TreeGrows ==
  ASSUME Tree, UNCHANGED <<kind, target>>, NEW d \in Nodes, kind[d] = "dir",
         NEW x \in Names, NEW n \in Nodes, kind[n] # "free",
         subs' = [subs EXCEPT ![d][x] = n]
  PROVE  Tree'
<1>1. subs' \in [Nodes -> [Names -> Optional]]
  BY DEF Tree, Optional
<1>2. ASSUME NEW m \in Nodes, NEW y \in Names, subs'[m][y] # None
      PROVE  kind[m] = "dir" /\ kind[subs'[m][y]] # "free"
  <2>1. CASE m = d /\ y = x
    BY <2>1 DEF Tree
  <2>2. CASE ~(m = d /\ y = x)
    <3>1. subs'[m][y] = subs[m][y]
      BY <2>2 DEF Tree
    <3>2. QED
      BY <1>2, <3>1 DEF Tree
  <2>3. QED
    BY <2>1, <2>2
<1>3. QED
  BY <1>1, <1>2 DEF Tree

(* A new directory is one that was not there.                               *)
LEMMA NewDir ==
  ASSUME VirtualConstants, Tree, NEW d \in Nodes, kind[d] = "dir", NEW x \in Names,
         NEW new \in Free, kind' = [kind EXCEPT ![new] = "dir"],
         subs' = [subs EXCEPT ![d][x] = new], UNCHANGED target
  PROVE  Tree' /\ KindsKept
<1>1. new \in Nodes /\ kind[new] = "free"
  BY DEF Free
<1>2. /\ kind' \in [Nodes -> {"free", "dir", "link"}] /\ kind'[new] = "dir"
      /\ \A n \in Nodes \ {new} : kind'[n] = kind[n]
  BY <1>1 DEF Tree
<1>3. KindsKept
  BY <1>1, <1>2 DEF KindsKept
<1>4. subs' \in [Nodes -> [Names -> Optional]]
  BY <1>1 DEF Tree, Optional
<1>5. ASSUME NEW m \in Nodes, NEW y \in Names, subs'[m][y] # None
      PROVE  kind'[m] = "dir" /\ kind'[subs'[m][y]] # "free"
  <2>1. CASE m = d /\ y = x
    <3>1. subs'[m][y] = new
      BY <2>1 DEF Tree
    <3>2. QED
      BY <1>1, <1>2, <2>1, <3>1
  <2>2. CASE ~(m = d /\ y = x)
    <3>1. subs'[m][y] = subs[m][y]
      BY <2>2 DEF Tree
    <3>2. kind[m] = "dir" /\ kind[subs[m][y]] # "free" /\ subs[m][y] \in Nodes
      BY <1>5, <3>1 DEF Tree, Optional
    <3>3. QED
      BY <1>1, <1>2, <3>1, <3>2
  <2>3. QED
    BY <2>1, <2>2
<1>6. \A n \in Roots : kind'[n] = "dir"
  BY <1>3 DEF KindsKept, Tree, VirtualConstants
<1>7. ASSUME NEW n \in Nodes, target'[n] # None PROVE kind'[target'[n]] = "dir"
  <2>1. target[n] \in Nodes /\ kind[target[n]] = "dir"
    BY <1>7 DEF Tree, Optional
  <2>2. QED
    BY <1>3, <2>1 DEF KindsKept
<1>8. target' \in [Nodes -> Optional]
  BY DEF Tree
<1>9. Tree'
  BY <1>2, <1>4, <1>5, <1>6, <1>7, <1>8 DEF Tree
<1>10. QED
  BY <1>3, <1>9

(* A new link is one, too, and leads to a directory or nowhere.             *)
LEMMA NewLink ==
  ASSUME VirtualConstants, Tree, NEW n \in Optional, n # None => kind[n] # "free",
         NEW new \in Free, kind' = [kind EXCEPT ![new] = "link"],
         target' = [target EXCEPT ![new] = Resolve(n)], UNCHANGED subs
  PROVE  Tree' /\ KindsKept
<1>1. new \in Nodes /\ kind[new] = "free"
  BY DEF Free
<1>2. /\ kind' \in [Nodes -> {"free", "dir", "link"}] /\ kind'[new] = "link"
      /\ \A m \in Nodes \ {new} : kind'[m] = kind[m]
  BY <1>1 DEF Tree
<1>3. Resolve(n) \in Optional /\ (Resolve(n) # None => kind[Resolve(n)] = "dir")
  BY ResolveDir
<1>4. /\ target' \in [Nodes -> Optional] /\ target'[new] = Resolve(n)
      /\ \A m \in Nodes \ {new} : target'[m] = target[m]
  BY <1>1, <1>3 DEF Tree
<1>5. KindsKept
  BY <1>1, <1>2, <1>4 DEF KindsKept
<1>6. ASSUME NEW m \in Nodes, NEW y \in Names, subs'[m][y] # None
      PROVE  kind'[m] = "dir" /\ kind'[subs'[m][y]] # "free"
  <2>1. kind[m] = "dir" /\ kind[subs[m][y]] # "free" /\ subs[m][y] \in Nodes
    BY <1>6 DEF Tree, Optional
  <2>2. QED
    BY <1>1, <1>2, <2>1
<1>7. \A m \in Roots : kind'[m] = "dir"
  BY <1>5 DEF KindsKept, Tree, VirtualConstants
<1>8. ASSUME NEW m \in Nodes, target'[m] # None PROVE kind'[target'[m]] = "dir"
  <2>1. target'[m] \in Nodes /\ kind[target'[m]] = "dir"
    BY <1>3, <1>4, <1>8 DEF Tree, Optional
  <2>2. QED
    BY <1>1, <1>2, <2>1
<1>9. subs' \in [Nodes -> [Names -> Optional]]
  BY DEF Tree
<1>10. Tree'
  BY <1>2, <1>4, <1>6, <1>7, <1>8, <1>9 DEF Tree
<1>11. QED
  BY <1>5, <1>10

-----------------------------------------------------------------------------
(* The tree is one, whoever uses it how                                     *)

(* The fields of a call, as it moves.                                       *)
LEMMA CallFields ==
  ASSUME NEW me \in Calls,
         NEW at \in {"idle", "load", "store", "made", "linked", "failed"}
  PROVE  /\ [me EXCEPT !.at = at] \in Calls
         /\ [me EXCEPT !.at = at].at = at /\ [me EXCEPT !.at = at].node = me.node
         /\ [me EXCEPT !.at = at].gone = me.gone /\ [me EXCEPT !.at = at].path = me.path
         /\ [me EXCEPT !.at = at].link = me.link
BY DEF Calls

LEMMA CallGoesOn ==
  ASSUME NEW me \in Calls, NEW node \in Optional, NEW v, me.at = "load",
         v = [me EXCEPT !.node = node, !.gone = @ + 1]
  PROVE  /\ v \in Calls /\ v.at = "load" /\ v.node = node /\ v.gone = me.gone + 1
         /\ v.path = me.path /\ v.link = me.link
<1>1. /\ me.gone \in Nat /\ me.path \in Paths \cup {<< >>} /\ me.link \in Optional
  BY DEF Calls
<1>2. v = [at |-> "load", node |-> node, gone |-> me.gone + 1, path |-> me.path,
           link |-> me.link]
  BY DEF Calls
<1>3. QED
  BY <1>1, <1>2 DEF Calls

LEMMA DepthType ==
  ASSUME VirtualConstants, NEW me, me.path \in Paths
  PROVE  Depth(me) \in Nat /\ Depth(me) <= Len(me.path)
BY PathNames DEF Depth

(* A call that begins: at the root, with a link that is there or none.      *)
LEMMA Begun ==
  ASSUME VirtualConstants, NEW path \in Paths, NEW link \in Optional, NEW kinds, NEW targets,
         kinds[Root] # "free", link # None => kinds[link] # "free", NEW v,
         \/ v = [Idle EXCEPT !.at = "load", !.node = Root, !.path = path, !.link = link]
         \/ link = None /\ v = [Idle EXCEPT !.at = "load", !.node = Root, !.path = path]
  PROVE  /\ v = [at |-> "load", node |-> Root, gone |-> 0, path |-> path, link |-> link]
         /\ v \in Calls /\ CallGood(v, kinds, targets)
<1>1. Root \in Nodes
  BY DEF VirtualConstants
<1>2. v = [at |-> "load", node |-> Root, gone |-> 0, path |-> path, link |-> link]
  <2>1. CASE v = [Idle EXCEPT !.at = "load", !.node = Root, !.path = path, !.link = link]
    BY <2>1 DEF Idle
  <2>2. CASE link = None /\ v = [Idle EXCEPT !.at = "load", !.node = Root, !.path = path]
    BY <2>2 DEF Idle
  <2>3. QED
    BY <2>1, <2>2
<1>3. v \in Calls
  BY <1>1, <1>2 DEF Calls, Optional
<1>4. v.at = "load" /\ v.node = Root /\ v.gone = 0 /\ v.path = path /\ v.link = link
  BY <1>2
<1>5. Depth(v) \in Nat
  BY <1>4, DepthType
<1>6. CallGood(v, kinds, targets)
  BY <1>1, <1>4, <1>5 DEF CallGood
<1>7. QED
  BY <1>2, <1>3, <1>6

LEMMA MkdirBeginTyped ==
  ASSUME VirtualConstants, Typed, NEW c \in Clients, NEW path \in Paths, MkdirBegin(c, path)
  PROVE  Typed'
<1> DEFINE v == [Idle EXCEPT !.at = "load", !.node = Root, !.path = path]
<1>1. client' = [client EXCEPT ![c] = v] /\ UNCHANGED <<kind, subs, target, handle>>
  BY DEF MkdirBegin, Enter
<1>2. Tree' /\ KindsKept
  BY <1>1 DEF Typed, Tree, KindsKept
<1>3. v \in Calls /\ CallGood(v, kind, target)
  <2>1. None \in Optional /\ kind[Root] # "free" /\ Tree
    BY DEF Optional, Typed, Tree, VirtualConstants
  <2>2. QED
    BY <2>1, Begun
<1> HIDE DEF v
<1>4. ClientsGood'
  <2>1. CallGood(v, kind', target')
    BY <1>1, <1>3
  <2>2. QED
    BY <1>1, <1>2, <1>3, <2>1, ClientMoves DEF Typed
<1>5. HandlesGood'
  BY <1>1, <1>2, HandlesStay DEF Typed
<1>6. QED
  BY <1>2, <1>4, <1>5 DEF Typed

LEMMA LinkBeginTyped ==
  ASSUME VirtualConstants, Typed, NEW c \in Clients, NEW path \in Paths,
         NEW n \in Optional, LinkBegin(c, path, n)
  PROVE  Typed' /\ KindsKept
<1> DEFINE v(new) == [Idle EXCEPT !.at = "load", !.node = Root, !.path = path, !.link = new]
<1>1. PICK new \in Free :
        /\ kind' = [kind EXCEPT ![new] = "link"]
        /\ target' = [target EXCEPT ![new] = Resolve(n)]
        /\ client' = [client EXCEPT ![c] = v(new)]
  BY DEF LinkBegin, Enter
<1>2. UNCHANGED <<subs, handle>> /\ (n # None => kind[n] # "free")
  BY DEF LinkBegin, Free
<1>3. Tree' /\ KindsKept
  BY <1>1, <1>2, NewLink DEF Typed
<1>4. v(new) \in Calls /\ CallGood(v(new), kind', target')
  <2>1. new \in Nodes /\ kind'[new] # "free" /\ kind'[Root] # "free"
    BY <1>1, <1>3 DEF Free, Typed, Tree, VirtualConstants
  <2>2. new \in Optional /\ Tree
    BY <2>1 DEF Optional, Typed
  <2>3. v(new) = [Idle EXCEPT !.at = "load", !.node = Root, !.path = path, !.link = new]
    OBVIOUS
  <2> HIDE DEF v
  <2>4. QED
    BY <2>1, <2>2, <2>3, Begun
<1> HIDE DEF v
<1>5. ClientsGood'
  BY <1>1, <1>3, <1>4, ClientMoves DEF Typed
<1>6. HandlesGood'
  BY <1>2, <1>3, HandlesStay DEF Typed
<1>7. QED
  BY <1>3, <1>5, <1>6 DEF Typed

LEMMA LinkEntryTyped ==
  ASSUME VirtualConstants, Typed, NEW c \in Clients, NEW path \in Paths,
         NEW n \in Nodes, LinkEntry(c, path, n)
  PROVE  Typed'
<1> DEFINE v == [Idle EXCEPT !.at = "load", !.node = Root, !.path = path, !.link = n]
<1>1. /\ client' = [client EXCEPT ![c] = v]
      /\ kind[n] = "dir" /\ UNCHANGED <<kind, subs, target, handle>>
  BY DEF LinkEntry, Enter
<1>2. Tree' /\ KindsKept
  BY <1>1 DEF Typed, Tree, KindsKept
<1>3. v \in Calls /\ CallGood(v, kind, target)
  <2>1. kind[Root] # "free" /\ kind[n] # "free" /\ n \in Optional /\ Tree
    BY <1>1 DEF Typed, Tree, VirtualConstants, Optional
  <2>2. QED
    BY <2>1, Begun
<1> HIDE DEF v
<1>4. ClientsGood'
  <2>1. CallGood(v, kind', target')
    BY <1>1, <1>3
  <2>2. QED
    BY <1>1, <1>2, <1>3, <2>1, ClientMoves DEF Typed
<1>5. HandlesGood'
  BY <1>1, <1>2, HandlesStay DEF Typed
<1>6. QED
  BY <1>2, <1>4, <1>5 DEF Typed

(* What a call on its way has.                                              *)
LEMMA OnItsWayHas ==
  ASSUME VirtualConstants, Typed, NEW c \in Clients, OnItsWay(client[c])
  PROVE  /\ client[c] \in Calls
         /\ client[c].node \in Nodes /\ kind[client[c].node] # "free"
         /\ client[c].path \in Paths
         /\ client[c].gone \in Nat /\ client[c].gone <= Depth(client[c])
         /\ Depth(client[c]) \in Nat /\ Depth(client[c]) <= Len(client[c].path)
         /\ client[c].gone < Len(client[c].path) => Name(client[c]) \in Names
         /\ client[c].link \in Optional
         /\ client[c].link # None => kind[client[c].link] # "free"
<1>1. client[c] \in Calls /\ CallGood(client[c], kind, target)
  BY DEF Typed, ClientsGood
<1>2. /\ client[c].gone \in Nat /\ client[c].link \in Optional
  BY <1>1 DEF Calls
<1>3. /\ client[c].node \in Nodes /\ kind[client[c].node] # "free"
      /\ client[c].path \in Paths /\ client[c].gone <= Depth(client[c])
      /\ client[c].link # None => kind[client[c].link] # "free"
  BY <1>1 DEF CallGood
<1>4. Depth(client[c]) \in Nat /\ Depth(client[c]) <= Len(client[c].path)
  BY <1>3, DepthType
<1>5. client[c].gone < Len(client[c].path) => Name(client[c]) \in Names
  <2>1. /\ Len(client[c].path) \in Nat
        /\ \A i \in 1 .. Len(client[c].path) : client[c].path[i] \in Names
    BY <1>3, PathNames
  <2>2. QED
    BY <1>2, <2>1 DEF Name
<1>6. QED
  BY <1>1, <1>2, <1>3, <1>4, <1>5

LEMMA MkdirLoadTyped ==
  ASSUME VirtualConstants, Typed, NEW c \in Clients, MkdirLoad(c)
  PROVE  Typed'
<1> DEFINE me == client[c]
           next == Load(me.node, Name(me))
<1>1. me.at = "load" /\ me.gone < Depth(me) /\ UNCHANGED <<kind, subs, target, handle>>
  BY DEF MkdirLoad
<1>2. Tree' /\ KindsKept /\ HandlesGood'
  <2>1. Tree' /\ KindsKept
    BY <1>1 DEF Typed, Tree, KindsKept
  <2>2. QED
    BY <1>1, <2>1, HandlesStay DEF Typed
<1>3. /\ me \in Calls /\ me.node \in Nodes /\ kind[me.node] # "free" /\ me.path \in Paths
      /\ me.gone \in Nat /\ Depth(me) \in Nat /\ Name(me) \in Names
      /\ me.link \in Optional /\ (me.link # None => kind[me.link] # "free")
  <2>1. OnItsWay(me)
    BY <1>1 DEF OnItsWay
  <2>2. /\ me.gone \in Nat /\ Depth(me) \in Nat /\ Depth(me) <= Len(me.path)
        /\ me.path \in Paths
    BY <2>1, OnItsWayHas
  <2>3. Len(me.path) \in Nat
    BY <2>2, PathNames
  <2>4. me.gone < Len(me.path)
    BY <1>1, <2>2, <2>3
  <2>5. QED
    BY <2>1, <2>4, OnItsWayHas
<1>4. next \in Optional /\ (next # None => next \in Nodes /\ kind[next] # "free")
  <2>1. Tree /\ me.node \in Optional
    BY <1>3 DEF Typed, Optional
  <2>2. QED
    BY <1>3, <2>1, LoadThere
<1>5. PICK v \in Calls : client' = [client EXCEPT ![c] = v] /\ CallGood(v, kind, target)
  <2>1. CASE Resolve(me.node) = None
    <3> DEFINE v == [me EXCEPT !.at = "failed"]
    <3>1. client' = [client EXCEPT ![c] = v]
      BY <2>1 DEF MkdirLoad, Enter
    <3>2. v \in Calls /\ v.at = "failed"
      BY <1>3, CallFields
    <3>3. CallGood(v, kind, target)
      BY <3>2 DEF CallGood, OnItsWay
    <3>4. QED
      BY <3>1, <3>2, <3>3
  <2>2. CASE Resolve(me.node) # None /\ next = None
    <3> DEFINE v == [me EXCEPT !.at = "store"]
    <3>1. client' = [client EXCEPT ![c] = v]
      BY <2>2 DEF MkdirLoad, Enter
    <3>2. /\ v \in Calls /\ v.at = "store" /\ v.node = me.node /\ v.gone = me.gone
          /\ v.path = me.path /\ v.link = me.link
      BY <1>3, CallFields
    <3>3. kind[me.node] = "link" => target[me.node] # None
      BY <1>3, <2>2 DEF Resolve, VirtualConstants
    <3> HIDE DEF v, me
    <3>4. Depth(v) = Depth(me)
      BY <3>2 DEF Depth
    <3>5. CallGood(v, kind, target)
      BY <1>1, <1>3, <3>2, <3>3, <3>4 DEF CallGood
    <3>6. QED
      BY <3>1, <3>2, <3>5 DEF me
  <2>3. CASE Resolve(me.node) # None /\ next # None
    <3> DEFINE v == [me EXCEPT !.node = next, !.gone = @ + 1]
    <3>1. client' = [client EXCEPT ![c] = v]
      BY <2>3 DEF MkdirLoad, Enter
    <3>2. /\ v \in Calls /\ v.at = "load" /\ v.node = next /\ v.gone = me.gone + 1
          /\ v.path = me.path /\ v.link = me.link
      <4>1. me \in Calls /\ me.at = "load" /\ next \in Optional
            /\ v = [me EXCEPT !.node = next, !.gone = @ + 1]
        BY <1>1, <1>3, <1>4
      <4> HIDE DEF v, me, next
      <4>2. QED
        BY <4>1, CallGoesOn
    <3> HIDE DEF v, me, next
    <3>3. Depth(v) = Depth(me)
      BY <3>2 DEF Depth
    <3>4. CallGood(v, kind, target)
      BY <1>1, <1>3, <1>4, <2>3, <3>2, <3>3 DEF CallGood
    <3>5. QED
      BY <3>1, <3>2, <3>4 DEF me
  <2>4. QED
    BY <2>1, <2>2, <2>3
<1>6. ClientsGood'
  <2>1. CallGood(v, kind', target')
    BY <1>1, <1>5
  <2>2. QED
    BY <1>2, <1>5, <2>1, ClientMoves DEF Typed
<1>7. QED
  BY <1>2, <1>6 DEF Typed

LEMMA MkdirStoreTyped ==
  ASSUME VirtualConstants, Typed, NEW c \in Clients, MkdirStore(c)
  PROVE  Typed' /\ KindsKept
<1> DEFINE me == client[c]
           v(new) == [me EXCEPT !.at = "load", !.node = new, !.gone = @ + 1]
<1>1. PICK new \in Free :
        /\ kind' = [kind EXCEPT ![new] = "dir"]
        /\ subs' = [subs EXCEPT ![Resolve(me.node)][Name(me)] = new]
        /\ client' = [client EXCEPT ![c] = v(new)]
  BY DEF MkdirStore, Enter
<1>2. me.at = "store" /\ UNCHANGED <<target, handle>>
  BY DEF MkdirStore
<1>3. OnItsWay(me)
  BY <1>2 DEF OnItsWay
<1>4. /\ me \in Calls /\ me.node \in Nodes /\ kind[me.node] # "free" /\ me.path \in Paths
      /\ me.gone \in Nat /\ Depth(me) \in Nat /\ Depth(me) <= Len(me.path)
      /\ me.link \in Optional /\ (me.link # None => kind[me.link] # "free")
  BY <1>3, OnItsWayHas
<1>5. me.gone < Depth(me) /\ (kind[me.node] = "link" => target[me.node] # None)
  BY <1>2, <1>3 DEF Typed, ClientsGood, CallGood
<1>6. Name(me) \in Names
  <2>1. Len(me.path) \in Nat
    BY <1>4, PathNames
  <2>2. me.gone < Len(me.path)
    BY <1>4, <1>5, <2>1
  <2>3. QED
    BY <1>3, <2>2, OnItsWayHas
<1>7. Resolve(me.node) \in Nodes /\ kind[Resolve(me.node)] = "dir"
  <2>1. Resolve(me.node) # None
    BY <1>4, <1>5 DEF Resolve, VirtualConstants
  <2>2. Tree /\ me.node \in Optional
    BY <1>4 DEF Typed, Optional
  <2>3. QED
    BY <1>4, <2>1, <2>2, ResolveDir
<1>8. Tree' /\ KindsKept
  <2>1. Tree
    BY DEF Typed
  <2>2. QED
    BY <1>1, <1>2, <1>6, <1>7, <2>1, NewDir
<1>9. /\ v(new) \in Calls /\ v(new).at = "load" /\ v(new).node = new
      /\ v(new).gone = me.gone + 1 /\ v(new).path = me.path /\ v(new).link = me.link
  <2>1. PICK w : w = v(new)
    OBVIOUS
  <2>2. me \in Calls /\ new \in Optional
        /\ w = [me EXCEPT !.at = "load", !.node = new, !.gone = @ + 1]
    BY <1>4, <2>1 DEF Free, Optional
  <2> HIDE DEF v, me
  <2>3. w = [at |-> "load", node |-> new, gone |-> me.gone + 1, path |-> me.path,
             link |-> me.link]
    BY <2>2 DEF Calls
  <2>4. me.gone + 1 \in Nat /\ me.path \in Paths \cup {<< >>} /\ me.link \in Optional
    BY <2>2 DEF Calls
  <2>5. w \in Calls
    BY <2>2, <2>3, <2>4 DEF Calls
  <2>6. QED
    BY <2>1, <2>3, <2>5
<1>10. new \in Nodes /\ kind'[new] # "free" /\ (me.link # None => kind'[me.link] # "free")
  <2>1. new \in Nodes /\ kind'[new] = "dir"
    BY <1>1 DEF Free, Typed, Tree
  <2>2. me.link # None => me.link \in Nodes
    BY <1>4 DEF Optional
  <2>3. QED
    BY <1>4, <1>8, <2>1, <2>2 DEF KindsKept
<1> HIDE DEF v, me
<1>11. CallGood(v(new), kind', target')
  <2>1. Depth(v(new)) = Depth(me)
    BY <1>9 DEF Depth
  <2>2. QED
    BY <1>4, <1>5, <1>9, <1>10, <2>1 DEF CallGood
<1>12. ClientsGood'
  BY <1>1, <1>8, <1>9, <1>11, ClientMoves DEF Typed
<1>13. HandlesGood'
  BY <1>2, <1>8, HandlesStay DEF Typed
<1>14. QED
  BY <1>8, <1>12, <1>13 DEF Typed

LEMMA MkdirReturnsTyped ==
  ASSUME VirtualConstants, Typed, NEW c \in Clients, MkdirReturns(c)
  PROVE  Typed'
<1> DEFINE v == [client[c] EXCEPT !.at = "made"]
<1>1. client' = [client EXCEPT ![c] = v] /\ UNCHANGED <<kind, subs, target, handle>>
  BY DEF MkdirReturns, Enter
<1>2. Tree' /\ KindsKept
  BY <1>1 DEF Typed, Tree, KindsKept
<1>3. v \in Calls /\ v.at = "made"
  <2>1. client[c] \in Calls
    BY DEF Typed, ClientsGood
  <2>2. QED
    BY <2>1, CallFields
<1> HIDE DEF v
<1>4. ClientsGood'
  <2>1. CallGood(v, kind', target')
    BY <1>3 DEF CallGood, OnItsWay
  <2>2. QED
    BY <1>1, <1>2, <1>3, <2>1, ClientMoves DEF Typed
<1>5. HandlesGood'
  BY <1>1, <1>2, HandlesStay DEF Typed
<1>6. QED
  BY <1>2, <1>4, <1>5 DEF Typed

(* Where LinkStore stores: at a directory, under the last name.             *)
LEMMA LinkStoreAt ==
  ASSUME VirtualConstants, Typed, NEW c \in Clients, LinkStore(c)
  PROVE  /\ OnItsWay(client[c]) /\ client[c].at = "load"
         /\ client[c] \in Calls /\ client[c].path \in Paths
         /\ client[c].gone \in Nat /\ client[c].gone + 1 = Len(client[c].path)
         /\ Name(client[c]) \in Names
         /\ client[c].link # None /\ client[c].link \in Nodes
         /\ kind[client[c].link] # "free"
         /\ Resolve(client[c].node) # None =>
              Resolve(client[c].node) \in Nodes /\ kind[Resolve(client[c].node)] = "dir"
<1> DEFINE me == client[c]
<1>1. me.at = "load" /\ me.link # None /\ me.gone = Depth(me)
  BY DEF LinkStore
<1>2. OnItsWay(me)
  BY <1>1 DEF OnItsWay
<1>3. /\ me \in Calls /\ me.node \in Nodes /\ kind[me.node] # "free" /\ me.path \in Paths
      /\ me.gone \in Nat /\ me.link \in Optional
      /\ (me.link # None => kind[me.link] # "free")
  BY <1>2, OnItsWayHas
<1>4. Len(me.path) \in Nat
  BY <1>3, PathNames
<1>5. me.gone = Len(me.path) - 1
  BY <1>1 DEF Depth
<1>6. Name(me) \in Names
  <2>1. me.gone < Len(me.path)
    BY <1>4, <1>5
  <2>2. QED
    BY <1>2, <2>1, OnItsWayHas
<1>7. Resolve(me.node) # None => Resolve(me.node) \in Nodes /\ kind[Resolve(me.node)] = "dir"
  <2>1. Tree /\ me.node \in Optional
    BY <1>3 DEF Typed, Optional
  <2>2. QED
    BY <1>3, <2>1, ResolveDir
<1>8. QED
  BY <1>1, <1>2, <1>3, <1>4, <1>5, <1>6, <1>7 DEF Optional

LEMMA LinkStoreTyped ==
  ASSUME VirtualConstants, Typed, NEW c \in Clients, LinkStore(c)
  PROVE  Typed' /\ KindsKept
<1> DEFINE me == client[c]
           dir == Resolve(me.node)
<1>1. UNCHANGED <<kind, target, handle>>
  BY DEF LinkStore
<1>2. KindsKept
  BY <1>1 DEF KindsKept
<1>3. me \in Calls /\ Name(me) \in Names /\ me.link \in Nodes /\ kind[me.link] # "free"
      /\ (dir # None => dir \in Nodes /\ kind[dir] = "dir")
  BY LinkStoreAt
<1>4. PICK at \in {"failed", "linked"} : client' = [client EXCEPT ![c] = [me EXCEPT !.at = at]]
  BY DEF LinkStore, Enter
<1>5. Tree'
  <2>1. CASE UNCHANGED subs
    BY <1>1, <2>1 DEF Typed, Tree
  <2>2. CASE dir # None /\ subs' = [subs EXCEPT ![dir][Name(me)] = me.link]
    <3>1. Tree /\ dir \in Nodes /\ kind[dir] = "dir"
      BY <1>3, <2>2 DEF Typed
    <3> HIDE DEF dir, me
    <3>2. QED
      BY <1>1, <1>3, <2>2, <3>1, TreeGrows
  <2>3. QED
    BY <2>1, <2>2 DEF LinkStore
<1>6. [me EXCEPT !.at = at] \in Calls /\ [me EXCEPT !.at = at].at = at
  <2>1. at \in {"idle", "load", "store", "made", "linked", "failed"}
    OBVIOUS
  <2>2. QED
    BY <1>3, <2>1, CallFields
<1>7. ClientsGood'
  <2> DEFINE v == [me EXCEPT !.at = at]
  <2>1. v \in Calls /\ v.at \in {"failed", "linked"} /\ client' = [client EXCEPT ![c] = v]
    BY <1>4, <1>6
  <2> HIDE DEF v
  <2>2. CallGood(v, kind', target')
    BY <2>1 DEF CallGood, OnItsWay
  <2>3. QED
    BY <1>2, <2>1, <2>2, ClientMoves DEF Typed
<1>8. HandlesGood'
  BY <1>1, <1>2, HandlesStay DEF Typed
<1>9. QED
  BY <1>2, <1>5, <1>7, <1>8 DEF Typed

-----------------------------------------------------------------------------
(* Handles                                                                  *)

(* A handle that changes alone leaves all as it should be.                  *)
LEMMA HandleChanges ==
  ASSUME Typed, UNCHANGED <<kind, subs, target, client>>, NEW h \in Handles, NEW v \in Records,
         handle' = [handle EXCEPT ![h] = v],
         v.kind = "dir" => v.node \in Nodes /\ kind[v.node] = "dir"
  PROVE  Typed'
<1>1. Tree' /\ KindsKept
  BY DEF Typed, Tree, KindsKept
<1>2. ClientsGood'
  BY <1>1, ClientsStay DEF Typed
<1>3. HandlesGood'
  BY HandleMoves DEF Typed
<1>4. QED
  BY <1>1, <1>2, <1>3 DEF Typed

LEMMA HandleIs ==
  ASSUME Typed, NEW h \in Handles
  PROVE  /\ handle[h] \in Records
         /\ handle[h].kind = "dir" => handle[h].node \in Nodes /\ kind[handle[h].node] = "dir"
BY DEF Typed, HandlesGood

(* What is created has nothing in it.                                       *)
LEMMA FreshRecord ==
  ASSUME NEW k \in {"dir", "file"}, NEW n \in Nodes, NEW x \in Names \cup {None},
         NEW access \in SUBSET {"r", "w"}
  PROVE  [kind |-> k, node |-> n, name |-> x, read |-> {}, listed |-> {}, data |-> << >>,
          off |-> 0, access |-> access] \in Records
<1> DEFINE v == [kind |-> k, node |-> n, name |-> x, read |-> {}, listed |-> {},
                 data |-> << >>, off |-> 0, access |-> access]
<1>1. << >> \in Seq(Octets) /\ Len(<< >>) = 0
  OBVIOUS
<1>2. v \in [kind : {"none", "dir", "file"}, node : Optional, name : Names \cup {None},
             read : SUBSET Nodes, listed : SUBSET Names, data : Seq(Octets), off : Nat,
             access : SUBSET {"r", "w"}]
  BY <1>1 DEF Optional
<1>3. v.off <= Len(v.data)
  BY <1>1
<1> HIDE DEF v
<1>4. v \in Records
  BY <1>2, <1>3 DEF Records
<1>5. QED
  BY <1>4 DEF v

LEMMA OpenDirTyped ==
  ASSUME VirtualConstants, Typed, NEW h \in Handles, NEW path \in Paths \cup {<< >>},
         OpenDir(h, path)
  PROVE  Typed'
<1> DEFINE d == Resolve(Sub(path))
<1>1. PICK v : v = [Unused EXCEPT !.kind = "dir", !.node = d]
  OBVIOUS
<1>2. /\ d # None /\ handle' = [handle EXCEPT ![h] = v]
      /\ UNCHANGED <<kind, subs, target, client>>
  BY <1>1 DEF OpenDir, Hold
<1>3. d \in Nodes /\ kind[d] = "dir"
  <2>1. Len(path) \in Nat
    BY PathNames
  <2>2. Sub(path) \in Optional /\ (Sub(path) # None => kind[Sub(path)] # "free")
    <3>1. CASE path \in Paths
      <4>1. Tree
        BY DEF Typed
      <4>2. QED
        BY <2>1, <3>1, <4>1, WalkThere DEF Sub
    <3>2. CASE path = << >>
      <4>1. Len(path) = 0 /\ Walk(path)[0] = Root
        BY <2>1, <3>2, WalkSteps
      <4>2. Root \in Nodes /\ kind[Root] = "dir"
        BY DEF Typed, Tree, VirtualConstants
      <4>3. QED
        BY <4>1, <4>2 DEF Sub, Optional
    <3>3. QED
      BY <3>1, <3>2
  <2>3. QED
    BY <1>2, <2>2, ResolveDir DEF Typed
<1> HIDE DEF d
<1>4. v = [kind |-> "dir", node |-> d, name |-> None, read |-> {}, listed |-> {},
           data |-> << >>, off |-> 0, access |-> {}]
  BY <1>1 DEF Unused
<1>5. v \in Records
  BY <1>3, <1>4, FreshRecord
<1>6. v.node = d
  BY <1>4
<1>7. QED
  BY <1>2, <1>3, <1>5, <1>6, HandleChanges

LEMMA CreateTyped ==
  ASSUME VirtualConstants, Typed, NEW h \in Handles, NEW path \in Paths,
         NEW access \in SUBSET {"r", "w"}, Create(h, path, access)
  PROVE  Typed'
<1> DEFINE d == Resolve(Walk(path)[Len(path) - 1])
<1>1. PICK v : v = [Unused EXCEPT !.kind = "file", !.node = d, !.name = path[Len(path)],
                                  !.access = access]
  OBVIOUS
<1>2. /\ d # None /\ handle' = [handle EXCEPT ![h] = v]
      /\ UNCHANGED <<kind, subs, target, client>>
  BY <1>1 DEF Create, Hold
<1>3. Len(path) \in Nat /\ Len(path) > 0 /\ path[Len(path)] \in Names
  BY PathNames
<1>4. d \in Nodes
  <2>1. Tree /\ Len(path) - 1 \in Nat /\ Len(path) - 1 <= Len(path)
    BY <1>3 DEF Typed
  <2>2. QED
    BY <1>2, <2>1, WalkThere, ResolveDir
<1> HIDE DEF d
<1>5. v = [kind |-> "file", node |-> d, name |-> path[Len(path)], read |-> {}, listed |-> {},
           data |-> << >>, off |-> 0, access |-> access]
  BY <1>1 DEF Unused
<1>6. v \in Records
  BY <1>3, <1>4, <1>5, FreshRecord
<1>7. v.kind = "file"
  BY <1>5
<1>8. QED
  BY <1>2, <1>6, <1>7, HandleChanges

LEMMA SeekTyped ==
  ASSUME Typed, NEW h \in Handles, NEW off \in Nat, Seek(h, off)
  PROVE  Typed'
<1>1. PICK v : v = [handle[h] EXCEPT !.off = off]
  OBVIOUS
<1>2. /\ handle[h].kind = "file" /\ off < Len(handle[h].data)
      /\ handle' = [handle EXCEPT ![h] = v] /\ UNCHANGED <<kind, subs, target, client>>
  BY <1>1 DEF Seek, Hold
<1>3. handle[h] \in Records
  BY HandleIs
<1>4. v \in Records /\ v.kind = "file"
  BY <1>1, <1>2, <1>3 DEF Records
<1>5. QED
  BY <1>2, <1>4, HandleChanges

LEMMA ReadTyped ==
  ASSUME Typed, NEW h \in Handles, NEW n \in Nat, Read(h, n)
  PROVE  Typed'
<1> DEFINE f == handle[h]
           rest == Len(f.data) - f.off
           off == f.off + (IF n < rest THEN n ELSE rest)
<1>1. PICK v : v = [f EXCEPT !.off = off]
  OBVIOUS
<1>2. /\ f.kind = "file" /\ handle' = [handle EXCEPT ![h] = v]
      /\ UNCHANGED <<kind, subs, target, client>>
  BY <1>1 DEF Read, Hold
<1>3. f \in Records
  BY HandleIs
<1>4. off \in Nat /\ off <= Len(f.data)
  BY <1>3 DEF Records
<1> HIDE DEF off
<1>5. v \in Records /\ v.kind = "file"
  BY <1>1, <1>2, <1>3, <1>4 DEF Records
<1>6. QED
  BY <1>2, <1>5, HandleChanges

(* What Write makes of the bytes.                                           *)
Written(f, b) ==
  IF Len(f.data) - f.off >= Len(b)
  THEN [i \in DOMAIN f.data |->
          IF i > f.off /\ i <= f.off + Len(b) THEN b[i - f.off] ELSE f.data[i]]
  ELSE SubSeq(f.data, 1, f.off) \o b

LEMMA WrittenIs ==
  ASSUME NEW f \in Records, NEW b \in Seq(Octets)
  PROVE  /\ Written(f, b) \in Seq(Octets)
         /\ f.off + Len(b) <= Len(Written(f, b))
         /\ \A i \in DOMAIN f.data : i <= f.off \/ i > f.off + Len(b) =>
              i \in DOMAIN Written(f, b) /\ Written(f, b)[i] = f.data[i]
<1>1. /\ f.data \in Seq(Octets) /\ f.off \in Nat /\ f.off <= Len(f.data)
      /\ Len(b) \in Nat /\ Len(f.data) \in Nat /\ DOMAIN f.data = 1 .. Len(f.data)
      /\ DOMAIN b = 1 .. Len(b)
  BY DEF Records
<1> DEFINE data == f.data
           off == f.off
<1>2. CASE Len(data) - off >= Len(b)
  <2> DEFINE over == [i \in DOMAIN data |->
                        IF i > off /\ i <= off + Len(b) THEN b[i - off] ELSE data[i]]
  <2>1. Written(f, b) = over
    BY <1>2 DEF Written
  <2>2. ASSUME NEW i \in 1 .. Len(data) PROVE over[i] \in Octets
    <3>1. CASE i > off /\ i <= off + Len(b)
      <4>1. i - off \in 1 .. Len(b) /\ over[i] = b[i - off]
        BY <1>1, <3>1
      <4>2. QED
        BY <4>1
    <3>2. CASE ~(i > off /\ i <= off + Len(b))
      BY <1>1, <3>2
    <3>3. QED
      BY <3>1, <3>2
  <2>3. over = [i \in 1 .. Len(data) |-> over[i]]
    BY <1>1
  <2>4. \A i \in DOMAIN data : i <= off \/ i > off + Len(b) => over[i] = data[i]
    BY <1>1
  <2>5. DOMAIN over = DOMAIN data
    OBVIOUS
  <2> HIDE DEF over
  <2>6. over \in [1 .. Len(data) -> Octets]
    BY <2>2, <2>3
  <2>7. over \in Seq(Octets) /\ Len(over) = Len(data)
    BY <1>1, <2>6
  <2>8. QED
    BY <1>1, <1>2, <2>1, <2>4, <2>5, <2>7
<1>3. CASE ~(Len(data) - off >= Len(b))
  <2> DEFINE kept == SubSeq(data, 1, off)
  <2>1. Written(f, b) = kept \o b
    BY <1>3 DEF Written
  <2>2. kept \in Seq(Octets) /\ Len(kept) = off /\ \A i \in 1 .. off : kept[i] = data[i]
    BY <1>1
  <2> HIDE DEF kept
  <2>3. kept \o b \in Seq(Octets) /\ Len(kept \o b) = off + Len(b)
        /\ \A i \in 1 .. off : (kept \o b)[i] = kept[i]
    <3>1. kept \o b \in Seq(Octets) /\ Len(kept \o b) = Len(kept) + Len(b)
      BY <2>2
    <3>2. \A i \in 1 .. Len(kept) : (kept \o b)[i] = kept[i]
      BY <2>2
    <3>3. QED
      BY <2>2, <3>1, <3>2
  <2>4. ASSUME NEW i \in DOMAIN data, i <= off \/ i > off + Len(b)
        PROVE  i \in DOMAIN (kept \o b) /\ (kept \o b)[i] = data[i]
    <3>1. i \in 1 .. off
      BY <1>1, <1>3, <2>4
    <3>2. i \in 1 .. off + Len(b)
      BY <1>1, <3>1
    <3>3. QED
      BY <2>2, <2>3, <3>1, <3>2
  <2>5. QED
    BY <1>1, <2>1, <2>3, <2>4
<1>4. QED
  BY <1>2, <1>3

(* Write leaves a file with what was written.                               *)
LEMMA WriteDoes ==
  ASSUME Typed, NEW h \in Handles, NEW b \in Seq(Octets), Write(h, b)
  PROVE  /\ handle[h] \in Records /\ handle[h].kind = "file"
         /\ \E v \in Records : /\ handle' = [handle EXCEPT ![h] = v] /\ v.kind = "file"
                               /\ v.data = Written(handle[h], b)
                               /\ v.off = handle[h].off + Len(b)
         /\ UNCHANGED <<kind, subs, target, client>>
<1> DEFINE f == handle[h]
           off == f.off + Len(b)
           data == Written(f, b)
<1>1. PICK v : v = [f EXCEPT !.off = off, !.data = data]
  OBVIOUS
<1>2. f \in Records
  BY HandleIs
<1>3. f.kind = "file" /\ UNCHANGED <<kind, subs, target, client>>
  BY DEF Write
<1>4. handle' = [handle EXCEPT ![h] = v]
  BY <1>1 DEF Write, Hold, Written
<1>5. off \in Nat /\ data \in Seq(Octets) /\ off <= Len(data)
  <2>1. f.off \in Nat /\ Len(b) \in Nat
    BY <1>2 DEF Records
  <2> HIDE DEF f
  <2>2. QED
    BY <1>2, <2>1, WrittenIs
<1> HIDE DEF off, data
<1>6. v = [kind |-> f.kind, node |-> f.node, name |-> f.name, read |-> f.read,
           listed |-> f.listed, data |-> data, off |-> off, access |-> f.access]
  BY <1>1, <1>2 DEF Records
<1>7. f.node \in Optional /\ f.name \in Names \cup {None} /\ f.read \in SUBSET Nodes
      /\ f.listed \in SUBSET Names /\ f.access \in SUBSET {"r", "w"}
  BY <1>2 DEF Records
<1> HIDE DEF f
<1>8. v \in Records
  <2>1. v.off <= Len(v.data)
    BY <1>5, <1>6
  <2>2. QED
    BY <1>3, <1>5, <1>6, <1>7, <2>1 DEF Records
<1>9. v.kind = "file" /\ v.data = data /\ v.off = off
  BY <1>3, <1>6
<1>10. QED
  BY <1>2, <1>3, <1>4, <1>8, <1>9 DEF f, off, data

LEMMA WriteTyped ==
  ASSUME Typed, NEW h \in Handles, NEW b \in Seq(Octets), Write(h, b)
  PROVE  Typed'
<1>1. PICK v \in Records : handle' = [handle EXCEPT ![h] = v] /\ v.kind = "file"
  BY WriteDoes
<1>2. UNCHANGED <<kind, subs, target, client>>
  BY DEF Write
<1>3. QED
  BY <1>1, <1>2, HandleChanges

(* What ReadDir makes of its handle.                                        *)
Files(f, X) == {subs[f.node][x] : x \in X}
Failing(f) == \E x \in Unread(f) : Resolve(subs[f.node][x]) = None

LEMMA ReadDirRecord ==
  ASSUME Typed, NEW f \in Records, f.kind = "dir", f.node \in Nodes,
         NEW X \in SUBSET Unread(f), NEW v,
         \/ v = [f EXCEPT !.read = @ \cup Files(f, X)]
         \/ v = [f EXCEPT !.read = @ \cup Files(f, X), !.listed = @ \cup X]
  PROVE  v \in Records /\ v.kind = "dir" /\ v.node = f.node /\ v.read = f.read \cup Files(f, X)
<1>1. Files(f, X) \subseteq Nodes
  <2>1. \A x \in X : x \in Names /\ subs[f.node][x] # None
    BY DEF Unread, Entries
  <2>2. QED
    BY <2>1 DEF Files, Typed, Tree, Optional
<1>2. f.read \cup Files(f, X) \in SUBSET Nodes /\ f.listed \cup X \in SUBSET Names
  <2>1. X \subseteq Names
    BY DEF Unread, Entries
  <2>2. QED
    BY <1>1, <2>1 DEF Records
<1> DEFINE more == f.read \cup Files(f, X)
<1>3. /\ f.kind \in {"none", "dir", "file"} /\ f.node \in Optional
      /\ f.name \in Names \cup {None} /\ f.listed \in SUBSET Names /\ f.data \in Seq(Octets)
      /\ f.off \in Nat /\ f.access \in SUBSET {"r", "w"} /\ f.off <= Len(f.data)
  BY DEF Records
<1>4. PICK l \in SUBSET Names :
        v = [kind |-> f.kind, node |-> f.node, name |-> f.name, read |-> more, listed |-> l,
             data |-> f.data, off |-> f.off, access |-> f.access]
  <2>1. CASE v = [f EXCEPT !.read = @ \cup Files(f, X)]
    <3>1. v = [kind |-> f.kind, node |-> f.node, name |-> f.name, read |-> more,
               listed |-> f.listed, data |-> f.data, off |-> f.off, access |-> f.access]
      BY <2>1 DEF Records
    <3>2. QED
      BY <1>3, <3>1
  <2>2. CASE v = [f EXCEPT !.read = @ \cup Files(f, X), !.listed = @ \cup X]
    <3>1. v = [kind |-> f.kind, node |-> f.node, name |-> f.name, read |-> more,
               listed |-> f.listed \cup X, data |-> f.data, off |-> f.off,
               access |-> f.access]
      BY <2>2 DEF Records
    <3>2. QED
      BY <1>2, <3>1
  <2>3. QED
    BY <2>1, <2>2
<1>5. more \in SUBSET Nodes
  BY <1>2
<1> HIDE DEF more
<1>6. v \in [kind : {"none", "dir", "file"}, node : Optional, name : Names \cup {None},
             read : SUBSET Nodes, listed : SUBSET Names, data : Seq(Octets), off : Nat,
             access : SUBSET {"r", "w"}]
  BY <1>3, <1>4, <1>5
<1>7. v.off <= Len(v.data) /\ v.kind = "dir" /\ v.node = f.node /\ v.read = more
  BY <1>3, <1>4
<1>8. v \in Records
  BY <1>6, <1>7 DEF Records
<1>9. QED
  BY <1>7, <1>8 DEF more

LEMMA ReadDirDoes ==
  ASSUME Typed, NEW h \in Handles, ReadDir(h)
  PROVE  \E X \in SUBSET Unread(handle[h]), v \in Records :
           /\ handle' = [handle EXCEPT ![h] = v]
           /\ v.kind = "dir" /\ v.node = handle[h].node
           /\ v.read = handle[h].read \cup Files(handle[h], X)
           /\ \/ Failing(handle[h]) /\ v.listed = handle[h].listed
              \/ /\ v.listed = handle[h].listed \cup X
                 /\ Files(handle[h], X) = Files(handle[h], Unread(handle[h]))
<1> DEFINE f == handle[h]
           good == {x \in Unread(f) : Resolve(subs[f.node][x]) # None}
<1>1. f \in Records /\ f.kind = "dir" /\ f.node \in Nodes
  BY HandleIs DEF ReadDir
<1>2. CASE good # Unread(f)
  <2>1. PICK X \in SUBSET good : handle' = [handle EXCEPT ![h] = [f EXCEPT !.read = @ \cup Files(f, X)]]
    BY <1>2 DEF ReadDir, Hold, Files
  <2>2. PICK v : v = [f EXCEPT !.read = @ \cup Files(f, X)]
    OBVIOUS
  <2>3. handle' = [handle EXCEPT ![h] = v]
    BY <2>1, <2>2
  <2>4. X \in SUBSET Unread(f)
    OBVIOUS
  <2>5. Failing(f)
    BY <1>2 DEF Failing
  <2> HIDE DEF f, good
  <2>6. v \in Records /\ v.kind = "dir" /\ v.node = f.node /\ v.read = f.read \cup Files(f, X)
    BY <1>1, <2>2, <2>4, ReadDirRecord
  <2>7. v.listed = f.listed
    BY <1>1, <2>2 DEF Records
  <2>8. QED
    BY <2>3, <2>4, <2>5, <2>6, <2>7 DEF f
<1>3. CASE good = Unread(f)
  <2>1. PICK X \in SUBSET good :
          /\ Files(f, X) = Files(f, good)
          /\ handle' = [handle EXCEPT ![h] = [f EXCEPT !.read = @ \cup Files(f, X),
                                                       !.listed = @ \cup X]]
    BY <1>3 DEF ReadDir, Hold, Files
  <2>2. PICK v : v = [f EXCEPT !.read = @ \cup Files(f, X), !.listed = @ \cup X]
    OBVIOUS
  <2>3. handle' = [handle EXCEPT ![h] = v]
    BY <2>1, <2>2
  <2>4. X \in SUBSET Unread(f) /\ Files(f, X) = Files(f, Unread(f))
    BY <1>3, <2>1
  <2> HIDE DEF f, good
  <2>5. v \in Records /\ v.kind = "dir" /\ v.node = f.node /\ v.read = f.read \cup Files(f, X)
    BY <1>1, <2>2, <2>4, ReadDirRecord
  <2>6. v.listed = f.listed \cup X
    BY <1>1, <2>2 DEF Records
  <2>7. QED
    BY <2>3, <2>4, <2>5, <2>6 DEF f
<1>4. QED
  BY <1>2, <1>3

LEMMA ReadDirTyped ==
  ASSUME Typed, NEW h \in Handles, ReadDir(h)
  PROVE  Typed'
<1>1. PICK v \in Records : handle' = [handle EXCEPT ![h] = v] /\ v.node = handle[h].node
  BY ReadDirDoes
<1>2. handle[h].node \in Nodes /\ kind[handle[h].node] = "dir"
  BY HandleIs DEF ReadDir
<1>3. UNCHANGED <<kind, subs, target, client>>
  BY DEF ReadDir
<1>4. QED
  BY <1>1, <1>2, <1>3, HandleChanges

LEMMA HandleMkdirTyped ==
  ASSUME VirtualConstants, Typed, NEW h \in Handles, NEW x \in Names, HandleMkdir(h, x)
  PROVE  Typed' /\ KindsKept
<1> DEFINE d == handle[h].node
<1>1. PICK new \in Free : /\ kind' = [kind EXCEPT ![new] = "dir"]
                          /\ subs' = [subs EXCEPT ![d][x] = new]
  BY DEF HandleMkdir
<1>2. UNCHANGED <<target, client, handle>> /\ Tree /\ d \in Nodes /\ kind[d] = "dir"
  BY HandleIs DEF HandleMkdir, Typed
<1> HIDE DEF d
<1>3. Tree' /\ KindsKept
  BY <1>1, <1>2, NewDir
<1>4. ClientsGood' /\ HandlesGood'
  BY <1>2, <1>3, ClientsStay, HandlesStay DEF Typed
<1>5. QED
  BY <1>3, <1>4 DEF Typed

-----------------------------------------------------------------------------
LEMMA InitTyped ==
  ASSUME VirtualConstants, Init
  PROVE  Typed
<1>1. Tree
  BY DEF Init, VirtualConstants, Tree, Optional
<1>2. ClientsGood
  <2>1. Idle \in Calls /\ Idle.at = "idle"
    BY DEF Idle, Calls, Optional
  <2>2. QED
    BY <2>1 DEF Init, ClientsGood, CallGood, OnItsWay
<1>3. HandlesGood
  <2>1. Unused.off = 0 /\ Unused.data = << >> /\ Unused.kind = "none"
    BY DEF Unused
  <2>2. << >> \in Seq(Octets) /\ Len(<< >>) = 0
    OBVIOUS
  <2>3. Unused \in [kind : {"none", "dir", "file"}, node : Optional, name : Names \cup {None},
                    read : SUBSET Nodes, listed : SUBSET Names, data : Seq(Octets), off : Nat,
                    access : SUBSET {"r", "w"}]
    BY <2>2 DEF Unused, Optional
  <2>4. Unused \in Records
    BY <2>1, <2>2, <2>3 DEF Records
  <2>5. QED
    BY <2>1, <2>4 DEF Init, HandlesGood
<1>4. QED
  BY <1>1, <1>2, <1>3 DEF Typed

(* What b of Next is: some bytes.                                           *)
LEMMA TextIs ==
  ASSUME NEW b \in UNION {[1 .. n -> Octets] : n \in 1 .. 2}
  PROVE  b \in Seq(Octets)
<1>1. PICK n \in 1 .. 2 : b \in [1 .. n -> Octets]
  OBVIOUS
<1>2. QED
  BY <1>1

LEMMA NextTyped ==
  ASSUME VirtualConstants, Typed, Next
  PROVE  Typed'
<1>1. ASSUME NEW c \in Clients, NEW path \in Paths,
             \/ MkdirBegin(c, path)
             \/ \E n \in Optional : LinkBegin(c, path, n)
             \/ \E n \in Nodes : LinkEntry(c, path, n)
      PROVE  Typed'
  BY <1>1, MkdirBeginTyped, LinkBeginTyped, LinkEntryTyped
<1>2. ASSUME NEW c \in Clients,
             MkdirLoad(c) \/ MkdirStore(c) \/ MkdirReturns(c) \/ LinkStore(c)
      PROVE  Typed'
  BY <1>2, MkdirLoadTyped, MkdirStoreTyped, MkdirReturnsTyped, LinkStoreTyped
<1>3. ASSUME NEW h \in Handles,
             \/ \E path \in Paths \cup {<< >>} : OpenDir(h, path)
             \/ \E path \in Paths, access \in SUBSET {"r", "w"} : Create(h, path, access)
      PROVE  Typed'
  BY <1>3, OpenDirTyped, CreateTyped
<1>4. ASSUME NEW h \in Handles,
             \/ \E off \in Nat : Seek(h, off)
             \/ \E n \in Nat : Read(h, n)
             \/ \E b \in Seq(Octets) : Write(h, b)
             \/ ReadDir(h)
             \/ \E x \in Names : HandleMkdir(h, x)
      PROVE  Typed'
  BY <1>4, SeekTyped, ReadTyped, WriteTyped, ReadDirTyped, HandleMkdirTyped
<1>5. CASE \E c \in Clients, path \in Paths :
             \/ MkdirBegin(c, path)
             \/ \E n \in Nodes \cup {None} : LinkBegin(c, path, n)
             \/ \E n \in Nodes : LinkEntry(c, path, n)
  BY <1>1, <1>5 DEF Optional
<1>6. CASE \E h \in Handles : \E path \in Paths, access \in {{"r"}, {"w"}, {"r", "w"}} :
             Create(h, path, access)
  BY <1>3, <1>6
<1>7. CASE \E h \in Handles :
             \/ \E off \in 0 .. MaxData : Seek(h, off)
             \/ \E n \in 1 .. MaxData : Read(h, n)
             \/ \E b \in UNION {[1 .. n -> Octets] : n \in 1 .. 2} : Write(h, b)
             \/ ReadDir(h)
             \/ \E x \in Names : HandleMkdir(h, x)
  BY <1>4, <1>7, TextIs DEF VirtualConstants
<1>8. QED
  BY <1>2, <1>3, <1>5, <1>6, <1>7 DEF Next

LEMMA TypedIsOK == Typed => TypeOK
<1>1. ASSUME Typed PROVE \A n \in Nodes : Entries(n) # {} => kind[n] = "dir"
  BY <1>1 DEF Typed, Tree, Entries
<1>2. ASSUME Typed PROVE \A h \in Handles : handle[h].off \in 0 .. Len(handle[h].data)
  BY <1>2 DEF Typed, HandlesGood, Records
<1>3. QED
  BY <1>1, <1>2 DEF TypeOK, Typed, Tree

LEMMA TypedStays ==
  ASSUME VirtualConstants, Typed, [Next]_vars
  PROVE  Typed'
<1>1. CASE UNCHANGED vars
  BY <1>1 DEF vars, Typed, Tree, ClientsGood, HandlesGood
<1>2. QED
  BY <1>1, NextTyped

(* Only directories have entries, what is an entry is there, and the        *)
(* offset of a file is inside it: whoever uses the file system how          *)
(* (dirFS.Mkdir, dirFS.Link, dir.Mkdir, file.Seek, file.Read, file.Write).  *)
THEOREM VirtualTypeOK == ASSUME VirtualConstants PROVE Spec => []TypeOK
<1>1. Typed => TypeOK
  BY TypedIsOK
<1>2. Typed /\ [Next]_vars => Typed'
  BY TypedStays
<1>3. Init => Typed
  BY InitTyped
<1>4. QED
  BY <1>1, <1>2, <1>3, PTL DEF Spec

-----------------------------------------------------------------------------
(* Write keeps the rest                                                     *)

LEMMA OneHandle ==
  ASSUME Typed, NEW h \in Handles, NEW v, handle' = [handle EXCEPT ![h] = v],
         handle[h].kind = "file" => v.data = handle[h].data
  PROVE  KeepsRest
<1>1. \A g \in Handles : handle[g].kind = "file" => handle'[g].data = handle[g].data
  BY DEF Typed, HandlesGood
<1>2. QED
  BY <1>1 DEF KeepsRest

LEMMA WriteKeeps ==
  ASSUME Typed, NEW h \in Handles, NEW b \in Seq(Octets), Write(h, b)
  PROVE  KeepsRest
<1>1. PICK v \in Records : /\ handle' = [handle EXCEPT ![h] = v]
                           /\ v.data = Written(handle[h], b)
                           /\ v.off = handle[h].off + Len(b)
  BY WriteDoes
<1>2. ASSUME NEW i \in DOMAIN handle[h].data, i <= handle[h].off \/ i > v.off
      PROVE  i \in DOMAIN v.data /\ v.data[i] = handle[h].data[i]
  <2>1. handle[h] \in Records
    BY HandleIs
  <2>2. i <= handle[h].off \/ i > handle[h].off + Len(b)
    BY <1>1, <1>2
  <2>3. QED
    BY <1>1, <2>1, <2>2, WrittenIs
<1>3. handle'[h] = v /\ \A g \in Handles \ {h} : handle'[g] = handle[g]
  BY <1>1 DEF Typed, HandlesGood
<1>4. QED
  BY <1>2, <1>3 DEF KeepsRest

LEMMA HandlesKeep ==
  ASSUME UNCHANGED handle
  PROVE  KeepsRest
BY DEF KeepsRest

LEMMA HandleActions ==
  ASSUME Typed, NEW h \in Handles,
         \/ \E path \in Paths \cup {<< >>} : OpenDir(h, path)
         \/ \E path \in Paths, access \in {{"r"}, {"w"}, {"r", "w"}} : Create(h, path, access)
         \/ \E off \in 0 .. MaxData : Seek(h, off)
         \/ \E n \in 1 .. MaxData : Read(h, n)
         \/ ReadDir(h)
  PROVE  KeepsRest
<1>1. handle[h] \in Records
  BY HandleIs
<1>2. CASE handle[h].kind # "file"
  <2>1. PICK v : handle' = [handle EXCEPT ![h] = v]
    <3>1. ReadDir(h) => \E v : handle' = [handle EXCEPT ![h] = v]
      BY ReadDirDoes
    <3>2. QED
      BY <1>2, <3>1 DEF OpenDir, Create, Seek, Read, Hold
  <2>2. QED
    BY <1>2, <2>1, OneHandle
<1>3. CASE handle[h].kind = "file"
  <2>1. PICK off : handle' = [handle EXCEPT ![h] = [handle[h] EXCEPT !.off = off]]
    BY <1>3 DEF OpenDir, Create, ReadDir, Seek, Read, Hold
  <2>2. PICK v : v = [handle[h] EXCEPT !.off = off]
    OBVIOUS
  <2>3. handle' = [handle EXCEPT ![h] = v] /\ v.data = handle[h].data
    BY <1>1, <2>1, <2>2 DEF Records
  <2>4. QED
    BY <2>3, OneHandle
<1>4. QED
  BY <1>2, <1>3

LEMMA NextKeepsRest ==
  ASSUME Typed, Next
  PROVE  KeepsRest
<1>1. CASE UNCHANGED handle
  BY <1>1, HandlesKeep
<1>2. CASE \E h \in Handles, b \in UNION {[1 .. n -> Octets] : n \in 1 .. 2} : Write(h, b)
  BY <1>2, TextIs, WriteKeeps
<1>3. CASE \E h \in Handles :
             \/ \E path \in Paths \cup {<< >>} : OpenDir(h, path)
             \/ \E path \in Paths, access \in {{"r"}, {"w"}, {"r", "w"}} :
                  Create(h, path, access)
             \/ \E off \in 0 .. MaxData : Seek(h, off)
             \/ \E n \in 1 .. MaxData : Read(h, n)
             \/ ReadDir(h)
  BY <1>3, HandleActions
<1>4. QED
  <2>1. CASE \E c \in Clients, path \in Paths :
               \/ MkdirBegin(c, path)
               \/ \E n \in Nodes \cup {None} : LinkBegin(c, path, n)
               \/ \E n \in Nodes : LinkEntry(c, path, n)
    BY <1>1, <2>1 DEF MkdirBegin, LinkBegin, LinkEntry
  <2>2. CASE \E c \in Clients :
               MkdirLoad(c) \/ MkdirStore(c) \/ MkdirReturns(c) \/ LinkStore(c)
    BY <1>1, <2>2 DEF MkdirLoad, MkdirStore, MkdirReturns, LinkStore
  <2>3. CASE \E h \in Handles, x \in Names : HandleMkdir(h, x)
    BY <1>1, <2>3 DEF HandleMkdir
  <2>4. QED
    BY <1>2, <1>3, <2>1, <2>2, <2>3 DEF Next

(* Write changes the bytes it is given room for and no others (file.Write). *)
THEOREM VirtualWriteKeepsRest == ASSUME VirtualConstants PROVE Spec => WriteKeepsRest
<1>1. Typed /\ [Next]_vars => Typed'
  <2>1. ASSUME Typed, UNCHANGED vars PROVE Typed'
    BY <2>1 DEF vars, Typed, Tree, ClientsGood, HandlesGood
  <2>2. QED
    BY <2>1, NextTyped
<1>2. Typed /\ [Next]_vars => [KeepsRest]_vars
  BY NextKeepsRest
<1>3. Init => Typed
  BY InitTyped
<1>4. QED
  BY <1>1, <1>2, <1>3, PTL DEF Spec, WriteKeepsRest

-----------------------------------------------------------------------------
(* By one at a time                                                         *)

(* What a client that is done was told, and where one on its way is.        *)
Right(c) ==
  LET me == client[c] IN
  /\ OnPath(c)
  /\ me.at = "made" => Sub(me.path) = me.node
  /\ me.at = "linked" => Sub(me.path) = me.link

LEMMA AlongPathsIs == AlongPaths <=> Alone /\ \A c \in Clients : Right(c)
BY DEF AlongPaths, Right, Found

(* While entries, kinds and links stay, a walk that leads somewhere leads   *)
(* there still.                                                             *)
LEMMA LoadStays ==
  ASSUME VirtualConstants, Tree, KindsKept, KeepsEntries,
         NEW n \in Nodes, kind[n] # "free", NEW x \in Names, Load(n, x) # None
  PROVE  Load(n, x)' = Load(n, x)
<1>1. Resolve(n)' = Resolve(n)
  BY DEF KindsKept, Resolve, VirtualConstants
<1>2. Resolve(n) # None /\ Load(n, x) = subs[Resolve(n)][x]
  BY DEF Load
<1>3. Resolve(n) \in Nodes
  BY <1>2, ResolveDir DEF Optional
<1>4. subs'[Resolve(n)][x] = subs[Resolve(n)][x]
  BY <1>2, <1>3 DEF KeepsEntries
<1>5. QED
  BY <1>1, <1>2, <1>4 DEF Load

Stepwise == \A path : Len(path) \in Nat =>
              /\ Walk(path)[0] = Root
              /\ \A k \in Nat : k < Len(path) =>
                   Walk(path)[k + 1] = Load(Walk(path)[k], path[k + 1])

LEMMA WalksStepwise == Stepwise
BY WalkSteps DEF Stepwise

LEMMA WalkStays ==
  ASSUME VirtualConstants, Tree, KindsKept, KeepsEntries,
         NEW path \in Paths, NEW k \in Nat, k <= Len(path), Walk(path)[k] # None
  PROVE  Walk(path)'[k] = Walk(path)[k]
<1> DEFINE T == {j \in Nat : j <= Len(path) /\ Walk(path)[j] # None =>
                               Walk(path)'[j] = Walk(path)[j]}
<1>1. Len(path) \in Nat /\ \A i \in 1 .. Len(path) : path[i] \in Names
  BY PathNames
<1>2. /\ Walk(path)[0] = Root
      /\ \A j \in Nat : j < Len(path) => Walk(path)[j + 1] = Load(Walk(path)[j], path[j + 1])
  BY <1>1, WalkSteps
<1>3. /\ Walk(path)'[0] = Root
      /\ \A j \in Nat : j < Len(path) =>
           Walk(path)'[j + 1] = Load(Walk(path)[j], path[j + 1])'
  <2>1. Stepwise'
    BY WalksStepwise, PTL
  <2>2. QED
    BY <1>1, <2>1 DEF Stepwise
<1>4. 0 \in T
  BY <1>2, <1>3
<1>5. ASSUME NEW j \in Nat, j \in T PROVE j + 1 \in T
  <2>1. SUFFICES ASSUME j + 1 <= Len(path), Walk(path)[j + 1] # None
                 PROVE  Walk(path)'[j + 1] = Walk(path)[j + 1]
    OBVIOUS
  <2>2. j < Len(path) /\ j <= Len(path) /\ path[j + 1] \in Names
    BY <1>1, <2>1
  <2>3. PICK n : n = Walk(path)[j]
    OBVIOUS
  <2>4. Walk(path)[j + 1] = Load(n, path[j + 1])
    BY <1>2, <2>2, <2>3
  <2>5. n # None
    BY <2>1, <2>4 DEF Load, Resolve
  <2>6. n \in Nodes /\ kind[n] # "free"
    BY <2>2, <2>3, <2>5, WalkThere
  <2>7. Walk(path)'[j] = n
    BY <1>5, <2>2, <2>3, <2>5
  <2>8. Walk(path)'[j + 1] = Load(n, path[j + 1])'
    <3>1. Walk(path)'[j + 1] = Load(Walk(path)[j], path[j + 1])'
      BY <1>3, <2>2
    <3>2. QED
      BY <2>7, <3>1 DEF Load, Resolve
  <2>9. QED
    BY <2>1, <2>2, <2>4, <2>6, <2>8, LoadStays
<1>6. k \in T
  <2> HIDE DEF T
  <2>1. QED
    BY <1>4, <1>5, EveryNumber
<1>7. QED
  BY <1>6

(* For who does not move it stays right: no entry changes before who is     *)
(* about to store.                                                          *)
LEMMA OthersRight ==
  ASSUME VirtualConstants, Typed, KindsKept, KeepsEntries, NEW d \in Clients, Right(d),
         client'[d] = client[d],
         OnItsWay(client[d]) => UNCHANGED <<kind, subs, target>>
  PROVE  Right(d)'
<1> DEFINE me == client[d]
<1>1. Tree
  BY DEF Typed
<1>2. CASE OnItsWay(me)
  <2>1. /\ me.path \in Paths /\ me.node \in Nodes /\ me.gone \in Nat
        /\ me.gone <= Depth(me) /\ Depth(me) <= Len(me.path) /\ Depth(me) \in Nat
    BY <1>2, OnItsWayHas
  <2>2. Len(me.path) \in Nat
    BY <2>1, PathNames
  <2>3. me.gone <= Len(me.path)
    BY <2>1, <2>2
  <2>4. Walk(me.path)[me.gone] = me.node /\ me.node # None
    BY <1>2, <2>1 DEF Right, OnPath, VirtualConstants
  <2>5. Walk(me.path)'[me.gone] = me.node
    <3>1. PICK path \in Paths, k \in Nat : path = me.path /\ k = me.gone
      BY <2>1
    <3>2. Walk(path)[k] = me.node /\ k <= Len(path)
      BY <2>3, <2>4, <3>1
    <3>3. Walk(path)'[k] = me.node
      BY <1>1, <2>4, <3>2, WalkStays
    <3>4. me' = me
      OBVIOUS
    <3>5. Walk(me.path)' = Walk(path)'
      BY <3>1, <3>4 DEF Walk, Load, Resolve
    <3>6. QED
      BY <3>1, <3>3, <3>5
  <2>6. me.at = "store" => (Load(me.node, Name(me)) = None)'
    BY <1>2 DEF Right, OnPath, Load, Resolve, Name
  <2>7. QED
    BY <1>2, <2>5, <2>6 DEF Right, OnPath, OnItsWay
<1>3. CASE me.at \in {"made", "linked"}
  <2>1. me.path \in Paths /\ (me.at = "made" => me.node # None)
        /\ (me.at = "linked" => me.link # None)
        /\ (me.at = "made" => Sub(me.path) = me.node)
        /\ (me.at = "linked" => Sub(me.path) = me.link)
    BY <1>3 DEF Right, OnPath
  <2>2. PICK path \in Paths : path = me.path
    BY <2>1
  <2>3. Sub(path)' = Sub(path)
    <3>1. Sub(path) # None
      BY <1>3, <2>1, <2>2
    <3>2. Len(path) \in Nat /\ Len(path) <= Len(path)
      BY PathNames
    <3>3. Walk(path)'[Len(path)] = Walk(path)[Len(path)]
      BY <1>1, <3>1, <3>2, WalkStays DEF Sub
    <3>4. QED
      BY <3>3 DEF Sub
  <2>4. Sub(me.path)' = Sub(path)'
    BY <2>2 DEF Sub, Walk, Load, Resolve
  <2>5. QED
    BY <1>3, <2>1, <2>2, <2>3, <2>4 DEF Right, OnPath, OnItsWay
<1>4. CASE ~ OnItsWay(me) /\ me.at \notin {"made", "linked"}
  BY <1>4 DEF Right, OnPath, OnItsWay
<1>5. QED
  BY <1>2, <1>3, <1>4

(* A client that begins is at the root.                                     *)
LEMMA BeginRight ==
  ASSUME VirtualConstants, Typed, NEW c \in Clients, NEW path \in Paths, NEW link,
         client' = [client EXCEPT ![c] = [at |-> "load", node |-> Root, gone |-> 0,
                                          path |-> path, link |-> link]]
  PROVE  Right(c)'
<1>1. client'[c] = [at |-> "load", node |-> Root, gone |-> 0, path |-> path, link |-> link]
  BY DEF Typed, ClientsGood
<1>2. /\ client'[c].at = "load" /\ client'[c].node = Root /\ client'[c].gone = 0
      /\ client'[c].path = path
  BY <1>1
<1>3. Walk(client[c].path)'[0] = Root
  <2>1. Stepwise'
    BY WalksStepwise, PTL
  <2>2. Len(client'[c].path) \in Nat
    BY <1>2, PathNames
  <2>3. QED
    BY <2>1, <2>2 DEF Stepwise
<1>4. QED
  BY <1>2, <1>3 DEF Right, OnPath, OnItsWay

(* One name further.                                                        *)
LEMMA OneFurther ==
  ASSUME VirtualConstants, NEW path \in Paths, NEW k \in Nat, k < Len(path), NEW n,
         Walk(path)'[k] = n
  PROVE  Walk(path)'[k + 1] = Load(n, path[k + 1])'
<1>1. Stepwise'
  BY WalksStepwise, PTL
<1>2. Walk(path)'[k + 1] = Load(Walk(path)[k], path[k + 1])'
  BY <1>1, PathNames DEF Stepwise
<1>3. QED
  BY <1>2 DEF Load, Resolve

(* What stays right when one client moves that is alone on its way, or      *)
(* begins when no one is on its way.                                        *)
LEMMA OneMoves ==
  ASSUME VirtualConstants, Typed, AlongPaths, KindsKept, KeepsEntries, NEW c \in Clients,
         NEW v, client' = [client EXCEPT ![c] = v],
         \A d \in Clients \ {c} : OnItsWay(client[d]) => UNCHANGED <<kind, subs, target>>,
         OnItsWay(v) => \A d \in Clients \ {c} : ~ OnItsWay(client[d]),
         Right(c)'
  PROVE  AlongPaths'
<1>1. client'[c] = v /\ \A d \in Clients \ {c} : client'[d] = client[d]
  BY DEF Typed, ClientsGood
<1>2. \A d \in Clients : Right(d)
  BY AlongPathsIs
<1>3. ASSUME NEW d \in Clients PROVE Right(d)'
  <2>1. CASE d = c
    BY <2>1
  <2>2. CASE d # c
    BY <1>1, <1>2, <2>2, OthersRight
  <2>3. QED
    BY <2>1, <2>2
<1>4. Alone'
  BY <1>1 DEF AlongPaths, Alone
<1>5. (AlongPaths <=> Alone /\ \A d \in Clients : Right(d))'
  BY DEF AlongPaths, Right, Found
<1>6. QED
  BY <1>3, <1>4, <1>5

(* By one at a time: who begins is alone.                                   *)
LEMMA BeginsAlone ==
  ASSUME Serial, NEW c \in Clients, MayBegin(c)
  PROVE  \A d \in Clients : ~ OnItsWay(client[d])
BY DEF MayBegin, OnItsWay

LEMMA EntriesStay ==
  ASSUME UNCHANGED subs
  PROVE  KeepsEntries
BY DEF KeepsEntries

LEMMA BeginAlong ==
  ASSUME VirtualConstants, Typed, AlongPaths, Serial, NEW c \in Clients, NEW path \in Paths,
         \/ MkdirBegin(c, path)
         \/ \E n \in Optional : LinkBegin(c, path, n)
         \/ \E n \in Nodes : LinkEntry(c, path, n)
  PROVE  AlongPaths' /\ KeepsEntries
<1>1. KindsKept
  <2>1. (\E n \in Optional : LinkBegin(c, path, n)) => KindsKept
    BY LinkBeginTyped
  <2>2. QED
    BY <2>1 DEF MkdirBegin, LinkEntry, KindsKept
<1>2. UNCHANGED subs /\ MayBegin(c)
  BY DEF MkdirBegin, LinkBegin, LinkEntry
<1>3. KeepsEntries
  BY <1>2, EntriesStay
<1>4. PICK link, v : /\ client' = [client EXCEPT ![c] = v]
                     /\ v = [at |-> "load", node |-> Root, gone |-> 0, path |-> path,
                             link |-> link]
  <2>1. CASE MkdirBegin(c, path)
    <3>1. PICK v : v = [Idle EXCEPT !.at = "load", !.node = Root, !.path = path]
      OBVIOUS
    <3>2. v = [at |-> "load", node |-> Root, gone |-> 0, path |-> path, link |-> None]
      BY <3>1 DEF Idle
    <3>3. QED
      BY <2>1, <3>1, <3>2 DEF MkdirBegin, Enter
  <2>2. CASE (\E n \in Optional : LinkBegin(c, path, n)) \/ \E n \in Nodes : LinkEntry(c, path, n)
    <3>1. PICK link : client' = [client EXCEPT ![c] =
                        [Idle EXCEPT !.at = "load", !.node = Root, !.path = path, !.link = link]]
      BY <2>2 DEF LinkBegin, LinkEntry, Enter
    <3>2. PICK v : v = [Idle EXCEPT !.at = "load", !.node = Root, !.path = path, !.link = link]
      OBVIOUS
    <3>3. v = [at |-> "load", node |-> Root, gone |-> 0, path |-> path, link |-> link]
      BY <3>2 DEF Idle
    <3>4. QED
      BY <3>1, <3>2, <3>3
  <2>3. QED
    BY <2>1, <2>2
<1>5. Right(c)'
  BY <1>4, BeginRight
<1>6. \A d \in Clients : ~ OnItsWay(client[d])
  BY <1>2, BeginsAlone
<1>7. AlongPaths'
  BY <1>1, <1>3, <1>4, <1>5, <1>6, OneMoves
<1>8. QED
  BY <1>3, <1>7

(* Who moves while no entry changes.                                        *)
LEMMA MkdirLoadAlong ==
  ASSUME VirtualConstants, Typed, AlongPaths, NEW c \in Clients, MkdirLoad(c)
  PROVE  AlongPaths' /\ KeepsEntries
<1> DEFINE me == client[c]
           next == Load(me.node, Name(me))
<1>1. me.at = "load" /\ me.gone < Depth(me) /\ UNCHANGED <<kind, subs, target, handle>>
  BY DEF MkdirLoad
<1>2. KindsKept /\ KeepsEntries
  BY <1>1, EntriesStay DEF KindsKept
<1>3. OnItsWay(me) /\ Right(c)
  BY <1>1, AlongPathsIs DEF OnItsWay
<1>4. /\ me \in Calls /\ me.node \in Nodes /\ me.path \in Paths /\ me.gone \in Nat
      /\ Depth(me) \in Nat /\ Depth(me) <= Len(me.path)
  BY <1>3, OnItsWayHas
<1>5. \A d \in Clients \ {c} : ~ OnItsWay(client[d])
  BY <1>3 DEF AlongPaths, Alone
<1>6. PICK path \in Paths, k \in Nat, n \in Nodes : path = me.path /\ k = me.gone /\ n = me.node
  BY <1>4
<1>7. k < Len(path) /\ Walk(path)[k] = n /\ n # None
  <2>1. Len(path) \in Nat
    BY PathNames
  <2>2. QED
    BY <1>1, <1>3, <1>4, <1>6, <2>1 DEF Right, OnPath, VirtualConstants
<1>8. Walk(path)'[k] = n
  BY <1>2, <1>7, WalkStays DEF Typed
<1>9. Name(me) = path[k + 1]
  BY <1>6 DEF Name
<1>10. PICK v : client' = [client EXCEPT ![c] = v]
               /\ \/ v = [me EXCEPT !.at = "failed"]
                  \/ next = None /\ v = [me EXCEPT !.at = "store"]
                  \/ next # None /\ v = [me EXCEPT !.node = next, !.gone = @ + 1]
  BY DEF MkdirLoad, Enter
<1>11. client'[c] = v
  BY <1>10 DEF Typed, ClientsGood
<1>12. Right(c)'
  <2>1. CASE v = [me EXCEPT !.at = "failed"]
    <3>1. v.at = "failed"
      BY <1>4, <2>1 DEF Calls
    <3>2. QED
      BY <1>11, <3>1 DEF Right, OnPath, OnItsWay
  <2>2. CASE next = None /\ v = [me EXCEPT !.at = "store"]
    <3>1. v.at = "store" /\ v.node = n /\ v.gone = k /\ v.path = path
      BY <1>4, <1>6, <2>2 DEF Calls
    <3>2. Load(n, path[k + 1]) = None
      BY <1>6, <1>9, <2>2
    <3>3. Load(n, path[k + 1])' = None
      BY <1>1, <3>2 DEF Load, Resolve
    <3>4. Walk(client[c].path)' = Walk(path)'
      BY <1>11, <3>1
    <3>5. Load(client[c].node, Name(client[c]))' = None
      BY <1>11, <3>1, <3>3 DEF Load, Resolve, Name
    <3>6. QED
      BY <1>8, <1>11, <3>1, <3>4, <3>5 DEF Right, OnPath, OnItsWay
  <2>3. CASE next # None /\ v = [me EXCEPT !.node = next, !.gone = @ + 1]
    <3>1. v = [at |-> "load", node |-> next, gone |-> k + 1, path |-> path, link |-> me.link]
      <4> HIDE DEF next
      <4>1. QED
        BY <1>1, <1>4, <1>6, <2>3 DEF Calls
    <3>2. v.at = "load" /\ v.node = next /\ v.gone = k + 1 /\ v.path = path
      BY <3>1
    <3>3. Walk(path)'[k + 1] = Load(n, path[k + 1])'
      BY <1>7, <1>8, OneFurther
    <3>4. Load(n, path[k + 1])' = next
      BY <1>1, <1>6, <1>9 DEF Load, Resolve
    <3>5. Walk(client[c].path)' = Walk(path)'
      BY <1>11, <3>2
    <3> HIDE DEF next
    <3>6. QED
      BY <1>11, <3>2, <3>3, <3>4, <3>5 DEF Right, OnPath, OnItsWay
  <2>4. QED
    BY <1>10, <2>1, <2>2, <2>3
<1>13. AlongPaths'
  <2> HIDE DEF me, next
  <2>1. client' = [client EXCEPT ![c] = v]
    BY <1>10
  <2>2. QED
    BY <1>2, <1>5, <1>12, <2>1, OneMoves
<1>14. QED
  BY <1>2, <1>13

LEMMA MkdirReturnsAlong ==
  ASSUME VirtualConstants, Typed, AlongPaths, NEW c \in Clients, MkdirReturns(c)
  PROVE  AlongPaths' /\ KeepsEntries
<1> DEFINE me == client[c]
<1>1. /\ me.at = "load" /\ me.link = None /\ me.gone = Depth(me)
      /\ UNCHANGED <<kind, subs, target, handle>>
  BY DEF MkdirReturns
<1>2. KindsKept /\ KeepsEntries
  BY <1>1, EntriesStay DEF KindsKept
<1>3. OnItsWay(me) /\ Right(c)
  BY <1>1, AlongPathsIs DEF OnItsWay
<1>4. me \in Calls /\ me.node \in Nodes /\ me.path \in Paths
  BY <1>3, OnItsWayHas
<1>5. PICK path \in Paths, n \in Nodes : path = me.path /\ n = me.node
  BY <1>4
<1>6. Len(path) \in Nat /\ Walk(path)[Len(path)] = n /\ n # None
  BY <1>1, <1>3, <1>5, PathNames DEF Right, OnPath, Depth, VirtualConstants
<1>7. Walk(path)'[Len(path)] = n
  <2>1. Tree /\ Len(path) <= Len(path)
    BY <1>6 DEF Typed
  <2>2. QED
    BY <1>2, <1>6, <2>1, WalkStays
<1>8. PICK v : v = [me EXCEPT !.at = "made"]
  OBVIOUS
<1>9. client' = [client EXCEPT ![c] = v]
  BY <1>8 DEF MkdirReturns, Enter
<1>10. client'[c] = v /\ v.at = "made" /\ v.node = n /\ v.path = path
  BY <1>4, <1>5, <1>8, <1>9 DEF Typed, ClientsGood, Calls
<1>11. Right(c)'
  <2>1. Walk(client[c].path)' = Walk(path)'
    BY <1>10
  <2>2. QED
    BY <1>6, <1>7, <1>10, <2>1 DEF Right, OnPath, OnItsWay, Sub
<1>12. ~ OnItsWay(v) /\ UNCHANGED <<kind, subs, target>>
  BY <1>1, <1>10 DEF OnItsWay
<1>13. AlongPaths'
  <2> HIDE DEF me
  <2>1. QED
    BY <1>2, <1>9, <1>11, <1>12, OneMoves
<1>14. QED
  BY <1>2, <1>13

(* Who stores is alone on its way; it finds what it stored.                 *)
LEMMA StoreFound ==
  ASSUME VirtualConstants, Typed, KindsKept, KeepsEntries,
         NEW path \in Paths, NEW k \in Nat, k < Len(path), NEW n \in Nodes,
         kind[n] # "free", Walk(path)[k] = n, Resolve(n) \in Nodes,
         NEW new, subs' = [subs EXCEPT ![Resolve(n)][path[k + 1]] = new]
  PROVE  Walk(path)'[k + 1] = new
<1>1. Walk(path)'[k] = n
  <2>1. Tree /\ k <= Len(path) /\ n # None
    BY PathNames DEF Typed, VirtualConstants
  <2>2. QED
    BY <2>1, WalkStays
<1>2. Walk(path)'[k + 1] = Load(n, path[k + 1])'
  BY <1>1, OneFurther
<1>3. Resolve(n)' = Resolve(n) /\ Resolve(n) # None
  BY DEF KindsKept, Resolve, VirtualConstants
<1>4. path[k + 1] \in Names
  BY PathNames
<1>5. subs'[Resolve(n)][path[k + 1]] = new
  <2>1. subs[Resolve(n)] = [x \in Names |-> subs[Resolve(n)][x]]
    BY DEF Typed, Tree
  <2>2. QED
    BY <1>4, <2>1 DEF Typed, Tree
<1>6. QED
  BY <1>2, <1>3, <1>5 DEF Load

LEMMA MkdirStoreAlong ==
  ASSUME VirtualConstants, Typed, AlongPaths, NEW c \in Clients, MkdirStore(c)
  PROVE  AlongPaths' /\ KeepsEntries
<1> DEFINE me == client[c]
<1>1. me.at = "store"
  BY DEF MkdirStore
<1>2. KindsKept
  BY MkdirStoreTyped
<1>3. OnItsWay(me) /\ Right(c)
  BY <1>1, AlongPathsIs DEF OnItsWay
<1>4. /\ me \in Calls /\ me.node \in Nodes /\ kind[me.node] # "free" /\ me.path \in Paths
      /\ me.gone \in Nat /\ Depth(me) \in Nat /\ Depth(me) <= Len(me.path)
  BY <1>3, OnItsWayHas
<1>5. me.gone < Depth(me) /\ (kind[me.node] = "link" => target[me.node] # None)
  BY <1>1, <1>3 DEF Typed, ClientsGood, CallGood
<1>6. PICK path \in Paths, k \in Nat, n \in Nodes : path = me.path /\ k = me.gone /\ n = me.node
  BY <1>4
<1>7. k < Len(path) /\ Walk(path)[k] = n /\ kind[n] # "free"
      /\ Name(me) = path[k + 1] /\ Load(n, path[k + 1]) = None
  <2>1. Len(path) \in Nat
    BY PathNames
  <2>2. Name(me) = path[k + 1]
    BY <1>6 DEF Name
  <2>3. QED
    BY <1>1, <1>3, <1>4, <1>5, <1>6, <2>1, <2>2 DEF Right, OnPath
<1>8. Resolve(n) \in Nodes
  <2>1. Resolve(n) # None
    BY <1>5, <1>6 DEF Resolve, VirtualConstants
  <2>2. Tree /\ n \in Optional
    BY DEF Typed, Optional
  <2>3. QED
    BY <1>7, <2>1, <2>2, ResolveDir
<1>9. PICK new : \E v :
        /\ subs' = [subs EXCEPT ![Resolve(n)][path[k + 1]] = new]
        /\ client' = [client EXCEPT ![c] = v]
        /\ v = [me EXCEPT !.at = "load", !.node = new, !.gone = @ + 1]
  BY <1>6, <1>7 DEF MkdirStore, Enter
<1>10. PICK v :
        /\ subs' = [subs EXCEPT ![Resolve(n)][path[k + 1]] = new]
        /\ client' = [client EXCEPT ![c] = v]
        /\ v = [me EXCEPT !.at = "load", !.node = new, !.gone = @ + 1]
  BY <1>9
<1>11. KeepsEntries
  <2>1. subs[Resolve(n)][path[k + 1]] = None
    BY <1>7, <1>8 DEF Load, VirtualConstants
  <2>2. QED
    BY <1>10, <2>1 DEF KeepsEntries, Typed, Tree
<1>12. Walk(path)'[k + 1] = new
  BY <1>2, <1>7, <1>8, <1>10, <1>11, StoreFound
<1>13. client'[c] = v /\ v.at = "load" /\ v.node = new /\ v.gone = k + 1 /\ v.path = path
  <2>1. v = [at |-> "load", node |-> new, gone |-> k + 1, path |-> path, link |-> me.link]
    BY <1>4, <1>6, <1>10 DEF Calls
  <2>2. client'[c] = v
    BY <1>10 DEF Typed, ClientsGood
  <2>3. QED
    BY <2>1, <2>2
<1>14. Right(c)'
  <2>1. Walk(client[c].path)' = Walk(path)'
    BY <1>13
  <2>2. QED
    BY <1>12, <1>13, <2>1 DEF Right, OnPath, OnItsWay
<1>15. \A d \in Clients \ {c} : ~ OnItsWay(client[d])
  BY <1>3 DEF AlongPaths, Alone
<1>16. AlongPaths'
  <2>1. client' = [client EXCEPT ![c] = v]
    BY <1>10
  <2> HIDE DEF me
  <2>2. QED
    BY <1>2, <1>11, <1>14, <1>15, <2>1, OneMoves
<1>17. QED
  BY <1>11, <1>16

LEMMA LinkStoreAlong ==
  ASSUME VirtualConstants, Typed, AlongPaths, NEW c \in Clients, LinkStore(c)
  PROVE  AlongPaths' /\ KeepsEntries
<1> DEFINE me == client[c]
<1>1. /\ OnItsWay(me) /\ me \in Calls /\ me.path \in Paths /\ me.gone \in Nat
      /\ me.gone + 1 = Len(me.path) /\ me.link # None
      /\ (Resolve(me.node) # None => Resolve(me.node) \in Nodes)
  BY LinkStoreAt
<1>2. KindsKept
  BY LinkStoreTyped
<1>3. Right(c) /\ me.node \in Nodes /\ kind[me.node] # "free"
  BY <1>1, AlongPathsIs, OnItsWayHas
<1>4. \A d \in Clients \ {c} : ~ OnItsWay(client[d])
  BY <1>1 DEF AlongPaths, Alone
<1>5. PICK path \in Paths, k \in Nat, n \in Nodes : path = me.path /\ k = me.gone /\ n = me.node
  BY <1>1, <1>3
<1>6. k + 1 = Len(path) /\ k < Len(path) /\ Walk(path)[k] = n /\ kind[n] # "free"
      /\ Name(me) = path[k + 1] /\ path[k + 1] \in Names
  BY <1>1, <1>3, <1>5, PathNames DEF Right, OnPath, Name
<1>7. CASE Resolve(n) = None \/ subs[Resolve(n)][path[k + 1]] # None
  <2>1. PICK v : v = [me EXCEPT !.at = "failed"]
    OBVIOUS
  <2>2. client' = [client EXCEPT ![c] = v] /\ UNCHANGED subs
    BY <1>5, <1>6, <1>7, <2>1 DEF LinkStore, Enter
  <2>3. client'[c] = v /\ v.at = "failed"
    BY <1>1, <2>1, <2>2 DEF Typed, ClientsGood, Calls
  <2>4. Right(c)'
    BY <2>3 DEF Right, OnPath, OnItsWay
  <2>5. KeepsEntries
    BY <2>2, EntriesStay
  <2>6. AlongPaths'
    BY <1>2, <1>4, <2>2, <2>4, <2>5, OneMoves
  <2>7. QED
    BY <2>5, <2>6
<1>8. CASE ~ (Resolve(n) = None \/ subs[Resolve(n)][path[k + 1]] # None)
  <2>1. PICK v : v = [me EXCEPT !.at = "linked"]
    OBVIOUS
  <2>2. /\ client' = [client EXCEPT ![c] = v]
        /\ subs' = [subs EXCEPT ![Resolve(n)][path[k + 1]] = me.link]
    BY <1>5, <1>6, <1>8, <2>1 DEF LinkStore, Enter
  <2>3. client'[c] = v /\ v.at = "linked" /\ v.path = path /\ v.link = me.link
    BY <1>1, <1>5, <2>1, <2>2 DEF Typed, ClientsGood, Calls
  <2>4. KeepsEntries
    BY <1>8, <2>2 DEF KeepsEntries, Typed, Tree
  <2>5. Walk(path)'[k + 1] = me.link
    <3>1. Resolve(n) \in Nodes
      BY <1>1, <1>5, <1>8
    <3>2. QED
      BY <1>2, <1>6, <2>2, <2>4, <3>1, StoreFound
  <2>6. Right(c)'
    <3>1. Walk(client[c].path)' = Walk(path)'
      BY <2>3
    <3>2. QED
      BY <1>1, <1>6, <2>3, <2>5, <3>1 DEF Right, OnPath, OnItsWay, Sub
  <2>7. AlongPaths'
    BY <1>2, <1>4, <2>2, <2>4, <2>6, OneMoves
  <2>8. QED
    BY <2>4, <2>7
<1>9. QED
  BY <1>7, <1>8

LEMMA StaysAlong ==
  ASSUME VirtualConstants, Typed, AlongPaths, UNCHANGED <<kind, subs, target, client>>
  PROVE  AlongPaths' /\ KeepsEntries
<1>1. KindsKept /\ KeepsEntries
  BY EntriesStay DEF KindsKept
<1>2. \A d \in Clients : Right(d)
  BY AlongPathsIs
<1>3. \A d \in Clients : Right(d)'
  BY <1>1, <1>2, OthersRight
<1>4. Alone'
  BY DEF AlongPaths, Alone
<1>5. (AlongPaths <=> Alone /\ \A d \in Clients : Right(d))'
  BY DEF AlongPaths, Right, Found
<1>6. QED
  BY <1>1, <1>3, <1>4, <1>5

LEMMA HandleNext ==
  ASSUME NEW h \in Handles,
         \/ \E path \in Paths \cup {<< >>} : OpenDir(h, path)
         \/ \E path \in Paths, access \in {{"r"}, {"w"}, {"r", "w"}} : Create(h, path, access)
         \/ \E off \in 0 .. MaxData : Seek(h, off)
         \/ \E n \in 1 .. MaxData : Read(h, n)
         \/ \E b \in UNION {[1 .. n -> Octets] : n \in 1 .. 2} : Write(h, b)
         \/ ReadDir(h)
  PROVE  UNCHANGED <<kind, subs, target, client>>
BY DEF OpenDir, Create, Seek, Read, Write, ReadDir

LEMMA NextAlong ==
  ASSUME VirtualConstants, Serial, ~ DirHandles, Typed, AlongPaths, Next
  PROVE  AlongPaths' /\ KeepsEntries
<1>1. CASE \E c \in Clients, path \in Paths :
             \/ MkdirBegin(c, path)
             \/ \E n \in Nodes \cup {None} : LinkBegin(c, path, n)
             \/ \E n \in Nodes : LinkEntry(c, path, n)
  <2>1. PICK c \in Clients, path \in Paths :
             \/ MkdirBegin(c, path)
             \/ \E n \in Optional : LinkBegin(c, path, n)
             \/ \E n \in Nodes : LinkEntry(c, path, n)
    BY <1>1 DEF Optional
  <2>2. QED
    BY <2>1, BeginAlong
<1>2. CASE \E c \in Clients :
             MkdirLoad(c) \/ MkdirStore(c) \/ MkdirReturns(c) \/ LinkStore(c)
  BY <1>2, MkdirLoadAlong, MkdirStoreAlong, MkdirReturnsAlong, LinkStoreAlong
<1>3. CASE \E h \in Handles :
             \/ \E path \in Paths \cup {<< >>} : OpenDir(h, path)
             \/ \E path \in Paths, access \in {{"r"}, {"w"}, {"r", "w"}} :
                  Create(h, path, access)
             \/ \E off \in 0 .. MaxData : Seek(h, off)
             \/ \E n \in 1 .. MaxData : Read(h, n)
             \/ \E b \in UNION {[1 .. n -> Octets] : n \in 1 .. 2} : Write(h, b)
             \/ ReadDir(h)
  <2>1. UNCHANGED <<kind, subs, target, client>>
    BY <1>3, HandleNext
  <2>2. QED
    BY <2>1, StaysAlong
<1>4. CASE \E h \in Handles, x \in Names : HandleMkdir(h, x)
  BY <1>4 DEF HandleMkdir
<1>5. QED
  BY <1>1, <1>2, <1>3, <1>4 DEF Next

LEMMA InitAlong ==
  ASSUME Init
  PROVE  AlongPaths
<1>1. \A c \in Clients : client[c].at = "idle"
  BY DEF Init, Idle
<1>2. QED
  BY <1>1 DEF AlongPaths, Alone, OnPath, Found, OnItsWay

LEMMA AlongStays ==
  ASSUME VirtualConstants, Serial, ~ DirHandles, Typed, AlongPaths, [Next]_vars
  PROVE  AlongPaths'
<1>1. CASE UNCHANGED vars
  <2>1. UNCHANGED <<kind, subs, target, client>>
    BY <1>1 DEF vars
  <2>2. QED
    BY <2>1, StaysAlong
<1>2. QED
  BY <1>1, NextAlong

LEMMA AlongAlways ==
  ASSUME VirtualConstants, Serial, ~ DirHandles
  PROVE  Spec => [](Typed /\ AlongPaths)
<1>1. Typed /\ AlongPaths /\ [Next]_vars => (Typed /\ AlongPaths)'
  BY TypedStays, AlongStays
<1>2. Init => Typed /\ AlongPaths
  BY InitTyped, InitAlong
<1>3. QED
  BY <1>1, <1>2, PTL DEF Spec

(* By one at a time: the directory a client got from Mkdir is the one its   *)
(* path leads to, and what it linked is found under the name it gave        *)
(* (dirFS.Mkdir, dirFS.Link).                                               *)
THEOREM VirtualFound ==
  ASSUME VirtualConstants, Serial, ~ DirHandles
  PROVE  Spec => []Found
<1>1. Typed /\ AlongPaths => Found
  BY DEF AlongPaths
<1>2. QED
  BY <1>1, AlongAlways, PTL

(* By one at a time no entry is ever replaced (dirFS.Mkdir, dirFS.Link).    *)
THEOREM VirtualEntriesKept ==
  ASSUME VirtualConstants, Serial, ~ DirHandles
  PROVE  Spec => EntriesKept
<1>1. Typed /\ AlongPaths /\ [Next]_vars => [KeepsEntries]_vars
  BY NextAlong
<1>2. QED
  BY <1>1, AlongAlways, PTL DEF Spec, EntriesKept

-----------------------------------------------------------------------------
(* Listings, when no file system has two names                              *)

LinksLead == \A n \in Nodes : kind[n] = "link" => target[n] # None

LEMMA EntryLeads ==
  ASSUME VirtualConstants, LinksLead, NEW n \in Nodes
  PROVE  Resolve(n) # None
BY DEF LinksLead, Resolve, VirtualConstants

(* An entry more, of what is no entry yet: each file system has still one   *)
(* name, and handles remember what they did.                                *)
LEMMA OneMore ==
  ASSUME VirtualConstants, Typed, AllListed, NEW d \in Nodes, NEW x \in Names, NEW new \in Nodes,
         subs[d][x] = None, \A n \in Nodes, y \in Names : subs[n][y] # new,
         subs' = [subs EXCEPT ![d][x] = new]
  PROVE  /\ \A n, m \in Nodes, y, z \in Names :
              subs'[n][y] # None /\ subs'[n][y] = subs'[m][z] => n = m /\ y = z
         /\ \A h \in Handles : UNCHANGED handle[h] => Remembered(handle[h])'
<1>1. subs \in [Nodes -> [Names -> Optional]] /\ new # None
  BY DEF Typed, Tree, VirtualConstants
<1>2. /\ subs'[d][x] = new
      /\ \A n \in Nodes, y \in Names : ~ (n = d /\ y = x) => subs'[n][y] = subs[n][y]
  BY <1>1
<1>3. ASSUME NEW n \in Nodes, NEW m \in Nodes, NEW y \in Names, NEW z \in Names,
             subs'[n][y] # None, subs'[n][y] = subs'[m][z]
      PROVE  n = m /\ y = z
  <2>1. CASE n = d /\ y = x
    BY <1>2, <1>3, <2>1
  <2>2. CASE ~ (n = d /\ y = x)
    <3>1. subs'[n][y] = subs[n][y] /\ subs'[n][y] # new
      BY <1>2, <2>2
    <3>2. ~ (m = d /\ z = x)
      BY <1>2, <1>3, <3>1
    <3>3. subs'[m][z] = subs[m][z]
      BY <1>2, <3>2
    <3>4. QED
      BY <1>3, <3>1, <3>3 DEF AllListed, OneName
  <2>3. QED
    BY <2>1, <2>2
<1>4. ASSUME NEW h \in Handles, UNCHANGED handle[h], handle[h].kind = "dir"
      PROVE  Remembered(handle[h])'
  <2> DEFINE f == handle[h]
  <2>1. f \in Records /\ f.node \in Nodes
    BY <1>4, HandleIs
  <2>2. /\ \A g \in f.read : \E y \in Names : subs[f.node][y] = g
        /\ \A y \in Entries(f.node) : subs[f.node][y] \in f.read => y \in f.listed
        /\ f.read \subseteq Nodes
    BY <1>4, <2>1 DEF AllListed, Remembered, Records
  <2>3. new \notin f.read
    BY <2>1, <2>2
  <2>4. ASSUME NEW g \in f.read PROVE \E y \in Names : subs'[f.node][y] = g
    <3>1. PICK y \in Names : subs[f.node][y] = g
      BY <2>2
    <3>2. g # None
      BY <2>2 DEF VirtualConstants
    <3>3. subs'[f.node][y] = g
      BY <1>2, <2>1, <3>1, <3>2
    <3>4. QED
      BY <3>3
  <2>5. ASSUME NEW y \in Names, subs'[f.node][y] # None, subs'[f.node][y] \in f.read
        PROVE  y \in f.listed
    <3>1. subs'[f.node][y] = subs[f.node][y]
      BY <1>2, <2>1, <2>3, <2>5
    <3>2. QED
      BY <2>2, <2>5, <3>1 DEF Entries
  <2>6. f' = f
    BY <1>4
  <2>7. QED
    BY <2>4, <2>5, <2>6 DEF Remembered, Entries
<1>5. ASSUME NEW h \in Handles, UNCHANGED handle[h], handle[h].kind # "dir"
      PROVE  Remembered(handle[h])'
  BY <1>5 DEF Remembered
<1>6. QED
  BY <1>3, <1>4, <1>5

(* As long as the entries stay so does what a handle remembers.             *)
LEMMA RememberedStays ==
  ASSUME UNCHANGED subs, NEW h \in Handles, UNCHANGED handle[h], Remembered(handle[h])
  PROVE  Remembered(handle[h])'
BY DEF Remembered, Entries

LEMMA LinkBeginListed ==
  ASSUME VirtualConstants, Serial, ~ Alias, Typed, AllListed,
         NEW c \in Clients, NEW path \in Paths, NEW n \in Optional, LinkBegin(c, path, n)
  PROVE  AllListed'
<1>1. PICK new \in Free :
        /\ kind' = [kind EXCEPT ![new] = "link"]
        /\ target' = [target EXCEPT ![new] = Resolve(n)]
        /\ \E v : /\ v = [Idle EXCEPT !.at = "load", !.node = Root, !.path = path, !.link = new]
                  /\ client' = [client EXCEPT ![c] = v]
  BY DEF LinkBegin, Enter
<1>2. UNCHANGED <<subs, handle>> /\ n \in Roots /\ MayBegin(c)
  BY DEF LinkBegin
<1>3. PICK v : /\ v = [Idle EXCEPT !.at = "load", !.node = Root, !.path = path, !.link = new]
               /\ client' = [client EXCEPT ![c] = v]
  BY <1>1
<1>4. v.link = new
  BY <1>3 DEF Idle
<1>5. new \in Nodes /\ kind[new] = "free"
  BY DEF Free
<1>6. \A m \in Nodes, x \in Names : subs[m][x] # new
  BY <1>5 DEF Typed, Tree, VirtualConstants
<1>7. LinksLead'
  <2>1. n \in Nodes /\ kind[n] = "dir"
    BY <1>2 DEF Typed, Tree, VirtualConstants
  <2>2. Resolve(n) # None
    BY <2>1 DEF Resolve, VirtualConstants
  <2>3. kind' = [kind EXCEPT ![new] = "link"] /\ target' = [target EXCEPT ![new] = Resolve(n)]
    BY <1>1
  <2>4. LinksLead /\ kind \in [Nodes -> {"free", "dir", "link"}] /\ target \in [Nodes -> Optional]
    BY DEF AllListed, OneName, LinksLead, Typed, Tree
  <2>5. QED
    BY <1>5, <2>2, <2>3, <2>4 DEF LinksLead
<1>8. ASSUME NEW d \in Clients, OnItsWay(client'[d]), client'[d].link # None,
             NEW m \in Nodes, NEW x \in Names
      PROVE  subs'[m][x] # client'[d].link
  <2>1. d = c
    <3>1. ~ OnItsWay(client[d])
      BY <1>2, BeginsAlone
    <3>2. QED
      BY <1>3, <1>8, <3>1 DEF Typed, ClientsGood
  <2>2. client'[d] = v
    BY <1>3, <2>1 DEF Typed, ClientsGood
  <2>3. QED
    BY <1>2, <1>4, <1>6, <2>2
<1>9. OneName'
  BY <1>2, <1>7, <1>8 DEF AllListed, OneName, LinksLead
<1>10. \A h \in Handles : Remembered(handle[h])'
  BY <1>2, RememberedStays DEF AllListed
<1>11. QED
  BY <1>9, <1>10 DEF AllListed

(* A client that goes on without a store has the link it had.               *)
LEMMA NoStoreListed ==
  ASSUME Typed, AllListed, NEW c \in Clients, NEW v, client' = [client EXCEPT ![c] = v],
         OnItsWay(v) => (v.link = None \/ (OnItsWay(client[c]) /\ v.link = client[c].link)),
         UNCHANGED <<kind, subs, target, handle>>
  PROVE  AllListed'
<1>1. client'[c] = v /\ \A d \in Clients \ {c} : client'[d] = client[d]
  BY DEF Typed, ClientsGood
<1>2. ASSUME NEW d \in Clients, OnItsWay(client'[d]), client'[d].link # None,
             NEW n \in Nodes, NEW x \in Names
      PROVE  subs'[n][x] # client'[d].link
  BY <1>1, <1>2 DEF AllListed, OneName
<1>3. OneName'
  BY <1>2 DEF AllListed, OneName
<1>4. \A h \in Handles : Remembered(handle[h])'
  BY RememberedStays DEF AllListed
<1>5. QED
  BY <1>3, <1>4 DEF AllListed

LEMMA MkdirListed ==
  ASSUME VirtualConstants, Typed, AllListed, NEW c \in Clients,
         (\E path \in Paths : MkdirBegin(c, path)) \/ MkdirLoad(c) \/ MkdirReturns(c)
  PROVE  AllListed'
<1>1. UNCHANGED <<kind, subs, target, handle>> /\ client[c] \in Calls
  BY DEF MkdirBegin, MkdirLoad, MkdirReturns, Typed, ClientsGood
<1>2. CASE \E path \in Paths : MkdirBegin(c, path)
  <2>1. PICK path \in Paths : MkdirBegin(c, path)
    BY <1>2
  <2>2. PICK v : v = [Idle EXCEPT !.at = "load", !.node = Root, !.path = path]
    OBVIOUS
  <2>3. client' = [client EXCEPT ![c] = v] /\ v.link = None
    BY <2>1, <2>2 DEF MkdirBegin, Enter, Idle
  <2>4. QED
    BY <1>1, <2>3, NoStoreListed
<1>3. CASE MkdirLoad(c)
  <2>1. PICK v : /\ client' = [client EXCEPT ![c] = v]
                 /\ \/ \E at : v = [client[c] EXCEPT !.at = at]
                    \/ \E n : v = [client[c] EXCEPT !.node = n, !.gone = @ + 1]
    BY <1>3 DEF MkdirLoad, Enter
  <2>2. v.link = client[c].link
    BY <1>1, <2>1 DEF Calls
  <2>3. OnItsWay(client[c])
    BY <1>3 DEF MkdirLoad, OnItsWay
  <2>4. QED
    BY <1>1, <2>1, <2>2, <2>3, NoStoreListed
<1>4. CASE MkdirReturns(c)
  <2>1. PICK v : v = [client[c] EXCEPT !.at = "made"]
    OBVIOUS
  <2>2. client' = [client EXCEPT ![c] = v] /\ v.at = "made"
    BY <1>1, <1>4, <2>1 DEF MkdirReturns, Enter, Calls
  <2>3. ~ OnItsWay(v)
    BY <2>2 DEF OnItsWay
  <2>4. QED
    BY <1>1, <2>2, <2>3, NoStoreListed
<1>5. QED
  BY <1>2, <1>3, <1>4

LEMMA MkdirStoreListed ==
  ASSUME VirtualConstants, Typed, AlongPaths, AllListed, NEW c \in Clients, MkdirStore(c)
  PROVE  AllListed'
<1> DEFINE me == client[c]
<1>1. me.at = "store" /\ UNCHANGED <<target, handle>>
  BY DEF MkdirStore
<1>2. OnItsWay(me) /\ Right(c)
  BY <1>1, AlongPathsIs DEF OnItsWay
<1>3. /\ me \in Calls /\ me.node \in Nodes /\ kind[me.node] # "free" /\ me.path \in Paths
      /\ me.gone \in Nat /\ Depth(me) \in Nat /\ Depth(me) <= Len(me.path)
  BY <1>2, OnItsWayHas
<1>4. me.gone < Depth(me) /\ (kind[me.node] = "link" => target[me.node] # None)
  BY <1>1, <1>2 DEF Typed, ClientsGood, CallGood
<1>5. Name(me) \in Names
  <2>1. Len(me.path) \in Nat
    BY <1>3, PathNames
  <2>2. me.gone < Len(me.path)
    BY <1>3, <1>4, <2>1
  <2>3. QED
    BY <1>2, <2>2, OnItsWayHas
<1>6. PICK d \in Nodes, x \in Names : d = Resolve(me.node) /\ x = Name(me) /\ subs[d][x] = None
  <2>1. Resolve(me.node) # None
    BY <1>3, <1>4 DEF Resolve, VirtualConstants
  <2>2. Resolve(me.node) \in Nodes
    BY <1>3, <2>1, ResolveDir DEF Typed, Optional
  <2>3. subs[Resolve(me.node)][Name(me)] = None
    BY <1>1, <1>2, <2>1 DEF Right, OnPath, Load
  <2>4. QED
    BY <1>5, <2>2, <2>3
<1>7. PICK new \in Free :
        /\ kind' = [kind EXCEPT ![new] = "dir"]
        /\ subs' = [subs EXCEPT ![d][x] = new]
        /\ \E v : /\ client' = [client EXCEPT ![c] = v]
                  /\ v = [me EXCEPT !.at = "load", !.node = new, !.gone = @ + 1]
  BY <1>6 DEF MkdirStore, Enter
<1>8. PICK v : /\ client' = [client EXCEPT ![c] = v]
               /\ v = [me EXCEPT !.at = "load", !.node = new, !.gone = @ + 1]
  BY <1>7
<1>9. v.link = me.link
  BY <1>3, <1>8 DEF Calls
<1>10. /\ new \in Nodes /\ kind[new] = "free"
       /\ \A n \in Nodes, y \in Names : subs[n][y] # new
  BY DEF Free, Typed, Tree, VirtualConstants
<1>11. /\ \A n, m \in Nodes, y, z \in Names :
            subs'[n][y] # None /\ subs'[n][y] = subs'[m][z] => n = m /\ y = z
       /\ \A h \in Handles : Remembered(handle[h])'
  <2>1. /\ \A n, m \in Nodes, y, z \in Names :
            subs'[n][y] # None /\ subs'[n][y] = subs'[m][z] => n = m /\ y = z
        /\ \A h \in Handles : UNCHANGED handle[h] => Remembered(handle[h])'
    BY <1>6, <1>7, <1>10, OneMore
  <2>2. QED
    BY <1>1, <2>1
<1>12. LinksLead'
  BY <1>1, <1>7, <1>10 DEF AllListed, OneName, LinksLead, Typed, Tree
<1>13. ASSUME NEW e \in Clients, OnItsWay(client'[e]), client'[e].link # None,
              NEW n \in Nodes, NEW y \in Names
       PROVE  subs'[n][y] # client'[e].link
  <2>1. PICK l : l = client'[e].link
    OBVIOUS
  <2>2. OnItsWay(client[e]) /\ client[e].link = l
    <3>1. client'[c] = v /\ \A d2 \in Clients \ {c} : client'[d2] = client[d2]
      BY <1>8 DEF Typed, ClientsGood
    <3>2. QED
      BY <1>2, <1>9, <1>13, <2>1, <3>1
  <2>3. kind[l] # "free" /\ l # None
    BY <1>13, <2>1, <2>2, OnItsWayHas
  <2>4. subs[n][y] # l
    BY <2>2, <2>3 DEF AllListed, OneName
  <2>5. subs'[n][y] = subs[n][y] \/ subs'[n][y] = new
    BY <1>7 DEF Typed, Tree
  <2>6. QED
    BY <1>10, <2>1, <2>3, <2>4, <2>5
<1>14. QED
  BY <1>11, <1>12, <1>13 DEF AllListed, OneName, LinksLead

LEMMA LinkStoreListed ==
  ASSUME VirtualConstants, Typed, AlongPaths, AllListed, NEW c \in Clients, LinkStore(c)
  PROVE  AllListed'
<1> DEFINE me == client[c]
<1>1. /\ OnItsWay(me) /\ me \in Calls /\ Name(me) \in Names
      /\ me.link # None /\ me.link \in Nodes
      /\ (Resolve(me.node) # None => Resolve(me.node) \in Nodes)
  BY LinkStoreAt
<1>2. UNCHANGED <<kind, target, handle>>
  BY DEF LinkStore
<1>3. PICK v : /\ client' = [client EXCEPT ![c] = v]
               /\ v = [me EXCEPT !.at = "failed"] \/ v = [me EXCEPT !.at = "linked"]
  BY DEF LinkStore, Enter
<1>4. ~ OnItsWay(v)
  <2>1. v.at = "failed" \/ v.at = "linked"
    BY <1>1, <1>3 DEF Calls
  <2>2. QED
    BY <2>1 DEF OnItsWay
<1>5. CASE UNCHANGED subs
  BY <1>2, <1>3, <1>4, <1>5, NoStoreListed
<1>6. CASE ~ UNCHANGED subs
  <2>1. PICK d \in Nodes, x \in Names, new \in Nodes :
          /\ new = me.link /\ subs[d][x] = None /\ subs' = [subs EXCEPT ![d][x] = new]
    <3>1. /\ Resolve(me.node) # None /\ subs[Resolve(me.node)][Name(me)] = None
          /\ subs' = [subs EXCEPT ![Resolve(me.node)][Name(me)] = me.link]
      BY <1>6 DEF LinkStore
    <3>2. QED
      BY <1>1, <3>1
  <2>2. \A n \in Nodes, y \in Names : subs[n][y] # new
    BY <1>1, <2>1 DEF AllListed, OneName
  <2>3. /\ \A n, m \in Nodes, y, z \in Names :
            subs'[n][y] # None /\ subs'[n][y] = subs'[m][z] => n = m /\ y = z
        /\ \A h \in Handles : UNCHANGED handle[h] => Remembered(handle[h])'
    BY <2>1, <2>2, OneMore
  <2>4. ASSUME NEW e \in Clients PROVE ~ OnItsWay(client'[e])
    <3>1. client'[c] = v /\ \A d2 \in Clients \ {c} : client'[d2] = client[d2]
      BY <1>3 DEF Typed, ClientsGood
    <3>2. QED
      BY <1>1, <1>4, <3>1 DEF AlongPaths, Alone
  <2>5. OneName'
    BY <1>2, <2>3, <2>4 DEF AllListed, OneName
  <2>6. QED
    BY <1>2, <2>3, <2>5 DEF AllListed
<1>7. QED
  BY <1>5, <1>6

(* A step of one handle: what it remembers is all there is to see to.       *)
LEMMA HandleListed ==
  ASSUME Typed, AllListed, UNCHANGED <<kind, subs, target, client>>, NEW h \in Handles, NEW v,
         handle' = [handle EXCEPT ![h] = v], Remembered(v)
  PROVE  AllListed'
<1>1. handle'[h] = v /\ \A g \in Handles \ {h} : handle'[g] = handle[g]
  BY DEF Typed, HandlesGood
<1>2. OneName'
  BY DEF AllListed, OneName
<1>3. ASSUME NEW g \in Handles PROVE Remembered(handle[g])'
  <2>1. CASE g = h
    BY <1>1, <2>1 DEF Remembered, Entries
  <2>2. CASE g # h
    BY <1>1, <2>2, RememberedStays DEF AllListed
  <2>3. QED
    BY <2>1, <2>2
<1>4. QED
  BY <1>2, <1>3 DEF AllListed

LEMMA ReadDirListed ==
  ASSUME VirtualConstants, Typed, AllListed, NEW h \in Handles, ReadDir(h)
  PROVE  AllListed' /\ ListsEntries
<1> DEFINE f == handle[h]
<1>1. f \in Records /\ f.kind = "dir" /\ f.node \in Nodes
  BY HandleIs DEF ReadDir
<1>2. ~ Failing(f)
  <2>1. \A x \in Unread(f) : subs[f.node][x] \in Nodes
    BY <1>1 DEF Unread, Entries, Typed, Tree, Optional
  <2>2. LinksLead
    BY DEF AllListed, OneName, LinksLead
  <2>3. QED
    BY <2>1, <2>2, EntryLeads DEF Failing
<1>3. PICK X \in SUBSET Unread(f), v \in Records :
        /\ handle' = [handle EXCEPT ![h] = v]
        /\ v.kind = "dir" /\ v.node = f.node /\ v.read = f.read \cup Files(f, X)
        /\ v.listed = f.listed \cup X /\ Files(f, X) = Files(f, Unread(f))
  BY <1>2, ReadDirDoes
<1>4. /\ \A g \in f.read : \E x \in Names : subs[f.node][x] = g
      /\ \A x \in Entries(f.node) : subs[f.node][x] \in f.read => x \in f.listed
  BY <1>1 DEF AllListed, Remembered
<1>5. \A x \in X : x \in Names /\ subs[f.node][x] # None
  BY DEF Unread, Entries
<1>6. ASSUME NEW x \in Entries(f.node), subs[f.node][x] \in v.read PROVE x \in v.listed
  <2>1. CASE subs[f.node][x] \in f.read
    BY <1>3, <1>4, <2>1
  <2>2. CASE subs[f.node][x] \in Files(f, X)
    <3>1. PICK y \in X : subs[f.node][x] = subs[f.node][y]
      BY <2>2 DEF Files
    <3>2. x = y
      BY <1>1, <1>5, <3>1 DEF AllListed, OneName, Entries
    <3>3. QED
      BY <1>3, <3>2
  <2>3. QED
    BY <1>3, <1>6, <2>1, <2>2
<1>7. Remembered(v)
  <2>1. ASSUME NEW g \in v.read PROVE \E x \in Names : subs[f.node][x] = g
    <3>1. CASE g \in f.read
      BY <1>4, <3>1
    <3>2. CASE g \in Files(f, X)
      BY <1>5, <3>2 DEF Files
    <3>3. QED
      BY <1>3, <2>1, <3>1, <3>2
  <2>2. QED
    BY <1>3, <1>6, <2>1 DEF Remembered
<1>8. UNCHANGED <<kind, subs, target, client>>
  BY DEF ReadDir
<1>9. AllListed'
  BY <1>3, <1>7, <1>8, HandleListed
<1>10. Entries(f.node) \subseteq v.listed
  <2>1. ASSUME NEW x \in Entries(f.node) PROVE subs[f.node][x] \in v.read
    <3>1. CASE x \in Unread(f)
      BY <1>3, <3>1 DEF Files
    <3>2. CASE x \notin Unread(f)
      BY <1>3, <3>2 DEF Unread
    <3>3. QED
      BY <3>1, <3>2
  <2>2. QED
    BY <1>6, <2>1
<1>11. handle'[h] = v /\ \A g \in Handles \ {h} : handle'[g] = handle[g]
  BY <1>3 DEF Typed, HandlesGood
<1>12. ListsEntries
  BY <1>10, <1>11 DEF ListsEntries
<1>13. QED
  BY <1>9, <1>12

(* The handles that are not of directories, and those that are new.         *)
LEMMA OtherHandles ==
  ASSUME VirtualConstants, Typed, AllListed, NEW h \in Handles,
         \/ \E path \in Paths \cup {<< >>} : OpenDir(h, path)
         \/ \E path \in Paths, access \in {{"r"}, {"w"}, {"r", "w"}} : Create(h, path, access)
         \/ \E off \in 0 .. MaxData : Seek(h, off)
         \/ \E n \in 1 .. MaxData : Read(h, n)
         \/ \E b \in UNION {[1 .. n -> Octets] : n \in 1 .. 2} : Write(h, b)
  PROVE  AllListed' /\ ListsEntries
<1>1. UNCHANGED <<kind, subs, target, client>> /\ handle[h] \in Records
  BY HandleNext, HandleIs
<1>2. PICK v : handle' = [handle EXCEPT ![h] = v] /\ handle[h].kind # "dir" /\ Remembered(v)
  <2>1. CASE \/ \E path \in Paths \cup {<< >>} : OpenDir(h, path)
             \/ \E path \in Paths, access \in {{"r"}, {"w"}, {"r", "w"}} : Create(h, path, access)
    <3>1. CASE \E path \in Paths \cup {<< >>} : OpenDir(h, path)
      <4>1. PICK n : handle' = [handle EXCEPT ![h] = [Unused EXCEPT !.kind = "dir", !.node = n]]
        BY <3>1 DEF OpenDir, Hold
      <4>2. PICK v : v = [Unused EXCEPT !.kind = "dir", !.node = n]
        OBVIOUS
      <4>3. v.read = {}
        BY <4>2 DEF Unused
      <4>4. handle' = [handle EXCEPT ![h] = v] /\ handle[h].kind = "none"
        BY <3>1, <4>1, <4>2 DEF OpenDir
      <4>5. QED
        BY <4>3, <4>4 DEF Remembered
    <3>2. CASE \E path \in Paths, access \in {{"r"}, {"w"}, {"r", "w"}} : Create(h, path, access)
      <4>1. PICK n, x, a :
              handle' = [handle EXCEPT ![h] = [Unused EXCEPT !.kind = "file", !.node = n,
                                                             !.name = x, !.access = a]]
        BY <3>2 DEF Create, Hold
      <4>2. PICK v : v = [Unused EXCEPT !.kind = "file", !.node = n, !.name = x, !.access = a]
        OBVIOUS
      <4>3. v.read = {}
        BY <4>2 DEF Unused
      <4>4. handle' = [handle EXCEPT ![h] = v] /\ handle[h].kind = "none"
        BY <3>2, <4>1, <4>2 DEF Create
      <4>5. QED
        BY <4>3, <4>4 DEF Remembered
    <3>3. QED
      BY <2>1, <3>1, <3>2
  <2>2. CASE \E off \in 0 .. MaxData : Seek(h, off)
    <3>1. PICK v : /\ handle' = [handle EXCEPT ![h] = v] /\ handle[h].kind = "file"
                   /\ \E off : v = [handle[h] EXCEPT !.off = off]
      BY <2>2 DEF Seek, Hold
    <3>2. v.kind = "file"
      BY <1>1, <3>1 DEF Records
    <3>3. QED
      BY <3>1, <3>2 DEF Remembered
  <2>3. CASE \E n \in 1 .. MaxData : Read(h, n)
    <3>1. PICK v : /\ handle' = [handle EXCEPT ![h] = v] /\ handle[h].kind = "file"
                   /\ \E off : v = [handle[h] EXCEPT !.off = off]
      BY <2>3 DEF Read, Hold
    <3>2. v.kind = "file"
      BY <1>1, <3>1 DEF Records
    <3>3. QED
      BY <3>1, <3>2 DEF Remembered
  <2>4. CASE \E b \in UNION {[1 .. n -> Octets] : n \in 1 .. 2} : Write(h, b)
    <3>1. PICK v : handle' = [handle EXCEPT ![h] = v] /\ handle[h].kind = "file"
                   /\ v.kind = "file"
      BY <2>4, TextIs, WriteDoes
    <3>2. QED
      BY <3>1 DEF Remembered
  <2>5. QED
    BY <2>1, <2>2, <2>3, <2>4
<1>3. AllListed'
  BY <1>1, <1>2, HandleListed
<1>4. \A g \in Handles \ {h} : handle'[g] = handle[g]
  BY <1>2 DEF Typed, HandlesGood
<1>5. ListsEntries
  BY <1>2, <1>4 DEF ListsEntries
<1>6. QED
  BY <1>3, <1>5

LEMMA NextListed ==
  ASSUME VirtualConstants, Serial, ~ Alias, ~ DirHandles, Typed, AlongPaths, AllListed, Next
  PROVE  AllListed' /\ ListsEntries
<1>1. CASE \E c \in Clients, path \in Paths :
             \/ MkdirBegin(c, path)
             \/ \E n \in Nodes \cup {None} : LinkBegin(c, path, n)
             \/ \E n \in Nodes : LinkEntry(c, path, n)
  <2>1. PICK c \in Clients, path \in Paths :
             \/ MkdirBegin(c, path)
             \/ \E n \in Optional : LinkBegin(c, path, n)
             \/ \E n \in Nodes : LinkEntry(c, path, n)
    BY <1>1 DEF Optional
  <2>2. AllListed'
    <3>1. CASE MkdirBegin(c, path)
      BY <3>1, MkdirListed
    <3>2. CASE \E n \in Optional : LinkBegin(c, path, n)
      BY <3>2, LinkBeginListed
    <3>3. CASE \E n \in Nodes : LinkEntry(c, path, n)
      BY <3>3 DEF LinkEntry
    <3>4. QED
      BY <2>1, <3>1, <3>2, <3>3
  <2>3. UNCHANGED handle
    BY <2>1 DEF MkdirBegin, LinkBegin, LinkEntry
  <2>4. QED
    BY <2>2, <2>3 DEF ListsEntries
<1>2. CASE \E c \in Clients :
             MkdirLoad(c) \/ MkdirStore(c) \/ MkdirReturns(c) \/ LinkStore(c)
  <2>1. AllListed'
    BY <1>2, MkdirListed, MkdirStoreListed, LinkStoreListed
  <2>2. UNCHANGED handle
    BY <1>2 DEF MkdirLoad, MkdirStore, MkdirReturns, LinkStore
  <2>3. QED
    BY <2>1, <2>2 DEF ListsEntries
<1>3. CASE \E h \in Handles : ReadDir(h)
  BY <1>3, ReadDirListed
<1>4. CASE \E h \in Handles :
             \/ \E path \in Paths \cup {<< >>} : OpenDir(h, path)
             \/ \E path \in Paths, access \in {{"r"}, {"w"}, {"r", "w"}} :
                  Create(h, path, access)
             \/ \E off \in 0 .. MaxData : Seek(h, off)
             \/ \E n \in 1 .. MaxData : Read(h, n)
             \/ \E b \in UNION {[1 .. n -> Octets] : n \in 1 .. 2} : Write(h, b)
  BY <1>4, OtherHandles
<1>5. CASE \E h \in Handles, x \in Names : HandleMkdir(h, x)
  BY <1>5 DEF HandleMkdir
<1>6. QED
  BY <1>1, <1>2, <1>3, <1>4, <1>5 DEF Next

LEMMA InitListed ==
  ASSUME VirtualConstants, Init
  PROVE  AllListed
<1>1. OneName
  <2>1. Idle.at = "idle"
    BY DEF Idle
  <2>2. QED
    BY <2>1 DEF Init, OneName, OnItsWay
<1>2. \A h \in Handles : handle[h].kind = "none"
  BY DEF Init, Unused
<1>3. QED
  BY <1>1, <1>2 DEF AllListed, Remembered

LEMMA ListedStays ==
  ASSUME VirtualConstants, Serial, ~ Alias, ~ DirHandles, Typed, AlongPaths, AllListed,
         [Next]_vars
  PROVE  AllListed'
<1>1. CASE UNCHANGED vars
  <2>1. \A h \in Handles : Remembered(handle[h])'
    BY <1>1, RememberedStays DEF vars, AllListed
  <2>2. OneName'
    BY <1>1 DEF vars, AllListed, OneName
  <2>3. QED
    BY <2>1, <2>2 DEF AllListed
<1>2. QED
  BY <1>1, NextListed

(* When ReadDir has returned what it has to, every entry was returned at    *)
(* some time: by one client at a time, when no file system has two names    *)
(* (dir.ReadDir).                                                           *)
THEOREM VirtualListsAll ==
  ASSUME VirtualConstants, Serial, ~ Alias, ~ DirHandles
  PROVE  Spec => ListsAll
<1> DEFINE All == Typed /\ AlongPaths /\ AllListed
<1>1. All /\ [Next]_vars => AllListed'
  BY ListedStays
<1>2. All /\ [Next]_vars => [ListsEntries]_vars
  BY NextListed
<1>3. Init => AllListed
  BY InitListed
<1>4. Spec => [](Typed /\ AlongPaths)
  BY AlongAlways
<1>5. QED
  BY <1>1, <1>2, <1>3, <1>4, PTL DEF Spec, ListsAll
=============================================================================
